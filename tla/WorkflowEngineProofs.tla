-------------------------- MODULE WorkflowEngineProofs --------------------------
(***************************************************************************)
(* Theorems about WorkflowEngine, for every program, every number of       *)
(* workers, passes and jobs, every store and every budget of crashes,      *)
(* sweeps and redeliveries.                                                *)
(*                                                                         *)
(* Three invariants carry them.  The run is Honest: nobody holds a step    *)
(* that has no row, and no row, snapshot or write in flight says succeeded *)
(* unless the step's effects are done.  Until two replays meet in one      *)
(* process the run is InOrder: each pass has its run context to itself,    *)
(* the ordinals count the calls it has made, the key it holds is the key   *)
(* of its call, and what the body has awaited before that call is done.    *)
(* And while nobody has died, every row that waits for somebody is         *)
(* Attended: a scheduled one has a job, a timer or a worker about to claim *)
(* it, or was marked behind them, and a running one has its executor.      *)
(***************************************************************************)
EXTENDS WorkflowEngine, StepWorkersProofs, FiniteSetTheorems

--------------------------------------------------------------------------------
\* The types of contexts and passes, and of timers and budgets.
PassTypeOK ==
  /\ ordinals \in [Processes -> [Names -> Nat]]
  /\ snapshot \in [Processes -> [Steps -> [status : StepStatus, attempt : Nat]]]
  /\ snapped \in [Processes -> BOOLEAN]
  /\ cachedRun \in [Processes -> RunStatus \cup {None}]
  /\ ppc \in [Passes -> PassPC]
  /\ pos \in [Passes -> Calls]
  /\ comp \in [Passes -> BOOLEAN] /\ waits \in [Passes -> BOOLEAN]
  /\ key \in [Passes -> Steps \cup {None}]
  /\ tryNo \in [Passes -> Nat]
  /\ left \in [Passes -> 0..OrchAttempts]
TimerTypeOK ==
  /\ armed \in [Steps -> Nat] /\ fired \in [Steps -> Nat]
  /\ sweeps \in 0..MaxSweeps /\ resumes \in 0..MaxResumes /\ deaths \in 0..MaxDeaths
  /\ contextShared \in BOOLEAN

\* The calls of a pass that work on the row of its key.
AtKey == {"dispatch", "mark", "begin", "body", "store", "raise", "retry", "open", "record"}

\* What contexts, timers and passes hold has a row, and what they take for
\* succeeded is done.
HonestContexts == \A c \in Processes, s \in Steps :
  /\ snapshot[c][s].status # "absent" => Minted(s)
  /\ snapshot[c][s].status = "succeeded" => effects[s] > 0
HonestTimers == \A s \in Steps : armed[s] > 0 => Minted(s)
HonestPass(p) == /\ ppc[p] \in AtKey => Minted(key[p])
                 /\ ppc[p] = "store" => effects[key[p]] > 0
Honest == /\ RowsKnown /\ RowsEarned /\ HonestContexts /\ HonestTimers
          /\ \A p \in Passes : HonestPass(p)

EngineBase == TypeOK /\ Placed /\ JobsNameSteps /\ Honest

--------------------------------------------------------------------------------
LEMMA TypeParts == TypeOK <=> WorkerTypeOK /\ PassTypeOK /\ TimerTypeOK
BY DEF TypeOK, PassTypeOK, TimerTypeOK, Calls

\* The program, its calls and their keys.
LEMMA ProgramFacts ==
  /\ Len(Program) \in Nat /\ Len(Program) > 0
  /\ \A i \in Calls : i \in Nat /\ Program[i] \in Names /\ KeyOf(i) \in Steps
  /\ Together \subseteq Calls /\ Len(Program) \notin Together
  /\ \A i \in Together : i + 1 \in Calls /\ OnError[Program[i]] = None
                         /\ OnError[Program[i + 1]] = None
<1>1. Program \in Seq(Names) /\ Program # <<>> /\ \A i \in Calls : KeyOf(i) \in Steps
  BY ProgramAssumption
<1>2. Len(Program) \in Nat /\ Len(Program) > 0 /\ \A i \in 1..Len(Program) : Program[i] \in Names
  BY <1>1
<1>3. Together \subseteq 1..Len(Program) - 1
  BY ProgramAssumption
<1>4. \A i \in Together, k \in {0, 1} : OnError[Program[i + k]] = None
  BY ProgramAssumption
<1>5. \A i \in Together : OnError[Program[i]] = None /\ OnError[Program[i + 1]] = None
  <2>1. \A i \in Together : i \in Nat /\ i + 0 = i
    BY <1>2, <1>3
  <2> QED BY <1>4, <2>1
<1> QED BY <1>1, <1>2, <1>3, <1>5 DEF Calls

\* Leaving gives back a typed context and an idle pass.
LEMMA LeaveTypes ==
  ASSUME PassTypeOK, NEW p \in Passes, PassLeave(p)
  PROVE  PassTypeOK'
<1>1. Ctx(p) \in Processes /\ 1 \in Calls /\ NoRows \in [Steps -> [status : StepStatus, attempt : Nat]]
  BY ProcessAssumption, ProgramFacts DEF Ctx, Calls, NoRows, StepStatus
<1>2. /\ ordinals' \in [Processes -> [Names -> Nat]]
      /\ snapshot' \in [Processes -> [Steps -> [status : StepStatus, attempt : Nat]]]
      /\ snapped' \in [Processes -> BOOLEAN]
      /\ cachedRun' \in [Processes -> RunStatus \cup {None}]
  <2>1. CASE UNCHANGED contextVars
    BY <2>1 DEF PassTypeOK, contextVars
  <2>2. CASE /\ ClearOrdinals(Ctx(p))
             /\ snapshot' = [snapshot EXCEPT ![Ctx(p)] = NoRows]
             /\ snapped' = [snapped EXCEPT ![Ctx(p)] = FALSE]
             /\ cachedRun' = [cachedRun EXCEPT ![Ctx(p)] = None]
    <3>1. [n \in Names |-> 0] \in [Names -> Nat]
      OBVIOUS
    <3>2. ordinals' \in [Processes -> [Names -> Nat]]
      BY <1>1, <2>2, <3>1 DEF PassTypeOK, ClearOrdinals
    <3>3. snapshot' \in [Processes -> [Steps -> [status : StepStatus, attempt : Nat]]]
      BY <1>1, <2>2 DEF PassTypeOK
    <3> QED BY <1>1, <2>2, <3>2, <3>3 DEF PassTypeOK
  <2> QED BY <2>1, <2>2 DEF PassLeave, ExitExecution
<1> QED
  BY <1>1, <1>2, AttemptsAssumption DEF PassTypeOK, PassLeave, PassGoto, PassPC

\* Wherever a call lets the pass go on, it is a place in the program.
LEMMA MoveTypes ==
  ASSUME PassTypeOK, NEW p \in Passes, Returns(p) \/ Parks(p) \/ Fails(p)
  PROVE  /\ ppc' \in [Passes -> PassPC] /\ pos' \in [Passes -> Calls]
         /\ comp' \in [Passes -> BOOLEAN] /\ waits' \in [Passes -> BOOLEAN]
         /\ ppc'[p] \in {"call", "park", "failRun", "complete"}
         /\ \A q \in Passes \ {p} : /\ ppc'[q] = ppc[q] /\ pos'[q] = pos[q]
                                    /\ comp'[q] = comp[q] /\ waits'[q] = waits[q]
<1>1. pos[p] \in Calls /\ (pos[p] # Len(Program) => pos[p] + 1 \in Calls)
  BY ProgramFacts DEF PassTypeOK, Calls
<1>2. CASE Returns(p)
  BY <1>1, <1>2 DEF PassTypeOK, Returns, PassGoto, PassPC
<1>3. CASE Parks(p)
  BY ZenonT(40), <1>1, <1>3, ProgramFacts DEF PassTypeOK, Parks, PassGoto, PassPC
<1>4. CASE Fails(p) /\ ~waits[p]
  BY <1>1, <1>4 DEF PassTypeOK, Fails, PassGoto, PassPC
<1> QED BY <1>2, <1>3, <1>4 DEF Fails

\* What a call may do with the state of its step.
LEMMA ResolveMoves ==
  ASSUME NEW p \in Passes, NEW kind, NEW r, Resolve(p, kind, r)
  PROVE  \/ r.status = "succeeded" /\ Returns(p)
         \/ Parks(p) \/ Fails(p)
         \/ /\ \E l \in {"open", "record", "dispatch", "begin"} : PassGoto(p, l)
            /\ UNCHANGED <<pos, comp, waits>>
BY DEF Resolve, Walked

--------------------------------------------------------------------------------
\* The workers and the queue stand still while a pass or a timer moves.
LEMMA WorkersWait ==
  ASSUME EngineBase, UNCHANGED <<job, pc, mine, at>>, NothingLost,
         \A s \in Steps : status'[s] = "succeeded" => effects'[s] > 0
  PROVE  Placed' /\ JobsNameSteps' /\ RowsKnown' /\ RowsEarned'
<1>1. \A s : Minted(s) => Minted(s)'
  BY DEF NothingLost, Minted
<1>2. \A w \in Workers : (pc[w] # "idle" => Minted(at[w]))'
  BY <1>1 DEF EngineBase, Honest, RowsKnown, Minted
<1>3. \A j \in Jobs : HasRow(job[j])'
  BY <1>1 DEF EngineBase, Honest, RowsKnown, HasRow, Minted
<1>4. Placed' /\ JobsNameSteps'
  BY DEF EngineBase, Placed, JobsNameSteps
<1>5. RowsEarned'
  <2>1. \A w \in Workers : pc[w] = "result" => at[w] \in Steps /\ effects[at[w]] > 0
    BY DEF EngineBase, Placed, Honest, RowsEarned
  <2> QED BY <2>1 DEF NothingLost, RowsEarned
<1> QED BY <1>2, <1>3, <1>4, <1>5 DEF RowsKnown

\* The other passes and the contexts stay honest while rows only grow.
LEMMA PassesWait ==
  ASSUME EngineBase, NothingLost, NEW q \in Passes, ppc'[q] = ppc[q], key'[q] = key[q]
  PROVE  HonestPass(q)'
<1>1. PICK s : s = key[q]
  OBVIOUS
<1>2. ppc[q] \in AtKey => Minted(s) /\ (ppc[q] = "store" => effects[s] > 0)
  BY <1>1 DEF EngineBase, Honest, HonestPass
<1>3. ppc[q] \in AtKey => Minted(s)' /\ (ppc[q] = "store" => effects'[s] > 0)
  BY <1>2 DEF NothingLost, Minted
<1> QED BY <1>1, <1>3 DEF HonestPass, AtKey, Minted

LEMMA ContextsWait ==
  ASSUME EngineBase, NothingLost,
         \A c \in Processes, s \in Steps :
           snapshot'[c][s] = snapshot[c][s] \/ snapshot'[c][s].status = "absent"
  PROVE  HonestContexts'
BY DEF EngineBase, Honest, HonestContexts, NothingLost, Minted

LEMMA TimersWait ==
  ASSUME EngineBase, NothingLost, armed' = armed
  PROVE  HonestTimers'
BY DEF EngineBase, Honest, HonestTimers, NothingLost

\* A step of pass p that leaves workers, queue of steps and timers alone.
LEMMA PassKeepsHonest ==
  ASSUME EngineBase, NothingLost, NEW p \in Passes,
         UNCHANGED <<job, pc, mine, at, armed>>,
         \A s \in Steps : status'[s] = "succeeded" => effects'[s] > 0,
         \A c \in Processes, s \in Steps :
           snapshot'[c][s] = snapshot[c][s] \/ snapshot'[c][s].status = "absent",
         \A q \in Passes \ {p} : ppc'[q] = ppc[q] /\ key'[q] = key[q],
         ppc'[p] \in AtKey => ppc[p] \in AtKey /\ key'[p] = key[p],
         ppc'[p] = "store" => effects'[key[p]] > 0
  PROVE  Placed' /\ JobsNameSteps' /\ Honest'
<1>1. HonestPass(p)'
  <2>1. PICK s : s = key[p]
    OBVIOUS
  <2>2. ppc[p] \in AtKey => Minted(s)'
    BY <2>1 DEF EngineBase, Honest, HonestPass, NothingLost, Minted
  <2> QED BY <2>1, <2>2 DEF HonestPass, AtKey, Minted
<1>2. \A q \in Passes : HonestPass(q)'
  BY <1>1, PassesWait
<1> QED BY <1>2, WorkersWait, ContextsWait, TimersWait DEF Honest

\* What a pass that leaves does to the contexts and to itself.
LEMMA LeaveFrame ==
  ASSUME PassTypeOK, NEW p \in Passes, PassLeave(p)
  PROVE  /\ \A c \in Processes, s \in Steps :
              snapshot'[c][s] = snapshot[c][s] \/ snapshot'[c][s].status = "absent"
         /\ \A q \in Passes \ {p} : /\ ppc'[q] = ppc[q] /\ key'[q] = key[q]
                                    /\ pos'[q] = pos[q] /\ comp'[q] = comp[q]
                                    /\ waits'[q] = waits[q]
         /\ ppc'[p] = "idle" /\ pos'[p] = 1 /\ ~comp'[p] /\ ~waits'[p]
<1>1. \A c \in Processes, s \in Steps :
        snapshot'[c][s] = snapshot[c][s] \/ snapshot'[c][s].status = "absent"
  <2>1. \A s \in Steps : NoRows[s].status = "absent"
    BY DEF NoRows
  <2>2. snapshot' = snapshot \/ snapshot' = [snapshot EXCEPT ![Ctx(p)] = NoRows]
    BY DEF PassLeave, ExitExecution, contextVars
  <2> QED BY <2>1, <2>2 DEF PassTypeOK
<1> QED BY <1>1 DEF PassTypeOK, PassLeave, PassGoto

\* Leaving keeps the run honest, whatever becomes of the run row and the job.
LEMMA LeaveKeeps ==
  ASSUME EngineBase, NEW p \in Passes, PassLeave(p),
         UNCHANGED <<status, attempt, job, workerState, history, faults, timerVars>>,
         runStatus' \in RunStatus, wakes' \in [1..OrchAttempts -> Nat],
         UNCHANGED <<sweeps, resumes, contextShared>>, deaths' \in 0..MaxDeaths
  PROVE  EngineBase' /\ NothingLost /\ NothingMinted
<1>1. WorkerTypeOK /\ PassTypeOK /\ TimerTypeOK
  BY TypeParts DEF EngineBase
<1>2. NothingLost /\ NothingMinted
  BY DEF NothingLost, NothingMinted, Minted, history
<1>3. Placed' /\ JobsNameSteps' /\ Honest'
  <2>1. \A s \in Steps : status'[s] = "succeeded" => effects'[s] > 0
    BY DEF EngineBase, Honest, RowsEarned, history
  <2>2. ppc'[p] \notin AtKey
    BY <1>1, LeaveFrame DEF AtKey
  <2> QED BY <1>1, <1>2, <2>1, <2>2, LeaveFrame, PassKeepsHonest DEF workerState,
             timerVars, AtKey
<1>4. TypeOK'
  <2>1. WorkerTypeOK'
    BY <1>1 DEF WorkerTypeOK, workerState, history, faults
  <2>2. PassTypeOK'
    BY <1>1, LeaveTypes
  <2>3. TimerTypeOK'
    BY <1>1 DEF TimerTypeOK, timerVars
  <2> QED BY <2>1, <2>2, <2>3, TypeParts DEF TypeOK, PassTypeOK, TimerTypeOK, Calls
<1> QED BY <1>2, <1>3, <1>4 DEF EngineBase

\* One orchestrator job more, or one taken.
LEMMA WakesTypes ==
  ASSUME wakes \in [1..OrchAttempts -> Nat], NEW k
  PROVE  /\ [wakes EXCEPT ![k] = @ + 1] \in [1..OrchAttempts -> Nat]
         /\ k \in 1..OrchAttempts /\ wakes[k] > 0
              => [wakes EXCEPT ![k] = @ - 1] \in [1..OrchAttempts -> Nat]
<1>1. CASE k \in 1..OrchAttempts
  <2>1. wakes[k] \in Nat
    BY <1>1
  <2>2. wakes[k] + 1 \in Nat /\ (wakes[k] > 0 => wakes[k] - 1 \in Nat)
    BY <2>1
  <2> QED BY <2>2
<1>2. CASE k \notin 1..OrchAttempts
  <2>1. [wakes EXCEPT ![k] = @ + 1] = wakes
    BY <1>2
  <2> QED BY <1>2, <2>1
<1> QED BY <1>1, <1>2

\* The job of a pass that fails comes back, or not.
LEMMA NackTypes ==
  ASSUME TypeOK, NEW p \in Passes, PassNack(p)
  PROVE  wakes' \in [1..OrchAttempts -> Nat]
BY WakesTypes DEF TypeOK, WorkerTypeOK, PassNack

\* A pass writes the row of its key.
LEMMA KeyWrite ==
  ASSUME EngineBase, NEW p \in Passes, ppc[p] \in AtKey,
         NEW v \in StepStatus \ {"absent"}, SetStatus(key[p], v)
  PROVE  \E s \in Steps :
           /\ s = key[p] /\ Minted(s) /\ status' \in [Steps -> StepStatus]
           /\ \A t : Minted(t)' <=> Minted(t)
           /\ status'[s] = v /\ \A t \in Steps \ {s} : status'[t] = status[t]
<1>1. PICK s : s = key[p]
  OBVIOUS
<1>2. s \in Steps /\ Minted(s) /\ SetStatus(s, v)
  BY <1>1 DEF EngineBase, Honest, HonestPass, Minted
<1>3. WorkerTypeOK
  BY TypeParts DEF EngineBase
<1>4. status' \in [Steps -> StepStatus]
  BY <1>2, <1>3 DEF SetStatus, WorkerTypeOK
<1> QED BY <1>1, <1>2, <1>3, <1>4, RowWrite

\* Every step of a pass but the reaching of a call loses nothing, mints no row
\* and leaves the run honest.
LEMMA PassKeeps ==
  ASSUME EngineBase, NEW p \in Passes, BeginReplay(p) \/ PassStep(p) \/ Die(p), ~Reach(p)
  PROVE  EngineBase' /\ NothingLost /\ NothingMinted
<1>1. WorkerTypeOK /\ PassTypeOK /\ TimerTypeOK
  BY TypeParts DEF EngineBase
<1>2. \A s \in Steps : status[s] = "succeeded" => effects[s] > 0
  BY DEF EngineBase, Honest, RowsEarned
<1>3. ASSUME UNCHANGED <<status, effects>> PROVE NothingLost /\ NothingMinted
  BY <1>3 DEF NothingLost, NothingMinted, Minted
<1>4. ASSUME WorkerTypeOK', PassTypeOK', TimerTypeOK' PROVE TypeOK'
  BY <1>4 DEF TypeOK, PassTypeOK, TimerTypeOK, Calls
<1>5. Ctx(p) \in Processes
  BY ProcessAssumption DEF Ctx
<1>7. ASSUME BeginReplay(p)
      PROVE  EngineBase' /\ NothingLost /\ NothingMinted
  <2>1. WorkerTypeOK'
    BY <1>1, <1>7, WakesTypes DEF BeginReplay, WorkerTypeOK, rows, queues, workerState,
       history, faults, workerVars
  <2>2. PassTypeOK'
    BY <1>1, <1>5, <1>7 DEF BeginReplay, PassTypeOK, contextVars, PassGoto, PassPC,
       ClearOrdinals
  <2>3. TimerTypeOK'
    BY <1>1, <1>7 DEF BeginReplay, TimerTypeOK, timerVars
  <2>4. NothingLost /\ NothingMinted
    BY <1>3, <1>7 DEF BeginReplay, rows, history, workerVars
  <2>5. Placed' /\ JobsNameSteps' /\ Honest'
    BY <1>1, <1>2, <2>4, <1>7, PassKeepsHonest
       DEF BeginReplay, AtKey, PassTypeOK, PassGoto, rows, queues, workerState, history,
       faults, contextVars, timerVars, budgetVars, workerVars
  <2> QED BY <1>4, <2>1, <2>2, <2>3, <2>4, <2>5 DEF EngineBase
<1>8. ASSUME ReadSteps(p)
      PROVE  EngineBase' /\ NothingLost /\ NothingMinted
  <2>1. WorkerTypeOK' /\ TimerTypeOK'
    BY <1>1, <1>8 DEF ReadSteps, WorkerTypeOK, rows, queues, workerState, history,
       faults, workerVars, TimerTypeOK, timerVars, budgetVars
  <2>2. \A s \in Steps : Row(s) \in [status : StepStatus, attempt : Nat]
    BY <1>1 DEF Row, WorkerTypeOK
  <2>3. PassTypeOK'
    BY <1>1, <1>5, <2>2, <1>8 DEF ReadSteps, PassTypeOK, PassGoto, PassPC
  <2>4. NothingLost /\ NothingMinted
    BY <1>3, <1>8 DEF ReadSteps, rows, history, workerVars
  <2>5. Placed' /\ JobsNameSteps' /\ RowsKnown' /\ RowsEarned'
    BY <1>2, <2>4, <1>8, WorkersWait DEF ReadSteps, rows, queues, workerState, history,
       faults, contextVars, timerVars, budgetVars, workerVars
  <2>6. HonestContexts'
    <3>1. ASSUME NEW c \in Processes, NEW s \in Steps
          PROVE  snapshot'[c][s] = snapshot[c][s] \/ snapshot'[c][s] = Row(s)
      BY <1>1, <1>5, <1>8 DEF ReadSteps, PassTypeOK
    <3>2. \A s \in Steps : Row(s).status = status'[s]
      BY <1>8 DEF ReadSteps, Row, workerVars, rows
    <3> QED BY <1>2, <2>4, <3>1, <3>2, <1>8
            DEF EngineBase, Honest, HonestContexts, NothingLost, Minted, ReadSteps,
            workerVars, rows, history
  <2>7. HonestTimers'
    BY <2>4, <1>8, TimersWait DEF ReadSteps, timerVars
  <2>8. \A q \in Passes : HonestPass(q)'
    <3>1. ~(ppc'[p] \in AtKey) /\ \A q \in Passes \ {p} : ppc'[q] = ppc[q] /\ key'[q] = key[q]
      BY <1>1, <1>8 DEF ReadSteps, PassTypeOK, PassGoto, AtKey
    <3> QED BY <2>4, <3>1, PassesWait DEF HonestPass, AtKey
  <2> QED BY <1>4, <2>1, <2>3, <2>4, <2>5, <2>6, <2>7, <2>8 DEF EngineBase, Honest
<1>9. ASSUME CheckSettled(p)
      PROVE  EngineBase' /\ NothingLost /\ NothingMinted
  <2>1. CASE PassLeave(p)
    BY <1>1, <2>1, <1>9, LeaveKeeps
       DEF CheckSettled, TimerTypeOK, WorkerTypeOK, rows, queues, workerVars, timerVars,
       budgetVars
  <2>2. CASE ~PassLeave(p)
    <3>1. /\ PassGoto(p, "lock")
          /\ UNCHANGED <<ordinals, snapshot, snapped, pos, comp, waits, key, tryNo, left,
                         workerVars, timerVars, budgetVars>>
      BY <2>2, <1>9 DEF CheckSettled
    <3>2. cachedRun' \in [Processes -> RunStatus \cup {None}]
      BY <1>1, <1>5, <2>2, <1>9 DEF CheckSettled, PassTypeOK, WorkerTypeOK
    <3>3. WorkerTypeOK' /\ TimerTypeOK'
      BY <1>1, <3>1 DEF WorkerTypeOK, rows, queues, workerState, history, faults,
         workerVars, TimerTypeOK, timerVars, budgetVars
    <3>4. PassTypeOK'
      BY <1>1, <3>1, <3>2 DEF PassTypeOK, PassGoto, PassPC
    <3>5. NothingLost /\ NothingMinted
      BY <1>3, <3>1 DEF rows, history, workerVars
    <3>6. Placed' /\ JobsNameSteps' /\ Honest'
      BY <1>1, <1>2, <3>1, <3>5, PassKeepsHonest
         DEF AtKey, PassTypeOK, PassGoto, rows, queues, workerState, history, faults,
         contextVars, timerVars, budgetVars, workerVars
    <3> QED BY <1>4, <3>3, <3>4, <3>5, <3>6 DEF EngineBase
  <2> QED BY <2>1, <2>2
<1>10. ASSUME EnterBody(p)
      PROVE  EngineBase' /\ NothingLost /\ NothingMinted
  <2>1. WorkerTypeOK'
    BY <1>1, <1>10 DEF EnterBody, WorkerTypeOK, rows, queues, workerState, history,
       faults, workerVars
  <2>2. PassTypeOK'
    BY <1>1, <1>5, <1>10 DEF EnterBody, PassTypeOK, contextVars, PassGoto, PassPC
  <2>3. TimerTypeOK'
    BY <1>1, <1>10 DEF EnterBody, TimerTypeOK, timerVars, budgetVars
  <2>4. NothingLost /\ NothingMinted
    BY <1>3, <1>10 DEF EnterBody, rows, history, workerVars
  <2>5. Placed' /\ JobsNameSteps' /\ Honest'
    BY <1>1, <1>2, <2>4, <1>10, PassKeepsHonest
       DEF EnterBody, AtKey, PassTypeOK, PassGoto, rows, queues, workerState, history,
       faults, contextVars, timerVars, budgetVars, workerVars
  <2> QED BY <1>4, <2>1, <2>2, <2>3, <2>4, <2>5 DEF EngineBase
<1>11. ASSUME Dispatch(p)
      PROVE  EngineBase' /\ NothingLost /\ NothingMinted
  <2>1. PICK s \in Steps : s = key[p] /\ Minted(s)
    BY <1>11 DEF Dispatch, AtKey, EngineBase, Honest, HonestPass, Minted
  <2>2. NothingLost /\ NothingMinted
    BY <1>3, <1>11 DEF Dispatch, rows, history
  <2>3. job' \in [Jobs -> Job] /\ JobsNameSteps' /\ \A j \in Jobs : HasRow(job[j])'
    <3>1. CASE job' = job
      BY <1>1, <2>2, <3>1 DEF EngineBase, Honest, RowsKnown, HasRow, JobsNameSteps,
         NothingLost,
                              Minted, WorkerTypeOK
    <3>2. CASE EnqueueStep(s)
      <4>1. PICK j \in Jobs : job' = [job EXCEPT ![j] = StepJob(s)]
        BY <3>2, Enqueued
      <4>2. StepJob(s) \in Job /\ NamesStep(StepJob(s)) /\ StepJob(s).step = s
        BY JobTypes DEF NamesStep
      <4>3. job' \in [Jobs -> Job] /\ JobsNameSteps'
        BY <1>1, <4>1, <4>2, JobUpdate DEF EngineBase, WorkerTypeOK
      <4>4. \A i \in Jobs : HasRow(job[i])'
        BY <1>1, <2>1, <2>2, <4>1, <4>2
           DEF EngineBase, Honest, RowsKnown, HasRow, NothingLost, Minted, WorkerTypeOK
      <4> QED BY <4>3, <4>4
    <3> QED BY <2>1, <3>1, <3>2, <1>11 DEF Dispatch
  <2>4. WorkerTypeOK'
    BY <1>1, <2>3, <1>11 DEF Dispatch, WorkerTypeOK, rows, workerState, history, faults
  <2>5. PassTypeOK'
    BY <1>1, <1>11 DEF Dispatch, PassTypeOK, contextVars, PassGoto, PassPC
  <2>6. TimerTypeOK' /\ HonestTimers'
    BY <1>1, <2>1, <2>2, <1>11 DEF Dispatch, TimerTypeOK, HonestTimers, EngineBase, Honest,
                                 NothingLost, budgetVars
  <2>7. Placed' /\ RowsKnown' /\ RowsEarned'
    <3>1. \A w \in Workers : (pc[w] # "idle" => Minted(at[w]))'
      BY <2>2, <1>11 DEF Dispatch, workerState, EngineBase, Honest, RowsKnown,
         NothingLost, Minted
    <3>2. RowsEarned' /\ Placed'
      BY <1>11 DEF Dispatch, EngineBase, Honest, RowsEarned, Placed, rows, history,
         workerState
    <3> QED BY <2>3, <3>1, <3>2 DEF RowsKnown
  <2>8. HonestContexts'
    BY <2>2, <1>11, ContextsWait DEF Dispatch, contextVars
  <2>9. \A q \in Passes : HonestPass(q)'
    <3>1. ppc'[p] = "mark" /\ key'[p] = s /\ Minted(s)'
      BY <1>1, <2>1, <2>2, <1>11 DEF Dispatch, PassTypeOK, PassGoto, NothingLost
    <3>2. \A q \in Passes \ {p} : ppc'[q] = ppc[q] /\ key'[q] = key[q]
      BY <1>1, <1>11 DEF Dispatch, PassTypeOK, PassGoto
    <3>3. HonestPass(p)'
      BY <3>1 DEF HonestPass, Minted
    <3> QED BY <2>2, <3>2, <3>3, PassesWait
  <2> QED BY <1>4, <2>2, <2>3, <2>4, <2>5, <2>6, <2>7, <2>8, <2>9 DEF EngineBase, Honest
<1>12. ASSUME DispatchThrows(p)
      PROVE  EngineBase' /\ NothingLost /\ NothingMinted
  <2>1. WorkerTypeOK'
    BY <1>1, <1>12 DEF DispatchThrows, WorkerTypeOK, rows, queues, workerState, history,
       faults, workerVars
  <2>2. PassTypeOK'
    BY <1>1, <1>5, <1>12 DEF DispatchThrows, PassTypeOK, contextVars, PassGoto, PassPC
  <2>3. TimerTypeOK'
    BY <1>1, <1>12 DEF DispatchThrows, TimerTypeOK, timerVars, budgetVars
  <2>4. NothingLost /\ NothingMinted
    BY <1>3, <1>12 DEF DispatchThrows, rows, history, workerVars
  <2>5. Placed' /\ JobsNameSteps' /\ Honest'
    BY <1>1, <1>2, <2>4, <1>12, PassKeepsHonest
       DEF DispatchThrows, AtKey, PassTypeOK, PassGoto, rows, queues, workerState,
       history, faults, contextVars, timerVars, budgetVars, workerVars
  <2> QED BY <1>4, <2>1, <2>2, <2>3, <2>4, <2>5 DEF EngineBase
<1>13. ASSUME MarkScheduled(p)
      PROVE  EngineBase' /\ NothingLost /\ NothingMinted
  <2>1. PICK s \in Steps :
          /\ s = key[p] /\ Minted(s) /\ status' \in [Steps -> StepStatus]
          /\ \A t : Minted(t)' <=> Minted(t)
          /\ status'[s] = "scheduled" /\ \A t \in Steps \ {s} : status'[t] = status[t]
    BY <1>13, KeyWrite DEF MarkScheduled, setStepScheduled, AtKey, StepStatus
  <2>2. WorkerTypeOK'
    <3>1. late' \in [Steps -> Nat]
      <4>1. late \in [Steps -> Nat] /\ late[s] + 1 \in Nat
        BY <1>1 DEF WorkerTypeOK
      <4>2. late' = late \/ late' = [late EXCEPT ![s] = late[s] + 1]
        BY <2>1, <4>1, <1>13 DEF MarkScheduled, setStepScheduled
      <4> QED BY <4>1, <4>2
    <3> QED BY <1>1, <2>1, <3>1, <1>13 DEF MarkScheduled, WorkerTypeOK, queues,
               workerState, history
  <2>3. PassTypeOK'
    BY <1>1, <1>5, <2>1, <1>13, MoveTypes DEF MarkScheduled, PassTypeOK, contextVars,
       PassGoto, PassPC
  <2>4. TimerTypeOK'
    BY <1>1, <1>13 DEF MarkScheduled, TimerTypeOK, timerVars, budgetVars
  <2>5. NothingLost /\ NothingMinted
    BY <1>1, <2>1, <1>13 DEF MarkScheduled, NothingLost, NothingMinted, history,
       WorkerTypeOK
  <2>6. Placed' /\ JobsNameSteps' /\ Honest'
    <3>1. \A t \in Steps : status'[t] = "succeeded" => effects'[t] > 0
      BY <1>1, <1>2, <2>1, <1>13 DEF MarkScheduled, history, WorkerTypeOK
    <3>2. \A q \in Passes \ {p} : ppc'[q] = ppc[q] /\ key'[q] = key[q]
      BY <1>1, <1>13, MoveTypes DEF MarkScheduled, PassTypeOK, PassGoto
    <3>3. ppc'[p] # "store" /\ ppc[p] \in AtKey /\ key'[p] = key[p]
      BY <1>1, <1>13, MoveTypes DEF MarkScheduled, PassTypeOK, PassGoto, AtKey
    <3> QED BY <2>5, <3>1, <3>2, <3>3, <1>13, PassKeepsHonest DEF MarkScheduled, queues,
               workerState, contextVars, timerVars
  <2> QED BY <1>4, <2>2, <2>3, <2>4, <2>5, <2>6 DEF EngineBase
<1>14. ASSUME Park(p)
      PROVE  EngineBase' /\ NothingLost /\ NothingMinted
  BY <1>1, <1>14, LeaveKeeps
     DEF Park, TimerTypeOK, WorkerTypeOK, RunStatus, rows, queues, workerVars,
     timerVars, budgetVars
<1>15. ASSUME Begin(p)
      PROVE  EngineBase' /\ NothingLost /\ NothingMinted
  <2>1. PICK s \in Steps :
          /\ s = key[p] /\ Minted(s) /\ status' \in [Steps -> StepStatus]
          /\ \A t : Minted(t)' <=> Minted(t)
          /\ status'[s] = "running" /\ \A t \in Steps \ {s} : status'[t] = status[t]
    BY <1>15, KeyWrite DEF Begin, AtKey, StepStatus
  <2>2. WorkerTypeOK'
    BY <1>1, <2>1, <1>15 DEF Begin, WorkerTypeOK, NextAttempt, queues, workerState,
       history, faults
  <2>3. PassTypeOK'
    BY <1>1, <1>5, <2>1, <1>15 DEF Begin, PassTypeOK, contextVars, PassGoto, PassPC
  <2>4. TimerTypeOK'
    BY <1>1, <1>15 DEF Begin, TimerTypeOK, timerVars, budgetVars
  <2>5. NothingLost /\ NothingMinted
    BY <1>1, <2>1, <1>15 DEF Begin, NothingLost, NothingMinted, history, WorkerTypeOK
  <2>6. Placed' /\ JobsNameSteps' /\ Honest'
    <3>1. \A t \in Steps : status'[t] = "succeeded" => effects'[t] > 0
      BY <1>1, <1>2, <2>1, <1>15 DEF Begin, history, WorkerTypeOK
    <3>2. \A q \in Passes \ {p} : ppc'[q] = ppc[q] /\ key'[q] = key[q]
      BY <1>1, <1>15 DEF Begin, PassTypeOK, PassGoto
    <3>3. ppc'[p] # "store" /\ ppc[p] \in AtKey /\ key'[p] = key[p]
      BY <1>1, <1>15 DEF Begin, PassTypeOK, PassGoto, AtKey
    <3> QED BY <2>5, <3>1, <3>2, <3>3, <1>15, PassKeepsHonest DEF Begin, queues,
               workerState, contextVars, timerVars
  <2> QED BY <1>4, <2>2, <2>3, <2>4, <2>5, <2>6 DEF EngineBase
<1>16. ASSUME BodyEnds(p)
      PROVE  EngineBase' /\ NothingLost /\ NothingMinted
  <2>1. PICK s \in Steps : s = key[p] /\ Minted(s)
    BY <1>16 DEF BodyEnds, AtKey, EngineBase, Honest, HonestPass, Minted
  <2>2. effects' \in [Steps -> Nat] /\ \A t \in Steps : effects[t] > 0 => effects'[t] > 0
    <3>1. effects[s] \in Nat /\ effects[s] + 1 \in Nat
      BY <1>1 DEF WorkerTypeOK
    <3>2. effects' = effects \/ effects' = [effects EXCEPT ![s] = effects[s] + 1]
      BY <2>1, <1>16 DEF BodyEnds
    <3>3. effects \in [Steps -> Nat]
      BY <1>1 DEF WorkerTypeOK
    <3>4. effects' \in [Steps -> Nat]
      BY <3>1, <3>2, <3>3
    <3>5. \A t \in Steps : effects'[t] = effects[t] \/ effects'[t] = effects[s] + 1
      BY <3>2, <3>3
    <3> QED BY <3>1, <3>4, <3>5
  <2>3. ppc'[p] \in {"store", "raise", "missing"} /\ (ppc'[p] = "store" => effects'[s] > 0)
    BY <1>1, <2>1, <1>16 DEF BodyEnds, WorkerTypeOK, PassTypeOK, PassGoto
  <2>4. WorkerTypeOK' /\ PassTypeOK' /\ TimerTypeOK'
    <3>1. missing' \in BOOLEAN
      BY <1>1, <1>16 DEF BodyEnds, WorkerTypeOK
    <3> QED BY <3>1, <1>1, <2>2, <1>16 DEF BodyEnds, WorkerTypeOK, rows, queues, workerState, history,
       faults, workerVars, PassTypeOK, PassGoto, PassPC,
                           contextVars, TimerTypeOK, timerVars, budgetVars
  <2>5. NothingLost /\ NothingMinted
    BY <2>2, <1>16 DEF BodyEnds, NothingLost, NothingMinted, Minted, rows
  <2>6. Placed' /\ JobsNameSteps' /\ Honest'
    <3>1. \A t \in Steps : status'[t] = "succeeded" => effects'[t] > 0
      BY <1>2, <2>2, <1>16 DEF BodyEnds, rows
    <3>2. \A q \in Passes \ {p} : ppc'[q] = ppc[q] /\ key'[q] = key[q]
      BY <1>1, <1>16 DEF BodyEnds, PassTypeOK, PassGoto
    <3>3. ppc[p] \in AtKey /\ key'[p] = key[p]
      BY <1>16 DEF BodyEnds, AtKey
    <3> QED BY <2>1, <2>3, <2>5, <3>1, <3>2, <3>3, <1>16, PassKeepsHonest
            DEF BodyEnds, queues, workerState, contextVars, timerVars
  <2> QED BY <1>4, <2>4, <2>5, <2>6 DEF EngineBase
<1>17. ASSUME StoreResult(p)
      PROVE  EngineBase' /\ NothingLost /\ NothingMinted
  <2>1. PICK s \in Steps :
          /\ s = key[p] /\ Minted(s) /\ status' \in [Steps -> StepStatus]
          /\ \A t : Minted(t)' <=> Minted(t)
          /\ status'[s] = "succeeded" /\ \A t \in Steps \ {s} : status'[t] = status[t]
    BY <1>17, KeyWrite DEF StoreResult, AtKey, StepStatus
  <2>2. WorkerTypeOK'
    BY <1>1, <2>1, <1>17 DEF StoreResult, WorkerTypeOK, NextAttempt, queues,
       workerState, history, faults
  <2>3. PassTypeOK'
    BY <1>1, <1>5, <2>1, <1>17, MoveTypes DEF StoreResult, PassTypeOK, contextVars,
       PassGoto, PassPC
  <2>4. TimerTypeOK'
    BY <1>1, <1>17 DEF StoreResult, TimerTypeOK, timerVars, budgetVars
  <2>5. NothingLost /\ NothingMinted
    BY <1>1, <2>1, <1>17 DEF StoreResult, NothingLost, NothingMinted, history, WorkerTypeOK
  <2>6. Placed' /\ JobsNameSteps' /\ Honest'
    <3>1. \A t \in Steps : status'[t] = "succeeded" => effects'[t] > 0
      BY <1>1, <1>2, <2>1, <1>17 DEF StoreResult, history, WorkerTypeOK, EngineBase,
         Honest, HonestPass
    <3>2. \A q \in Passes \ {p} : ppc'[q] = ppc[q] /\ key'[q] = key[q]
      BY <1>1, <1>17, MoveTypes DEF StoreResult, PassTypeOK, PassGoto
    <3>3. ppc'[p] # "store" /\ ppc[p] \in AtKey /\ key'[p] = key[p]
      BY <1>1, <1>17, MoveTypes DEF StoreResult, PassTypeOK, PassGoto, AtKey
    <3> QED BY <2>5, <3>1, <3>2, <3>3, <1>17, PassKeepsHonest DEF StoreResult, queues,
               workerState, contextVars, timerVars
  <2> QED BY <1>4, <2>2, <2>3, <2>4, <2>5, <2>6 DEF EngineBase
<1>18. ASSUME StoreError(p)
      PROVE  EngineBase' /\ NothingLost /\ NothingMinted
  <2>1. PICK s \in Steps :
          /\ s = key[p] /\ Minted(s) /\ status' \in [Steps -> StepStatus]
          /\ \A t : Minted(t)' <=> Minted(t)
          /\ status'[s] = "failed" /\ \A t \in Steps \ {s} : status'[t] = status[t]
    BY <1>18, KeyWrite DEF StoreError, AtKey, StepStatus
  <2>2. WorkerTypeOK'
    BY <1>1, <2>1, <1>18 DEF StoreError, WorkerTypeOK, NextAttempt, queues, workerState,
       history, faults
  <2>3. PassTypeOK'
    BY <1>1, <1>5, <2>1, <1>18 DEF StoreError, PassTypeOK, contextVars, PassGoto, PassPC
  <2>4. TimerTypeOK'
    BY <1>1, <1>18 DEF StoreError, TimerTypeOK, timerVars, budgetVars
  <2>5. NothingLost /\ NothingMinted
    BY <1>1, <2>1, <1>18 DEF StoreError, NothingLost, NothingMinted, history, WorkerTypeOK
  <2>6. Placed' /\ JobsNameSteps' /\ Honest'
    <3>1. \A t \in Steps : status'[t] = "succeeded" => effects'[t] > 0
      BY <1>1, <1>2, <2>1, <1>18 DEF StoreError, history, WorkerTypeOK
    <3>2. \A q \in Passes \ {p} : ppc'[q] = ppc[q] /\ key'[q] = key[q]
      BY <1>1, <1>18 DEF StoreError, PassTypeOK, PassGoto
    <3>3. ppc'[p] # "store" /\ ppc[p] \in AtKey /\ key'[p] = key[p]
      BY <1>1, <1>18 DEF StoreError, PassTypeOK, PassGoto, AtKey
    <3> QED BY <2>5, <3>1, <3>2, <3>3, <1>18, PassKeepsHonest DEF StoreError, queues,
               workerState, contextVars, timerVars
  <2> QED BY <1>4, <2>2, <2>3, <2>4, <2>5, <2>6 DEF EngineBase
<1>19. ASSUME RetryPending(p)
      PROVE  EngineBase' /\ NothingLost /\ NothingMinted
  <2>1. PICK s \in Steps :
          /\ s = key[p] /\ Minted(s) /\ status' \in [Steps -> StepStatus]
          /\ \A t : Minted(t)' <=> Minted(t)
          /\ status'[s] = "pending" /\ \A t \in Steps \ {s} : status'[t] = status[t]
    BY <1>19, KeyWrite DEF RetryPending, AtKey, StepStatus
  <2>2. WorkerTypeOK'
    BY <1>1, <2>1, <1>19 DEF RetryPending, WorkerTypeOK, NextAttempt, queues,
       workerState, history, faults
  <2>3. PassTypeOK'
    BY <1>1, <1>5, <2>1, <1>19 DEF RetryPending, PassTypeOK, contextVars, PassGoto,
       PassPC, WorkerTypeOK, NextAttempt
  <2>4. TimerTypeOK'
    BY <1>1, <1>19 DEF RetryPending, TimerTypeOK, timerVars, budgetVars
  <2>5. NothingLost /\ NothingMinted
    BY <1>1, <2>1, <1>19 DEF RetryPending, NothingLost, NothingMinted, history, WorkerTypeOK
  <2>6. Placed' /\ JobsNameSteps' /\ Honest'
    <3>1. \A t \in Steps : status'[t] = "succeeded" => effects'[t] > 0
      BY <1>1, <1>2, <2>1, <1>19 DEF RetryPending, history, WorkerTypeOK
    <3>2. \A q \in Passes \ {p} : ppc'[q] = ppc[q] /\ key'[q] = key[q]
      BY <1>1, <1>19 DEF RetryPending, PassTypeOK, PassGoto
    <3>3. ppc'[p] # "store" /\ ppc[p] \in AtKey /\ key'[p] = key[p]
      BY <1>1, <1>19 DEF RetryPending, PassTypeOK, PassGoto, AtKey
    <3> QED BY <2>5, <3>1, <3>2, <3>3, <1>19, PassKeepsHonest DEF RetryPending, queues,
               workerState, contextVars, timerVars
  <2> QED BY <1>4, <2>2, <2>3, <2>4, <2>5, <2>6 DEF EngineBase
<1>20. ASSUME Rearm(p)
      PROVE  EngineBase' /\ NothingLost /\ NothingMinted
  <2>1. WorkerTypeOK'
    BY <1>1, <1>20, WakesTypes, AttemptsAssumption DEF Rearm, WorkerTypeOK, rows,
       queues, workerState, history, faults, workerVars, scheduleOrchestratorRetry
  <2>2. PassTypeOK'
    BY <1>1, <1>5, <1>20 DEF Rearm, PassTypeOK, contextVars, PassGoto, PassPC
  <2>3. TimerTypeOK'
    BY <1>1, <1>20 DEF Rearm, TimerTypeOK, timerVars, budgetVars
  <2>4. NothingLost /\ NothingMinted
    BY <1>3, <1>20 DEF Rearm, rows, history, workerVars
  <2>5. Placed' /\ JobsNameSteps' /\ Honest'
    BY <1>1, <1>2, <2>4, <1>20, PassKeepsHonest
       DEF Rearm, AtKey, PassTypeOK, PassGoto, rows, queues, workerState, history,
       faults, contextVars, timerVars, budgetVars, workerVars
  <2> QED BY <1>4, <2>1, <2>2, <2>3, <2>4, <2>5 DEF EngineBase
<1>21. ASSUME SuspendMissing(p)
      PROVE  EngineBase' /\ NothingLost /\ NothingMinted
  <2>1. WorkerTypeOK'
    BY <1>1, <1>21 DEF SuspendMissing, WorkerTypeOK, rows, queues, workerState, history,
       faults, workerVars, RunStatus
  <2>2. PassTypeOK'
    BY <1>1, <1>5, <1>21 DEF SuspendMissing, PassTypeOK, contextVars, PassGoto, PassPC
  <2>3. TimerTypeOK'
    BY <1>1, <1>21 DEF SuspendMissing, TimerTypeOK, timerVars, budgetVars
  <2>4. NothingLost /\ NothingMinted
    BY <1>3, <1>21 DEF SuspendMissing, rows, history, workerVars
  <2>5. Placed' /\ JobsNameSteps' /\ Honest'
    BY <1>1, <1>2, <2>4, <1>21, PassKeepsHonest
       DEF SuspendMissing, AtKey, PassTypeOK, PassGoto, rows, queues, workerState,
       history, faults, contextVars, timerVars, budgetVars, workerVars
  <2> QED BY <1>4, <2>1, <2>2, <2>3, <2>4, <2>5 DEF EngineBase
<1>22. ASSUME OpenSuspension(p)
      PROVE  EngineBase' /\ NothingLost /\ NothingMinted
  <2>1. PICK s \in Steps :
          /\ s = key[p] /\ Minted(s) /\ status' \in [Steps -> StepStatus]
          /\ \A t : Minted(t)' <=> Minted(t)
          /\ status'[s] = "running" /\ \A t \in Steps \ {s} : status'[t] = status[t]
    BY <1>22, KeyWrite DEF OpenSuspension, AtKey, StepStatus
  <2>2. WorkerTypeOK'
    BY <1>1, <2>1, <1>22 DEF OpenSuspension, WorkerTypeOK, NextAttempt, queues,
       workerState, history, faults
  <2>3. PassTypeOK'
    BY <1>1, <1>5, <2>1, <1>22 DEF OpenSuspension, PassTypeOK, contextVars, PassGoto, PassPC
  <2>4. TimerTypeOK'
    BY <1>1, <1>22 DEF OpenSuspension, TimerTypeOK, timerVars, budgetVars
  <2>5. NothingLost /\ NothingMinted
    BY <1>1, <2>1, <1>22 DEF OpenSuspension, NothingLost, NothingMinted, history,
       WorkerTypeOK
  <2>6. Placed' /\ JobsNameSteps' /\ Honest'
    <3>1. \A t \in Steps : status'[t] = "succeeded" => effects'[t] > 0
      BY <1>1, <1>2, <2>1, <1>22 DEF OpenSuspension, history, WorkerTypeOK
    <3>2. \A q \in Passes \ {p} : ppc'[q] = ppc[q] /\ key'[q] = key[q]
      BY <1>1, <1>22 DEF OpenSuspension, PassTypeOK, PassGoto
    <3>3. ppc'[p] # "store" /\ ppc[p] \in AtKey /\ key'[p] = key[p]
      BY <1>1, <1>22 DEF OpenSuspension, PassTypeOK, PassGoto, AtKey
    <3> QED BY <2>5, <3>1, <3>2, <3>3, <1>22, PassKeepsHonest DEF OpenSuspension,
               queues, workerState, contextVars, timerVars
  <2> QED BY <1>4, <2>2, <2>3, <2>4, <2>5, <2>6 DEF EngineBase
<1>23. ASSUME RecordSuspension(p)
      PROVE  EngineBase' /\ NothingLost /\ NothingMinted
  <2>1. PICK s \in Steps :
          /\ s = key[p] /\ Minted(s) /\ status' \in [Steps -> StepStatus]
          /\ \A t : Minted(t)' <=> Minted(t)
          /\ status'[s] = "succeeded" /\ \A t \in Steps \ {s} : status'[t] = status[t]
    BY <1>23, KeyWrite DEF RecordSuspension, AtKey, StepStatus
  <2>2. WorkerTypeOK'
    BY <1>1, <2>1, <1>23 DEF RecordSuspension, WorkerTypeOK, NextAttempt, queues,
       workerState, history, faults
  <2>3. PassTypeOK'
    BY <1>1, <1>5, <2>1, <1>23 DEF RecordSuspension, PassTypeOK, contextVars, PassGoto,
       PassPC
  <2>4. TimerTypeOK'
    BY <1>1, <1>23 DEF RecordSuspension, TimerTypeOK, timerVars, budgetVars
  <2>5. NothingLost /\ NothingMinted
    BY <1>1, <2>1, <1>23 DEF RecordSuspension, NothingLost, NothingMinted, history,
       WorkerTypeOK
  <2>6. Placed' /\ JobsNameSteps' /\ Honest'
    <3>1. \A t \in Steps : status'[t] = "succeeded" => effects'[t] > 0
      BY <1>1, <1>2, <2>1, <1>23 DEF RecordSuspension, history, WorkerTypeOK
    <3>2. \A q \in Passes \ {p} : ppc'[q] = ppc[q] /\ key'[q] = key[q]
      BY <1>1, <1>23 DEF RecordSuspension, PassTypeOK, PassGoto
    <3>3. ppc'[p] # "store" /\ ppc[p] \in AtKey /\ key'[p] = key[p]
      BY <1>1, <1>23 DEF RecordSuspension, PassTypeOK, PassGoto, AtKey
    <3> QED BY <2>5, <3>1, <3>2, <3>3, <1>23, PassKeepsHonest DEF RecordSuspension,
               queues, workerState, contextVars, timerVars
  <2> QED BY <1>4, <2>2, <2>3, <2>4, <2>5, <2>6 DEF EngineBase
<1>24. ASSUME SuspendRunItself(p)
      PROVE  EngineBase' /\ NothingLost /\ NothingMinted
  BY <1>1, <1>24, LeaveKeeps
     DEF SuspendRunItself, TimerTypeOK, WorkerTypeOK, RunStatus, rows, queues,
     workerVars, timerVars, budgetVars
<1>25. ASSUME FailRun(p)
      PROVE  EngineBase' /\ NothingLost /\ NothingMinted
  <2>1. WorkerTypeOK'
    BY <1>1, <1>25 DEF FailRun, WorkerTypeOK, rows, queues, workerState, history,
       faults, workerVars, RunStatus
  <2>2. PassTypeOK'
    BY <1>1, <1>5, <1>25 DEF FailRun, PassTypeOK, contextVars, PassGoto, PassPC
  <2>3. TimerTypeOK'
    BY <1>1, <1>25 DEF FailRun, TimerTypeOK, timerVars, budgetVars
  <2>4. NothingLost /\ NothingMinted
    BY <1>3, <1>25 DEF FailRun, rows, history, workerVars
  <2>5. Placed' /\ JobsNameSteps' /\ Honest'
    BY <1>1, <1>2, <2>4, <1>25, PassKeepsHonest
       DEF FailRun, AtKey, PassTypeOK, PassGoto, rows, queues, workerState, history,
       faults, contextVars, timerVars, budgetVars, workerVars
  <2> QED BY <1>4, <2>1, <2>2, <2>3, <2>4, <2>5 DEF EngineBase
<1>26. ASSUME FailAgain(p)
      PROVE  EngineBase' /\ NothingLost /\ NothingMinted
  BY <1>1, <1>26, NackTypes, LeaveKeeps
     DEF FailAgain, EngineBase, TimerTypeOK, WorkerTypeOK, RunStatus, timerVars, budgetVars
<1>27. ASSUME FailDispatch(p)
      PROVE  EngineBase' /\ NothingLost /\ NothingMinted
  BY <1>1, <1>27, NackTypes, LeaveKeeps
     DEF FailDispatch, EngineBase, TimerTypeOK, WorkerTypeOK, RunStatus, timerVars,
     budgetVars
<1>28. ASSUME Complete(p)
      PROVE  EngineBase' /\ NothingLost /\ NothingMinted
  BY <1>1, <1>28, LeaveKeeps
     DEF Complete, TimerTypeOK, WorkerTypeOK, RunStatus, rows, queues, workerVars,
     timerVars, budgetVars
<1>29. ASSUME Die(p)
      PROVE  EngineBase' /\ NothingLost /\ NothingMinted
  <2>1. wakes' \in [1..OrchAttempts -> Nat] /\ deaths' \in 0..MaxDeaths
    <3>1. wakes \in [1..OrchAttempts -> Nat] /\ deaths \in 0..MaxDeaths
      BY <1>1 DEF WorkerTypeOK, TimerTypeOK
    <3>2. deaths < MaxDeaths /\ deaths' = deaths + 1 /\ MaxDeaths \in Nat
      BY <1>29, EngineBudgets DEF Die
    <3>3. wakes' \in [1..OrchAttempts -> Nat]
      BY <3>1, <1>29, WakesTypes DEF Die
    <3> QED BY <3>1, <3>2, <3>3
  <2> QED BY <1>1, <2>1, <1>29, LeaveKeeps DEF Die, WorkerTypeOK, rows
<1> QED
  BY <1>7, <1>8, <1>9, <1>10, <1>11, <1>12, <1>13, <1>14, <1>15,
     <1>16, <1>17, <1>18, <1>19, <1>20, <1>21, <1>22, <1>23, <1>24,
     <1>25, <1>26, <1>27, <1>28, <1>29
  DEF PassStep

--------------------------------------------------------------------------------
\* What reaching a call does: it resolves to a row, minted if it was not there,
\* and to the state the pass goes by, which nobody made up.
LEMMA ReachFacts ==
  ASSUME EngineBase, NEW p \in Passes, Reach(p)
  PROVE  \E k \in Steps, r \in [status : StepStatus \ {"absent"}, attempt : Nat] :
           /\ k = StepKey(CallName(p), ordinals[Ctx(p)][CallName(p)])
           /\ key' = [key EXCEPT ![p] = k]
           /\ tryNo' = [tryNo EXCEPT ![p] = r.attempt]
           /\ r.status = "succeeded" =>
                status[k] = "succeeded" \/ snapshot[Ctx(p)][k].status = "succeeded"
           /\ status' \in [Steps -> StepStatus] /\ attempt' \in [Steps -> Nat]
           /\ status'[k] # "absent"
           /\ \A t \in Steps : \/ status'[t] = status[t]
                               \/ t = k /\ status[t] = "absent" /\ status'[t] = "pending"
           /\ \/ snapshot' = snapshot
              \/ snapshot' = [snapshot EXCEPT ![Ctx(p)][k] = r]
           /\ Resolve(p, Kind[CallName(p)], r)
<1> DEFINE c == Ctx(p)
           n == CallName(p)
           k == StepKey(n, ordinals[c][n])
           shared == snapped[c] /\ Kind[n] # "suspend"
           cached == shared /\ snapshot[c][k].status # "absent"
           fresh == ~cached /\ status[k] = "absent"
           r == IF cached THEN snapshot[c][k]
                ELSE IF fresh THEN [status |-> "pending", attempt |-> 1] ELSE Row(k)
<1>1. /\ k \in Steps
      /\ status' = IF fresh THEN [status EXCEPT ![k] = "pending"] ELSE status
      /\ attempt' = IF fresh THEN [attempt EXCEPT ![k] = 1] ELSE attempt
      /\ snapshot' = IF shared THEN [snapshot EXCEPT ![c][k] = r] ELSE snapshot
      /\ key' = [key EXCEPT ![p] = k]
      /\ tryNo' = [tryNo EXCEPT ![p] = r.attempt]
      /\ Resolve(p, Kind[n], r)
  BY DEF Reach
<1>2. c \in Processes
  BY ProcessAssumption DEF Ctx
<1>3. snapshot[c][k] \in [status : StepStatus, attempt : Nat]
  BY <1>1, <1>2, TypeParts DEF EngineBase, PassTypeOK
<1>4. status[k] \in StepStatus /\ attempt[k] \in Nat
  BY <1>1, TypeParts DEF EngineBase, WorkerTypeOK
<1>5. r \in [status : StepStatus \ {"absent"}, attempt : Nat]
  BY <1>3, <1>4 DEF StepStatus, Row
<1>6. r.status = "succeeded" => status[k] = "succeeded" \/ snapshot[c][k].status = "succeeded"
  BY DEF Row
<1>7. /\ status' \in [Steps -> StepStatus] /\ attempt' \in [Steps -> Nat]
      /\ \A t \in Steps : \/ status'[t] = status[t]
                          \/ t = k /\ status[t] = "absent" /\ status'[t] = "pending"
  BY <1>1, TypeParts DEF EngineBase, WorkerTypeOK, StepStatus
<1>8. status'[k] # "absent"
  <2>1. CASE cached
    BY <1>1, <1>2, <2>1 DEF EngineBase, Honest, HonestContexts, Minted
  <2>2. CASE ~cached
    BY <1>1, <2>2, TypeParts DEF EngineBase, WorkerTypeOK
  <2> QED BY <2>1, <2>2
<1> QED BY <1>1, <1>5, <1>6, <1>7, <1>8

\* Reaching a call loses nothing and leaves the run honest.
LEMMA ReachKeeps ==
  ASSUME EngineBase, NEW p \in Passes, Reach(p)
  PROVE  EngineBase' /\ NothingLost
<1>1. WorkerTypeOK /\ PassTypeOK /\ TimerTypeOK
  BY TypeParts DEF EngineBase
<1>2. PICK k \in Steps, r \in [status : StepStatus \ {"absent"}, attempt : Nat] :
        /\ key' = [key EXCEPT ![p] = k]
        /\ tryNo' = [tryNo EXCEPT ![p] = r.attempt]
        /\ r.status = "succeeded" =>
             status[k] = "succeeded" \/ snapshot[Ctx(p)][k].status = "succeeded"
        /\ status' \in [Steps -> StepStatus] /\ attempt' \in [Steps -> Nat]
        /\ status'[k] # "absent"
        /\ \A t \in Steps : \/ status'[t] = status[t]
                            \/ t = k /\ status[t] = "absent" /\ status'[t] = "pending"
        /\ \/ snapshot' = snapshot
           \/ snapshot' = [snapshot EXCEPT ![Ctx(p)][k] = r]
        /\ Resolve(p, Kind[CallName(p)], r)
  BY ReachFacts
<1>3. Ctx(p) \in Processes
  BY ProcessAssumption DEF Ctx
<1>4. /\ UNCHANGED <<runStatus, queues, workerState, history, faults, snapped,
                      cachedRun, left, timerVars, budgetVars>>
      /\ ordinals' = [ordinals EXCEPT ![Ctx(p)][CallName(p)] = @ + 1]
  BY DEF Reach
<1>5. /\ ppc' \in [Passes -> PassPC] /\ pos' \in [Passes -> Calls]
      /\ comp' \in [Passes -> BOOLEAN] /\ waits' \in [Passes -> BOOLEAN]
      /\ ppc'[p] # "store" /\ \A q \in Passes \ {p} : ppc'[q] = ppc[q]
  <2>1. CASE Returns(p) \/ Parks(p) \/ Fails(p)
    BY <1>1, <2>1, MoveTypes
  <2>2. ASSUME NEW l \in {"open", "record", "dispatch", "begin"}, PassGoto(p, l),
               UNCHANGED <<pos, comp, waits>>
        PROVE  /\ ppc' \in [Passes -> PassPC] /\ pos' \in [Passes -> Calls]
               /\ comp' \in [Passes -> BOOLEAN] /\ waits' \in [Passes -> BOOLEAN]
               /\ ppc'[p] # "store" /\ \A q \in Passes \ {p} : ppc'[q] = ppc[q]
    BY <1>1, <2>2 DEF PassTypeOK, PassGoto, PassPC
  <2>3. \/ Returns(p) \/ Parks(p) \/ Fails(p)
        \/ /\ \E l \in {"open", "record", "dispatch", "begin"} : PassGoto(p, l)
           /\ UNCHANGED <<pos, comp, waits>>
    BY <1>2, ResolveMoves
  <2> QED BY <2>1, <2>2, <2>3
<1>6. NothingLost
  BY <1>2, <1>4 DEF NothingLost, Minted, history
<1>7. \A s \in Steps : status[s] = "succeeded" => effects[s] > 0
  BY DEF EngineBase, Honest, RowsEarned
<1>8. TypeOK'
  <2>1. WorkerTypeOK'
    BY <1>1, <1>2, <1>4 DEF WorkerTypeOK, queues, workerState, history, faults
  <2>2. ordinals' \in [Processes -> [Names -> Nat]]
    <3>1. ordinals[Ctx(p)] \in [Names -> Nat]
      BY <1>1, <1>3 DEF PassTypeOK
    <3>2. [ordinals[Ctx(p)] EXCEPT ![CallName(p)] = @ + 1] \in [Names -> Nat]
      <4>1. CASE CallName(p) \in Names
        <5>1. ordinals[Ctx(p)][CallName(p)] + 1 \in Nat
          BY <3>1, <4>1
        <5> QED BY <3>1, <4>1, <5>1
      <4>2. CASE CallName(p) \notin Names
        BY <3>1, <4>2
      <4> QED BY <4>1, <4>2
    <3> QED BY <1>1, <1>3, <1>4, <3>2 DEF PassTypeOK
  <2>3. snapshot' \in [Processes -> [Steps -> [status : StepStatus, attempt : Nat]]]
    <3>1. CASE snapshot' = snapshot
      BY <1>1, <3>1 DEF PassTypeOK
    <3>2. CASE snapshot' = [snapshot EXCEPT ![Ctx(p)][k] = r]
      <4>1. r \in [status : StepStatus, attempt : Nat]
        OBVIOUS
      <4>2. [snapshot[Ctx(p)] EXCEPT ![k] = r] \in [Steps -> [status : StepStatus, attempt : Nat]]
        BY <1>1, <1>3, <4>1 DEF PassTypeOK
      <4> QED BY <1>1, <1>3, <3>2, <4>2 DEF PassTypeOK
    <3> QED BY <1>2, <3>1, <3>2
  <2>4. tryNo' \in [Passes -> Nat] /\ key' \in [Passes -> Steps \cup {None}]
    BY <1>1, <1>2 DEF PassTypeOK
  <2>5. PassTypeOK' /\ TimerTypeOK'
    BY <1>1, <1>4, <1>5, <2>2, <2>3, <2>4 DEF PassTypeOK, TimerTypeOK, timerVars, budgetVars
  <2> QED BY <2>1, <2>5 DEF TypeOK, PassTypeOK, TimerTypeOK, Calls
<1>9. Placed' /\ JobsNameSteps' /\ RowsKnown' /\ RowsEarned'
  <2>1. \A t \in Steps : status'[t] = "succeeded" => effects'[t] > 0
    BY <1>2, <1>4, <1>7 DEF history
  <2> QED BY <1>4, <1>6, <2>1, WorkersWait DEF queues, workerState
<1>10. HonestContexts'
  <2>1. r.status = "succeeded" => effects'[k] > 0
    BY <1>2, <1>3, <1>4, <1>7 DEF EngineBase, Honest, HonestContexts, history
  <2>2. Minted(k)'
    BY <1>2 DEF Minted
  <2>3. ASSUME NEW c \in Processes, NEW s \in Steps
        PROVE  \/ snapshot'[c][s] = snapshot[c][s]
               \/ s = k /\ snapshot'[c][s] = r
    <3>1. snapshot \in [Processes -> [Steps -> [status : StepStatus, attempt : Nat]]]
      BY <1>1 DEF PassTypeOK
    <3>2. CASE snapshot' = [snapshot EXCEPT ![Ctx(p)][k] = r]
      BY <1>3, <3>1, <3>2
    <3> QED BY <1>2, <3>2
  <2>4. ASSUME NEW c \in Processes, NEW s \in Steps
        PROVE  /\ snapshot[c][s].status # "absent" => Minted(s)'
               /\ snapshot[c][s].status = "succeeded" => effects'[s] > 0
    BY <1>6 DEF EngineBase, Honest, HonestContexts, NothingLost
  <2> QED BY <2>1, <2>2, <2>3, <2>4 DEF HonestContexts
<1>11. \A q \in Passes : HonestPass(q)'
  <2>1. HonestPass(p)'
    BY <1>1, <1>2, <1>5 DEF HonestPass, Minted, PassTypeOK
  <2>2. \A q \in Passes \ {p} : ppc'[q] = ppc[q] /\ key'[q] = key[q]
    BY <1>1, <1>2, <1>5 DEF PassTypeOK
  <2> QED BY <1>6, <2>1, <2>2, PassesWait
<1>12. HonestTimers'
  BY <1>4, <1>6, TimersWait DEF timerVars
<1> QED BY <1>6, <1>8, <1>9, <1>10, <1>11, <1>12 DEF EngineBase, Honest

--------------------------------------------------------------------------------
\* The engine waits while the workers, the queue or a child run move.
LEMMA EngineWaits ==
  ASSUME EngineBase, NothingLost, UNCHANGED engineVars
  PROVE  /\ PassTypeOK' /\ TimerTypeOK' /\ HonestContexts' /\ HonestTimers'
         /\ \A p \in Passes : HonestPass(p)'
<1>1. PassTypeOK' /\ TimerTypeOK'
  BY TypeParts DEF EngineBase, PassTypeOK, TimerTypeOK, engineVars, contextVars, passVars,
                   timerVars, budgetVars
<1>2. HonestContexts' /\ HonestTimers'
  BY ContextsWait, TimersWait DEF engineVars, contextVars, timerVars
<1> QED BY <1>1, <1>2, PassesWait DEF engineVars, passVars

\* What the workers and the queue of steps do.
LEMMA WorkersKeepEngine ==
  ASSUME EngineBase, WorkerNext, UNCHANGED engineVars
  PROVE  EngineBase' /\ NothingLost /\ NothingMinted
<1>1. WorkerBase /\ RowsKnown /\ RowsEarned
  BY TypeParts DEF EngineBase, Honest, WorkerBase
<1>2. WorkerBase' /\ RowsKnown' /\ RowsEarned' /\ NothingLost /\ NothingMinted
  BY <1>1, WorkersStep, WorkersKeep
<1> QED BY <1>2, EngineWaits
        DEF EngineBase, Honest, WorkerBase, TypeOK, PassTypeOK, TimerTypeOK, Calls

\* What timers, sweeps and users do.
LEMMA TimersKeep ==
  ASSUME EngineBase, (\E s \in Steps : SleepDone(s) \/ SleepResume(s)) \/ Sweep \/ UserResume
  PROVE  EngineBase' /\ NothingLost /\ NothingMinted
<1>1. WorkerTypeOK /\ PassTypeOK /\ TimerTypeOK
  BY TypeParts DEF EngineBase
<1>2. \A s \in Steps : status[s] = "succeeded" => effects[s] > 0
  BY DEF EngineBase, Honest, RowsEarned
<1>3. ASSUME NEW s \in Steps, SleepDone(s)
      PROVE  EngineBase' /\ NothingLost /\ NothingMinted
  <2>1. Minted(s) /\ SetStatus(s, "succeeded")
    BY <1>3 DEF SleepDone, EngineBase, Honest, HonestTimers
  <2>2. /\ \A t : Minted(t)' <=> Minted(t)
        /\ status'[s] = "succeeded" /\ \A t \in Steps \ {s} : status'[t] = status[t]
    BY <1>1, <2>1, RowWrite
  <2>3. /\ effects' \in [Steps -> Nat] /\ effects'[s] > 0
        /\ \A t \in Steps \ {s} : effects'[t] = effects[t]
    <3>1. effects \in [Steps -> Nat] /\ effects' = [effects EXCEPT ![s] = effects[s] + 1]
      BY <1>1, <1>3 DEF SleepDone, WorkerTypeOK
    <3>2. effects[s] + 1 \in Nat /\ effects[s] + 1 > 0
      BY <3>1
    <3> QED BY <3>1, <3>2
  <2>4. NothingLost /\ NothingMinted
    BY <2>2, <2>3 DEF NothingLost, NothingMinted
  <2>5. \A t \in Steps : status'[t] = "succeeded" => effects'[t] > 0
    BY <1>2, <2>2, <2>3
  <2>6. WorkerTypeOK'
    BY <1>1, <1>3, <2>3
       DEF SleepDone, SetStatus, WorkerTypeOK, StepStatus, queues, workerState, faults
  <2>7. TimerTypeOK' /\ \A t \in Steps : armed'[t] > 0 => armed[t] > 0
    <3>1. /\ armed \in [Steps -> Nat] /\ armed' = [armed EXCEPT ![s] = armed[s] - 1]
          /\ fired \in [Steps -> Nat] /\ fired' = [fired EXCEPT ![s] = fired[s] + 1]
      BY <1>1, <1>3 DEF SleepDone, TimerTypeOK
    <3>2. armed[s] - 1 \in Nat /\ fired[s] + 1 \in Nat /\ armed[s] > 0
      BY <1>3, <3>1 DEF SleepDone
    <3>3. armed' \in [Steps -> Nat] /\ fired' \in [Steps -> Nat]
      BY <3>1, <3>2
    <3> QED BY <1>1, <1>3, <3>1, <3>2, <3>3 DEF SleepDone, TimerTypeOK, budgetVars
  <2>8. HonestTimers'
    BY <2>4, <2>7 DEF EngineBase, Honest, HonestTimers, NothingLost
  <2>9. Placed' /\ JobsNameSteps' /\ RowsKnown' /\ RowsEarned'
    BY <1>3, <2>4, <2>5, WorkersWait DEF SleepDone, queues, workerState
  <2>10. PassTypeOK'
    BY <1>1, <1>3 DEF SleepDone, PassTypeOK, contextVars, passVars
  <2>11. HonestContexts' /\ \A p \in Passes : HonestPass(p)'
    BY <1>3, <2>4, ContextsWait, PassesWait DEF SleepDone, contextVars, passVars
  <2> QED BY <2>4, <2>6, <2>7, <2>8, <2>9, <2>10, <2>11
          DEF EngineBase, Honest, TypeOK, PassTypeOK, TimerTypeOK, Calls
<1>4. ASSUME UNCHANGED <<rows, job, workerState, history, faults, contextVars, passVars, armed>>,
             resumeWorkflow, TimerTypeOK'
      PROVE  EngineBase' /\ NothingLost /\ NothingMinted
  <2>1. NothingLost /\ NothingMinted
    BY <1>4 DEF NothingLost, NothingMinted, Minted, rows, history
  <2>2. wakes' \in [1..OrchAttempts -> Nat]
    BY <1>1, <1>4, WakesTypes DEF resumeWorkflow, WorkerTypeOK
  <2>3. WorkerTypeOK' /\ PassTypeOK'
    BY <1>1, <1>4, <2>2 DEF WorkerTypeOK, PassTypeOK, contextVars, passVars,
                            rows, workerState, history, faults
  <2>4. Placed' /\ JobsNameSteps' /\ RowsKnown' /\ RowsEarned'
    BY <1>2, <1>4, <2>1, WorkersWait DEF workerState, rows, history
  <2>5. HonestContexts' /\ HonestTimers' /\ \A p \in Passes : HonestPass(p)'
    BY <1>4, <2>1, ContextsWait, TimersWait, PassesWait DEF contextVars, passVars
  <2> QED BY <1>4, <2>1, <2>3, <2>4, <2>5
          DEF EngineBase, Honest, TypeOK, PassTypeOK, TimerTypeOK, Calls
<1>5. ASSUME NEW s \in Steps, SleepResume(s)
      PROVE  EngineBase' /\ NothingLost /\ NothingMinted
  <2>1. fired' \in [Steps -> Nat]
    <3>1. fired \in [Steps -> Nat] /\ fired' = [fired EXCEPT ![s] = fired[s] - 1] /\ fired[s] > 0
      BY <1>1, <1>5 DEF SleepResume, TimerTypeOK
    <3>2. fired[s] - 1 \in Nat
      BY <3>1
    <3> QED BY <3>1, <3>2
  <2> QED BY <1>1, <1>4, <1>5, <2>1 DEF SleepResume, TimerTypeOK, budgetVars
<1>6. ASSUME Sweep \/ UserResume
      PROVE  EngineBase' /\ NothingLost /\ NothingMinted
  <2>1. /\ \/ sweeps < MaxSweeps /\ sweeps' = sweeps + 1 /\ resumes' = resumes
           \/ resumes < MaxResumes /\ resumes' = resumes + 1 /\ sweeps' = sweeps
        /\ UNCHANGED <<armed, fired, deaths, contextShared>>
    BY <1>6 DEF Sweep, UserResume, timerVars
  <2>2. sweeps' \in 0..MaxSweeps /\ resumes' \in 0..MaxResumes
    BY <1>1, <2>1, EngineBudgets DEF TimerTypeOK
  <2>3. TimerTypeOK'
    BY <1>1, <2>1, <2>2 DEF TimerTypeOK
  <2> QED BY <1>4, <1>6, <2>3 DEF Sweep, UserResume, timerVars
<1> QED BY <1>3, <1>5, <1>6

\* Every step of the run leaves it honest and loses nothing, and only the
\* reaching of a call mints a row.
LEMMA EngineKeeps ==
  ASSUME EngineBase, [Next]_vars
  PROVE  /\ EngineBase' /\ NothingLost
         /\ NothingMinted \/ \E p \in Passes : Reach(p)
<1>1. ASSUME NEW p \in Passes, BeginReplay(p) \/ PassStep(p) \/ Die(p), ~Reach(p)
      PROVE  EngineBase' /\ NothingLost /\ NothingMinted
  BY <1>1, PassKeeps
<1>2. ASSUME NEW p \in Passes, Reach(p)
      PROVE  EngineBase' /\ NothingLost
  BY <1>2, ReachKeeps
<1>3. ASSUME NEW w \in Workers, WorkerStep(w) \/ (Crash(w) /\ UNCHANGED engineVars)
      PROVE  EngineBase' /\ NothingLost /\ NothingMinted
  BY <1>3, WorkersKeepEngine DEF WorkerStep, WorkerNext
<1>4. ASSUME NEW j \in Jobs,
             (\E w \in Workers : DeliverStep(w, j)) \/ (Redeliver(j) /\ UNCHANGED engineVars)
      PROVE  EngineBase' /\ NothingLost /\ NothingMinted
  BY <1>4, WorkersKeepEngine DEF DeliverStep, WorkerNext
<1>5. ASSUME (\E s \in Steps : SleepDone(s) \/ SleepResume(s)) \/ Sweep \/ UserResume
      PROVE  EngineBase' /\ NothingLost /\ NothingMinted
  BY <1>5, TimersKeep
<1>6. ASSUME UNCHANGED vars
      PROVE  EngineBase' /\ NothingLost /\ NothingMinted
  <2>1. NothingLost /\ NothingMinted
    BY <1>6 DEF vars, workerVars, rows, history, NothingLost, NothingMinted, Minted
  <2>2. UNCHANGED <<workerVars, engineVars>>
    BY <1>6 DEF vars, engineVars
  <2>3. \A s \in Steps : status'[s] = "succeeded" => effects'[s] > 0
    BY <2>2 DEF EngineBase, Honest, RowsEarned, workerVars, rows, history
  <2>4. Placed' /\ JobsNameSteps' /\ RowsKnown' /\ RowsEarned'
    BY <2>1, <2>2, <2>3, WorkersWait DEF workerVars, queues, workerState
  <2>5. WorkerTypeOK'
    BY <2>2, TypeParts DEF EngineBase, WorkerTypeOK, workerVars, rows, queues, workerState,
                           history, faults
  <2> QED BY <2>1, <2>2, <2>4, <2>5, EngineWaits
          DEF EngineBase, Honest, TypeOK, PassTypeOK, TimerTypeOK, Calls
<1> QED BY <1>1, <1>2, <1>3, <1>4, <1>5, <1>6 DEF Next

LEMMA EngineStarts ==
  ASSUME Init
  PROVE  EngineBase
<1>1. FreeJob \in Job /\ 1 \in Calls /\ NoRows \in [Steps -> [status : StepStatus, attempt : Nat]]
  BY JobTypes, ProgramFacts DEF Calls, NoRows, StepStatus
<1>2. wakes \in [1..OrchAttempts -> Nat]
  BY AttemptsAssumption DEF Init
<1>3. guarded \in BOOLEAN
  BY SwitchAssumption DEF Init, WorkersInit
<1>4. WorkerTypeOK
  BY <1>1, <1>2, <1>3 DEF Init, WorkersInit, WorkerTypeOK, RunStatus, StepStatus, WorkerPC
<1>5. [n \in Names |-> 0] \in [Names -> Nat]
  OBVIOUS
<1>6. PassTypeOK
  BY <1>1, <1>5, AttemptsAssumption DEF Init, PassTypeOK, PassPC
<1>7. TimerTypeOK
  <2>1. 0 \in 0..MaxSweeps /\ 0 \in 0..MaxResumes /\ 0 \in 0..MaxDeaths
    BY EngineBudgets
  <2>2. armed \in [Steps -> Nat] /\ fired \in [Steps -> Nat]
    BY DEF Init
  <2> QED BY <2>1, <2>2 DEF Init, TimerTypeOK
<1>8. Placed /\ JobsNameSteps /\ RowsKnown /\ RowsEarned
  BY DEF Init, WorkersInit, Placed, JobsNameSteps, NamesStep, RowsKnown, HasRow, RowsEarned,
         FreeJob, JobRecord
<1>9. HonestContexts /\ HonestTimers /\ \A p \in Passes : HonestPass(p)
  BY DEF Init, HonestContexts, HonestTimers, HonestPass, NoRows, AtKey
<1> QED BY <1>4, <1>6, <1>7, <1>8, <1>9, TypeParts DEF EngineBase, Honest

\* The run is always honest: every job, timer, snapshot and pass works on a row
\* that exists, and a step is recorded as succeeded only once its effects are
\* done. It holds for every store, also where passes share a run context.
THEOREM RunIsHonest == Spec => [](TypeOK /\ Honest)
<1>1. Init => EngineBase
  BY EngineStarts
<1>2. EngineBase /\ [Next]_vars => EngineBase'
  BY EngineKeeps
<1>3. EngineBase => TypeOK /\ Honest
  BY DEF EngineBase
<1> QED BY <1>1, <1>2, <1>3, PTL DEF Spec

--------------------------------------------------------------------------------
\* How often the first m calls of the body reach the name n.
Count(n, m) == Cardinality({j \in 1..m : Program[j] = n})

\* The ordinals of a pass's context count its first m calls.
Counted(p, m) == \A n \in Names : ordinals[Ctx(p)][n] = Count(n, m)

\* What the pass has behind it is done: every call before its own, or, once a
\* call of its Promise.all has parked, every call before that group.
Behind(p) == \A i \in 1..pos[p] - 1 : ~waits[p] \/ Before(i, pos[p]) => effects[KeyOf(i)] > 0

Fresh(p) == pos[p] = 1 /\ ~comp[p] /\ ~waits[p]

\* The pass is where its context says it is.
InPlace(p) ==
  /\ ppc[p] \in {"idle", "read", "check", "lock"} => Fresh(p)
  /\ ppc[p] \in {"read", "check", "lock"} => Counted(p, 0)
  /\ ppc[p] = "call" => Behind(p) /\ Counted(p, IF comp[p] THEN pos[p] ELSE pos[p] - 1)
  /\ ppc[p] \in AtKey =>
       /\ Behind(p)
       /\ comp[p] => key[p] = StepKey(OnError[Program[pos[p]]], 0)
       /\ ~comp[p] => key[p] = KeyOf(pos[p]) /\ Counted(p, pos[p])
  /\ ppc[p] \in AtKey \cup {"call"} /\ comp[p] => OnError[Program[pos[p]]] # None
  /\ ppc[p] = "complete" => \A i \in Calls : effects[KeyOf(i)] > 0

\* No other pass of the run is in the process of this one.
Alone(p) == \A q \in Passes \ {p} : Ctx(q) = Ctx(p) => ppc[q] = "idle"
Apart == \A p \in Passes : ppc[p] # "idle" => Alone(p)

\* Until a replay has begun in a process another one was in: nothing in the code
\* keeps it out, and EngineSharedKeys shows what the two do to each other.
InOrder == /\ Apart /\ \A p \in Passes : InPlace(p)
           /\ StepsRunInOrder /\ CompletedMeansDone /\ ReplaysAgreeOnKeys
EngineInv == EngineBase /\ (~contextShared => InOrder)

--------------------------------------------------------------------------------
\* Counting one call more.
LEMMA CountNext ==
  /\ \A n : Count(n, 0) = 0
  /\ \A n : \A m \in Nat : Count(n, m) \in Nat
  /\ \A n : \A m \in Nat : Count(n, m + 1) = IF Program[m + 1] = n THEN Count(n, m) + 1 ELSE Count(n, m)
<1>1. ASSUME NEW n PROVE Count(n, 0) = 0
  <2>1. {j \in 1..0 : Program[j] = n} = {}
    OBVIOUS
  <2> QED BY <2>1, FS_EmptySet DEF Count
<1>2. ASSUME NEW n, NEW m \in Nat
      PROVE  IsFiniteSet({j \in 1..m : Program[j] = n}) /\ Count(n, m) \in Nat
  <2>1. IsFiniteSet(1..m)
    BY FS_Interval
  <2>2. IsFiniteSet({j \in 1..m : Program[j] = n})
    BY <2>1, FS_Subset
  <2> QED BY <2>2, FS_CardinalityType DEF Count
<1>3. ASSUME NEW n, NEW m \in Nat
      PROVE  Count(n, m + 1) = IF Program[m + 1] = n THEN Count(n, m) + 1 ELSE Count(n, m)
  <2> DEFINE S(k) == {j \in 1..k : Program[j] = n}
  <2>1. CASE Program[m + 1] = n
    <3>1. S(m + 1) = S(m) \cup {m + 1} /\ m + 1 \notin S(m)
      BY <2>1
    <3>2. IsFiniteSet(S(m))
      BY <1>2
    <3> HIDE DEF S
    <3>3. Cardinality(S(m) \cup {m + 1}) = Cardinality(S(m)) + 1
      BY <3>1, <3>2, FS_AddElement
    <3> USE DEF S
    <3> QED BY <2>1, <3>1, <3>3 DEF Count
  <2>2. CASE Program[m + 1] # n
    <3>1. S(m + 1) = S(m)
      BY <2>2
    <3> QED BY <2>2, <3>1 DEF Count
  <2> QED BY <2>1, <2>2
<1> QED BY <1>1, <1>2, <1>3

LEMMA KeyOfCount ==
  \A i \in Calls : KeyOf(i) = <<Program[i], Count(Program[i], i - 1)>>
BY DEF KeyOf, StepKey, Count

\* An earlier call of the same name has a smaller ordinal.
LEMMA CountGrows ==
  ASSUME NEW i \in Calls, NEW j \in Calls, i < j, Program[i] = Program[j]
  PROVE  Count(Program[i], i - 1) < Count(Program[i], j - 1)
<1> DEFINE n == Program[i]
           S(k) == {l \in 1..k : Program[l] = n}
<1>1. i \in Nat /\ j \in Nat /\ i - 1 \in Nat /\ j - 1 \in Nat /\ (i - 1) + 1 = i
  BY ProgramFacts DEF Calls
<1>2. Count(n, i) = Count(n, i - 1) + 1
  BY <1>1, CountNext
<1>3. S(i) \subseteq S(j - 1)
  BY <1>1
<1>4. IsFiniteSet(S(j - 1))
  <2>1. IsFiniteSet(1..j - 1)
    BY <1>1, FS_Interval
  <2> QED BY <2>1, FS_Subset
<1>5. Cardinality(S(i)) <= Cardinality(S(j - 1))
  BY <1>3, <1>4, FS_Subset
<1>6. Count(n, i - 1) \in Nat /\ Count(n, i) \in Nat /\ Count(n, j - 1) \in Nat
  BY <1>1, CountNext
<1>7. Count(n, i) <= Count(n, j - 1)
  BY <1>5 DEF Count
<1> QED BY <1>2, <1>6, <1>7

\* No two calls have the same key, and none has that of a compensation.
LEMMA KeysDiffer ==
  /\ \A i, j \in Calls : KeyOf(i) = KeyOf(j) => i = j
  /\ \A i \in Calls, n \in Names : KeyOf(i) # StepKey(OnError[n], 0)
<1>1. ASSUME NEW i \in Calls, NEW j \in Calls, KeyOf(i) = KeyOf(j), i < j PROVE FALSE
  <2>1. Program[i] = Program[j] /\ Count(Program[i], i - 1) = Count(Program[i], j - 1)
    BY <1>1, KeyOfCount
  <2>2. Count(Program[i], i - 1) < Count(Program[i], j - 1)
    BY <1>1, <2>1, CountGrows
  <2>3. i - 1 \in Nat /\ j - 1 \in Nat
    BY ProgramFacts DEF Calls
  <2>4. Count(Program[i], i - 1) \in Nat
    BY <2>3, CountNext
  <2> QED BY <2>1, <2>2, <2>4
<1>2. ASSUME NEW i \in Calls, NEW j \in Calls, KeyOf(i) = KeyOf(j) PROVE i = j
  BY <1>1, <1>2, ProgramFacts DEF Calls
<1>3. ASSUME NEW i \in Calls, NEW n \in Names PROVE KeyOf(i) # StepKey(OnError[n], 0)
  BY ProgramAssumption DEF KeyOf, StepKey
<1> QED BY <1>2, <1>3

\* A call awaited before the call after k, k being in a group, is awaited
\* before k.
LEMMA BeforeNext ==
  ASSUME NEW k \in Together, NEW i \in Calls, Before(i, k + 1)
  PROVE  i < k /\ Before(i, k)
<1>1. k \in Nat /\ i \in Nat /\ i <= k
  BY ProgramFacts DEF Before, Calls
<1>2. (k + 1) - 1 = k
  BY <1>1
<1>3. ~(i..k \subseteq Together)
  BY <1>2 DEF Before
<1>4. i # k
  BY <1>1, <1>3
<1>5. i..k = (i..k - 1) \cup {k}
  BY <1>1, <1>4
<1> QED BY <1>1, <1>3, <1>4, <1>5 DEF Before

--------------------------------------------------------------------------------
\* What is done stays done.
LEMMA DoneStays ==
  ASSUME NothingLost
  PROVE  \A i \in Calls : effects[KeyOf(i)] > 0 => effects'[KeyOf(i)] > 0
BY ProgramFacts DEF NothingLost

\* A pass that stands still stays in place while nobody touches its context.
LEMMA PassStaysInPlace ==
  ASSUME PassTypeOK, NothingLost, NEW q \in Passes, InPlace(q),
         ppc'[q] = ppc[q], pos'[q] = pos[q], comp'[q] = comp[q], waits'[q] = waits[q],
         key'[q] = key[q], ppc[q] # "idle" => ordinals'[Ctx(q)] = ordinals[Ctx(q)]
  PROVE  InPlace(q)'
<1>1. pos[q] \in Calls /\ \A i \in 1..pos[q] - 1 : i \in Calls
  BY ProgramFacts DEF PassTypeOK, Calls
<1>2. Behind(q) => Behind(q)'
  BY <1>1, DoneStays DEF Behind
<1>3. Fresh(q) => Fresh(q)'
  BY DEF Fresh
<1>4. CASE ppc[q] = "idle"
  BY <1>3, <1>4 DEF InPlace, AtKey
<1>5. CASE ppc[q] # "idle"
  <2>1. \A m : Counted(q, m) => \A n \in Names : ordinals'[Ctx(q)][n] = Count(n, m)
    BY <1>5 DEF Counted
  <2>2. /\ Counted(q, 0) => Counted(q, 0)'
        /\ Counted(q, pos[q]) => Counted(q, pos[q])'
        /\ Counted(q, IF comp[q] THEN pos[q] ELSE pos[q] - 1)
             => Counted(q, IF comp[q] THEN pos[q] ELSE pos[q] - 1)'
    BY <2>1 DEF Counted
  <2> QED BY <1>2, <1>3, <2>2, DoneStays DEF InPlace
<1> QED BY <1>4, <1>5

\* A pass that leaves, or gives up, is in place.
LEMMA OutOfBodyInPlace ==
  ASSUME NEW p \in Passes,
         \/ ppc'[p] \in {"rearm", "missing", "failRun", "failAgain", "dispatchFailed", "park", "suspend"}
         \/ ppc'[p] = "idle" /\ pos'[p] = 1 /\ ~comp'[p] /\ ~waits'[p]
  PROVE  InPlace(p)'
BY DEF InPlace, Fresh, AtKey

\* A pass that goes on working on its key is in place.
LEMMA AtKeyInPlace ==
  ASSUME PassTypeOK, NothingLost, NEW p \in Passes, InPlace(p), ppc[p] \in AtKey, ppc'[p] \in AtKey,
         pos'[p] = pos[p], comp'[p] = comp[p], waits'[p] = waits[p], key'[p] = key[p],
         ordinals'[Ctx(p)] = ordinals[Ctx(p)]
  PROVE  InPlace(p)'
<1>1. pos[p] \in Calls /\ \A i \in 1..pos[p] - 1 : i \in Calls
  BY ProgramFacts DEF PassTypeOK, Calls
<1>2. Behind(p)'
  BY <1>1, DoneStays DEF Behind, InPlace
<1>3. ~comp[p] => Counted(p, pos[p])'
  BY DEF Counted, InPlace
<1> QED BY <1>2, <1>3 DEF InPlace, AtKey

\* A call that ends leaves the pass in place: it returned, its own effects
\* being done, or it parked, or it failed.
LEMMA MoveInPlace ==
  ASSUME PassTypeOK, NothingLost, NEW p \in Passes, Behind(p),
         comp[p] => OnError[Program[pos[p]]] # None,
         ~comp[p] => \A n \in Names : ordinals'[Ctx(p)][n] = Count(n, pos[p]),
         \/ Returns(p) /\ (~comp[p] => effects'[KeyOf(pos[p])] > 0)
         \/ Parks(p) \/ Fails(p)
  PROVE  InPlace(p)'
<1>1. pos[p] \in Calls /\ pos[p] \in Nat /\ \A i \in 1..pos[p] - 1 : i \in Calls
  BY ProgramFacts DEF PassTypeOK, Calls
<1>2. CASE ppc'[p] \in {"park", "failRun"}
  BY <1>2, OutOfBodyInPlace
<1>3. ASSUME pos'[p] = pos[p] + 1, ~comp[p], ~comp'[p], ppc'[p] = "call",
             \A i \in 1..pos[p] : ~waits'[p] \/ Before(i, pos[p] + 1) => effects'[KeyOf(i)] > 0
      PROVE  InPlace(p)'
  <2>1. pos'[p] - 1 = pos[p]
    BY <1>1, <1>3
  <2>2. Behind(p)'
    BY <1>3, <2>1 DEF Behind
  <2>3. Counted(p, IF comp[p] THEN pos[p] ELSE pos[p] - 1)'
    BY <1>3, <2>1 DEF Counted
  <2> QED BY <1>3, <2>2, <2>3 DEF InPlace, AtKey
<1>4. ASSUME Parks(p), pos[p] \in Together
      PROVE  InPlace(p)'
  <2>1. ~comp[p]
    BY <1>4, ProgramFacts
  <2>2. /\ ppc'[p] = "call" /\ pos'[p] = pos[p] + 1 /\ waits'[p] = TRUE
        /\ comp'[p] = comp[p]
    BY <1>4 DEF Parks, PassGoto, PassTypeOK
  <2>3. ASSUME NEW i \in 1..pos[p], Before(i, pos[p] + 1) PROVE effects'[KeyOf(i)] > 0
    <3>1. i \in Calls
      BY <1>1 DEF Calls
    <3>2. i < pos[p] /\ Before(i, pos[p])
      BY <1>4, <2>3, <3>1, BeforeNext
    <3> QED BY <1>1, <3>1, <3>2, DoneStays DEF Behind
  <2> QED BY <1>3, <2>1, <2>2, <2>3
<1>5. ASSUME Parks(p), pos[p] \notin Together
      PROVE  InPlace(p)'
  BY <1>2, <1>5 DEF Parks, PassGoto, PassTypeOK
<1>6. ASSUME Fails(p), ~waits[p]
      PROVE  InPlace(p)'
  <2>1. CASE ~comp[p] /\ OnError[Program[pos[p]]] # None
    <3>1. ppc'[p] = "call" /\ comp'[p] = TRUE /\ pos'[p] = pos[p] /\ waits'[p] = waits[p]
      BY <1>6, <2>1 DEF Fails, PassGoto, PassTypeOK
    <3>2. Behind(p)'
      BY <1>1, <3>1, DoneStays DEF Behind
    <3>3. Counted(p, IF comp[p] THEN pos[p] ELSE pos[p] - 1)'
      BY <2>1, <3>1 DEF Counted
    <3> QED BY <2>1, <3>1, <3>2, <3>3 DEF InPlace, AtKey
  <2>2. CASE ~(~comp[p] /\ OnError[Program[pos[p]]] # None)
    BY <1>2, <1>6, <2>2 DEF Fails, PassGoto, PassTypeOK
  <2> QED BY <2>1, <2>2
<1>7. ASSUME Returns(p), ~comp[p] => effects'[KeyOf(pos[p])] > 0
      PROVE  InPlace(p)'
  <2>1. CASE comp[p] \/ (waits[p] /\ pos[p] \notin Together)
    BY <1>2, <1>7, <2>1 DEF Returns, PassGoto, PassTypeOK
  <2>2. CASE ~comp[p] /\ ~(waits[p] /\ pos[p] \notin Together) /\ pos[p] = Len(Program)
    <3>1. ppc'[p] = "complete" /\ ~waits[p]
      BY <1>7, <2>2, ProgramFacts DEF Returns, PassGoto, PassTypeOK
    <3>2. \A i \in Calls : i \in 1..pos[p] - 1 \/ i = pos[p]
      BY <1>1, <2>2 DEF Calls
    <3>3. \A i \in Calls : effects'[KeyOf(i)] > 0
      BY <1>1, <1>7, <2>2, <3>1, <3>2, DoneStays DEF Behind
    <3> QED BY <3>1, <3>3 DEF InPlace, AtKey
  <2>3. CASE ~comp[p] /\ ~(waits[p] /\ pos[p] \notin Together) /\ pos[p] # Len(Program)
    <3>1. /\ ppc'[p] = "call" /\ pos'[p] = pos[p] + 1
          /\ comp'[p] = comp[p] /\ waits'[p] = waits[p]
      BY <1>7, <2>3 DEF Returns, PassGoto, PassTypeOK
    <3>2. ASSUME NEW i \in 1..pos[p], ~waits[p] \/ Before(i, pos[p] + 1)
          PROVE  effects'[KeyOf(i)] > 0
      <4>1. i \in Calls
        BY <1>1 DEF Calls
      <4>2. CASE ~waits[p]
        <5>1. CASE i = pos[p]
          BY <1>7, <2>3, <5>1
        <5>2. CASE i # pos[p]
          BY <1>1, <4>1, <4>2, <5>2, DoneStays DEF Behind
        <5> QED BY <5>1, <5>2
      <4>3. CASE waits[p]
        <5>1. i < pos[p] /\ Before(i, pos[p])
          BY <2>3, <3>2, <4>1, <4>3, BeforeNext
        <5> QED BY <1>1, <4>1, <5>1, DoneStays DEF Behind
      <4> QED BY <4>2, <4>3
    <3> QED BY <1>3, <2>3, <3>1, <3>2
  <2> QED BY <2>1, <2>2, <2>3
<1>8. CASE Parks(p) \/ (Fails(p) /\ waits[p])
  BY <1>4, <1>5, <1>8 DEF Fails
<1> QED BY <1>6, <1>7, <1>8

\* What a step of pass p leaves alone: the other passes and, while nobody
\* shares its process, their ordinals.
PassFrame(p) == \A q \in Passes \ {p} :
  /\ ppc'[q] = ppc[q] /\ pos'[q] = pos[q] /\ comp'[q] = comp[q] /\ waits'[q] = waits[q]
  /\ key'[q] = key[q] /\ (ppc[q] # "idle" => ordinals'[Ctx(q)] = ordinals[Ctx(q)])

LEMMA OthersInPlace ==
  ASSUME PassTypeOK, NothingLost, NEW p \in Passes, PassFrame(p), InPlace(p)',
         \A q \in Passes : InPlace(q)
  PROVE  \A q \in Passes : InPlace(q)'
BY PassStaysInPlace DEF PassFrame

\* Leaving touches the pass's own context only, and puts it back to the start.
LEMMA LeaveInPlace ==
  ASSUME PassTypeOK, NEW p \in Passes, Alone(p), PassLeave(p)
  PROVE  PassFrame(p) /\ InPlace(p)'
<1>1. \A q \in Passes \ {p} : ppc[q] # "idle" => ordinals'[Ctx(q)] = ordinals[Ctx(q)]
  BY ProcessAssumption
     DEF PassTypeOK, PassLeave, ExitExecution, ClearOrdinals, contextVars, Alone, Ctx
<1> QED BY <1>1, LeaveFrame, OutOfBodyInPlace DEF PassFrame

\* The step a pass reaches is the one its place in the program says, and only
\* that step may be minted.
LEMMA ReachKey ==
  ASSUME EngineBase, NEW p \in Passes, InPlace(p), Reach(p)
  PROVE  \E k \in Steps, r \in [status : StepStatus \ {"absent"}, attempt : Nat] :
           /\ comp[p] => k = StepKey(OnError[Program[pos[p]]], 0)
           /\ ~comp[p] => k = KeyOf(pos[p])
           /\ CallName(p) \in Names /\ key'[p] = k
           /\ r.status = "succeeded" => effects'[k] > 0
           /\ \A t \in Steps : Minted(t)' => Minted(t) \/ t = k
           /\ Resolve(p, Kind[CallName(p)], r)
<1>1. PICK k \in Steps, r \in [status : StepStatus \ {"absent"}, attempt : Nat] :
        /\ k = StepKey(CallName(p), ordinals[Ctx(p)][CallName(p)])
        /\ key' = [key EXCEPT ![p] = k]
        /\ r.status = "succeeded" =>
             status[k] = "succeeded" \/ snapshot[Ctx(p)][k].status = "succeeded"
        /\ \A t \in Steps : \/ status'[t] = status[t]
                            \/ t = k /\ status[t] = "absent" /\ status'[t] = "pending"
        /\ Resolve(p, Kind[CallName(p)], r)
  BY ReachFacts
<1>2. Ctx(p) \in Processes /\ PassTypeOK /\ effects' = effects
  BY ProcessAssumption, TypeParts DEF Ctx, EngineBase, Reach, history
<1>3. r.status = "succeeded" => effects'[k] > 0
  BY <1>1, <1>2 DEF EngineBase, Honest, HonestContexts, RowsEarned
<1>4. \A t \in Steps : Minted(t)' => Minted(t) \/ t = k
  BY <1>1 DEF Minted
<1>5. pos[p] \in Calls /\ Program[pos[p]] \in Names /\ pos[p] \in Nat
  BY <1>2, ProgramFacts DEF PassTypeOK
<1>6. CASE comp[p]
  <2> DEFINE n == OnError[Program[pos[p]]]
  <2>1. n \in Names /\ CallName(p) = n /\ Counted(p, pos[p])
    BY <1>5, <1>6, ProgramAssumption DEF CallName, InPlace, Reach
  <2>2. {j \in 1..pos[p] : Program[j] = n} = {}
    BY <1>5, ProgramAssumption DEF Calls
  <2>3. Count(n, pos[p]) = 0
    BY <2>2, FS_EmptySet DEF Count
  <2> QED BY SMTT(30), <1>1, <1>2, <1>3, <1>4, <1>6, <2>1, <2>3 DEF Counted, PassTypeOK
<1>7. CASE ~comp[p]
  <2>1. CallName(p) = Program[pos[p]] /\ Counted(p, pos[p] - 1)
    BY <1>7 DEF CallName, InPlace, Reach
  <2>2. k = <<Program[pos[p]], Count(Program[pos[p]], pos[p] - 1)>>
    BY <1>1, <1>5, <2>1 DEF Counted, StepKey
  <2> QED BY <1>1, <1>2, <1>3, <1>4, <1>5, <1>7, <2>1, <2>2, KeyOfCount DEF PassTypeOK
<1> QED BY <1>6, <1>7

LEMMA ReachInPlace ==
  ASSUME EngineBase, NothingLost, NEW p \in Passes, Alone(p), InPlace(p), Reach(p)
  PROVE  PassFrame(p) /\ InPlace(p)'
<1>1. PICK k \in Steps, r \in [status : StepStatus \ {"absent"}, attempt : Nat] :
        /\ comp[p] => k = StepKey(OnError[Program[pos[p]]], 0)
        /\ ~comp[p] => k = KeyOf(pos[p])
        /\ CallName(p) \in Names /\ key'[p] = k
        /\ r.status = "succeeded" => effects'[k] > 0
        /\ Resolve(p, Kind[CallName(p)], r)
  BY ReachKey
<1>2. Ctx(p) \in Processes /\ PassTypeOK
  BY ProcessAssumption, TypeParts DEF Ctx, EngineBase
<1>3. pos[p] \in Calls /\ pos[p] \in Nat /\ pos[p] - 1 \in Nat /\ (pos[p] - 1) + 1 = pos[p]
      /\ \A i \in 1..pos[p] - 1 : i \in Calls
  BY <1>2, ProgramFacts DEF PassTypeOK, Calls
<1>4. /\ Behind(p) /\ (comp[p] => OnError[Program[pos[p]]] # None)
      /\ ~comp[p] => Counted(p, pos[p] - 1)
  BY DEF InPlace, Reach
<1>5. ~comp[p] => \A n \in Names : ordinals'[Ctx(p)][n] = Count(n, pos[p])
  <2>1. ASSUME ~comp[p], NEW n \in Names
        PROVE  ordinals'[Ctx(p)][n] = IF Program[pos[p]] = n THEN ordinals[Ctx(p)][n] + 1
                                      ELSE ordinals[Ctx(p)][n]
    BY <1>1, <1>2, <2>1 DEF Reach, CallName, PassTypeOK
  <2> QED BY <1>3, <1>4, <2>1, CountNext DEF Counted
<1>6. InPlace(p)'
  <2>1. CASE r.status = "succeeded" /\ Returns(p)
    BY <1>1, <1>2, <1>4, <1>5, <2>1, MoveInPlace
  <2>2. CASE Parks(p) \/ Fails(p)
    BY <1>2, <1>4, <1>5, <2>2, MoveInPlace
  <2>3. ASSUME NEW l \in {"open", "record", "dispatch", "begin"}, PassGoto(p, l),
               UNCHANGED <<pos, comp, waits>>
        PROVE  InPlace(p)'
    <3>1. ppc'[p] = l
      BY <1>2, <2>3 DEF PassGoto, PassTypeOK
    <3>2. Behind(p)'
      BY <1>3, <1>4, <2>3, DoneStays DEF Behind
    <3>3. ~comp[p] => Counted(p, pos[p])'
      BY <1>5, <2>3 DEF Counted
    <3> QED BY <1>1, <1>4, <2>3, <3>1, <3>2, <3>3 DEF InPlace, AtKey
  <2> QED BY <1>1, <2>1, <2>2, <2>3, ResolveMoves
<1>7. PassFrame(p)
  <2>1. \A q \in Passes \ {p} :
          key'[q] = key[q] /\ (ppc[q] # "idle" => ordinals'[Ctx(q)] = ordinals[Ctx(q)])
    BY ZenonT(40), <1>2, ReachFacts, ProcessAssumption DEF Reach, PassTypeOK, Alone, Ctx
  <2>2. \A q \in Passes \ {p} : ppc'[q] = ppc[q] /\ pos'[q] = pos[q]
                               /\ comp'[q] = comp[q] /\ waits'[q] = waits[q]
    <3>1. CASE Returns(p) \/ Parks(p) \/ Fails(p)
      BY <1>2, <3>1, MoveTypes
    <3>2. ASSUME NEW l, PassGoto(p, l), UNCHANGED <<pos, comp, waits>>
          PROVE  \A q \in Passes \ {p} : ppc'[q] = ppc[q] /\ pos'[q] = pos[q]
                                        /\ comp'[q] = comp[q] /\ waits'[q] = waits[q]
      BY <1>2, <3>2 DEF PassGoto, PassTypeOK
    <3> QED BY <1>1, <3>1, <3>2, ResolveMoves
  <2> QED BY <2>1, <2>2 DEF PassFrame
<1> QED BY <1>6, <1>7

\* Every step of a pass leaves all passes in place.
LEMMA PassKeepsPlaces ==
  ASSUME EngineBase, NothingLost, \A q \in Passes : InPlace(q),
         NEW p \in Passes, Alone(p), BeginReplay(p) \/ PassStep(p) \/ Die(p)
  PROVE  \A q \in Passes : InPlace(q)'
<1> SUFFICES PassFrame(p) /\ InPlace(p)'
  BY OthersInPlace, TypeParts DEF EngineBase
<1>1. PassTypeOK /\ InPlace(p)
  BY TypeParts DEF EngineBase
<1>2. Ctx(p) \in Processes
  BY ProcessAssumption DEF Ctx
<1>3. ASSUME PassLeave(p) PROVE PassFrame(p) /\ InPlace(p)'
  BY <1>1, <1>3, LeaveInPlace
<1>4. CASE BeginReplay(p)
  <2>1. ppc'[p] = "read" /\ Fresh(p)'
    BY <1>1, <1>4 DEF BeginReplay, PassGoto, PassTypeOK, InPlace, Fresh
  <2>2. Counted(p, 0)'
    BY <1>1, <1>2, <1>4, CountNext DEF BeginReplay, ClearOrdinals, Counted, PassTypeOK
  <2>3. PassFrame(p)
    BY <1>1, <1>4, ProcessAssumption
       DEF BeginReplay, ClearOrdinals, PassGoto, PassFrame, PassTypeOK, Alone, Ctx
  <2> QED BY <2>1, <2>2, <2>3 DEF InPlace, AtKey
<1>5. CASE Reach(p)
  BY <1>1, <1>5, ReachInPlace
<1>6. ASSUME NEW l, PassGoto(p, l), UNCHANGED <<ordinals, pos, comp, waits, key>>,
             \/ ppc[p] = "read" /\ l = "check"
             \/ ppc[p] = "check" /\ l = "lock"
             \/ ppc[p] = "lock" /\ l = "call"
             \/ ppc[p] \in AtKey /\ l \in AtKey
             \/ l \in {"rearm", "missing", "failRun", "failAgain", "dispatchFailed", "park", "suspend"}
      PROVE  PassFrame(p) /\ InPlace(p)'
  <2>1. ppc'[p] = l /\ PassFrame(p)
    BY <1>1, <1>6 DEF PassGoto, PassFrame, PassTypeOK
  <2>2. CASE l \in {"check", "lock", "call"} /\ ppc[p] \in {"read", "check", "lock"}
    <3>1. Fresh(p) /\ Counted(p, 0) /\ Fresh(p)' /\ Counted(p, 0)'
      BY <1>6, <2>2 DEF InPlace, Fresh, Counted
    <3>2. pos'[p] - 1 = 0 /\ ~comp'[p] /\ Behind(p)'
      BY <3>1 DEF Fresh, Behind
    <3>3. Counted(p, IF comp[p] THEN pos[p] ELSE pos[p] - 1)'
      BY <3>1, <3>2 DEF Counted
    <3> QED BY <2>1, <2>2, <3>1, <3>2, <3>3 DEF InPlace, AtKey
  <2>3. CASE ppc[p] \in AtKey /\ l \in AtKey
    BY <1>1, <1>6, <2>1, <2>3, AtKeyInPlace
  <2>4. CASE l \in {"rearm", "missing", "failRun", "failAgain", "dispatchFailed", "park", "suspend"}
    BY <2>1, <2>4, OutOfBodyInPlace
  <2> QED BY <1>6, <2>1, <2>2, <2>3, <2>4
<1>7. ASSUME ppc[p] \in AtKey, UNCHANGED <<ordinals, key>>,
             \/ Returns(p) /\ (~comp[p] => effects'[KeyOf(pos[p])] > 0)
             \/ Parks(p)
      PROVE  PassFrame(p) /\ InPlace(p)'
  <2>1. /\ Behind(p) /\ (comp[p] => OnError[Program[pos[p]]] # None)
        /\ ~comp[p] => \A n \in Names : ordinals'[Ctx(p)][n] = Count(n, pos[p])
    BY <1>1, <1>7 DEF InPlace, Counted
  <2>2. InPlace(p)'
    BY <1>1, <1>7, <2>1, MoveInPlace
  <2> QED BY <1>1, <1>7, <2>2, MoveTypes DEF PassFrame
<1>8. CASE ReadSteps(p)
  BY <1>6, <1>8 DEF ReadSteps, contextVars, AtKey
<1>9. CASE EnterBody(p)
  BY <1>6, <1>9 DEF EnterBody, contextVars, AtKey
<1>10. CASE Dispatch(p)
  BY <1>6, <1>10 DEF Dispatch, contextVars, AtKey
<1>11. CASE DispatchThrows(p)
  BY <1>6, <1>11 DEF DispatchThrows, contextVars, AtKey
<1>12. CASE Begin(p)
  BY <1>6, <1>12 DEF Begin, contextVars, AtKey
<1>13. CASE BodyEnds(p)
  BY <1>6, <1>13 DEF BodyEnds, contextVars, AtKey
<1>14. CASE StoreError(p)
  BY <1>6, <1>14 DEF StoreError, contextVars, AtKey
<1>15. CASE RetryPending(p)
  BY <1>6, <1>15 DEF RetryPending, contextVars, AtKey
<1>16. CASE Rearm(p)
  BY <1>6, <1>16 DEF Rearm, contextVars, AtKey
<1>17. CASE SuspendMissing(p)
  BY <1>6, <1>17 DEF SuspendMissing, contextVars, AtKey
<1>18. CASE OpenSuspension(p)
  BY <1>6, <1>18 DEF OpenSuspension, contextVars, AtKey
<1>19. CASE RecordSuspension(p)
  BY <1>6, <1>19 DEF RecordSuspension, contextVars, AtKey
<1>20. CASE FailRun(p)
  BY <1>6, <1>20 DEF FailRun, contextVars, AtKey
<1>21. CASE CheckSettled(p)
  <2>1. CASE PassLeave(p)
    BY <1>3, <2>1
  <2>2. CASE ~PassLeave(p)
    BY <1>6, <1>21, <2>2 DEF CheckSettled
  <2> QED BY <2>1, <2>2
<1>22. CASE Park(p)
  BY <1>3, <1>22 DEF Park
<1>23. CASE SuspendRunItself(p)
  BY <1>3, <1>23 DEF SuspendRunItself
<1>24. CASE FailAgain(p)
  BY <1>3, <1>24 DEF FailAgain
<1>25. CASE FailDispatch(p)
  BY <1>3, <1>25 DEF FailDispatch
<1>26. CASE Complete(p)
  BY <1>3, <1>26 DEF Complete
<1>27. CASE Die(p)
  BY <1>3, <1>27 DEF Die
<1>28. CASE MarkScheduled(p)
  BY <1>7, <1>28 DEF MarkScheduled, contextVars, AtKey
<1>29. CASE StoreResult(p)
  <2>1. ~comp[p] => effects'[KeyOf(pos[p])] > 0
    BY <1>1, <1>29 DEF StoreResult, EngineBase, Honest, HonestPass, InPlace, AtKey, history
  <2> QED BY <1>7, <1>29, <2>1 DEF StoreResult, contextVars, AtKey
<1> QED
  BY <1>4, <1>5, <1>8, <1>9, <1>10, <1>11, <1>12, <1>13, <1>14, <1>15, <1>16, <1>17,
     <1>18, <1>19, <1>20, <1>21, <1>22, <1>23, <1>24, <1>25, <1>26, <1>27, <1>28, <1>29
     DEF PassStep

--------------------------------------------------------------------------------
\* Where no row is minted, the order and the keys of the rows stand.
LEMMA OrderStands ==
  ASSUME StepsRunInOrder, ReplaysAgreeOnKeys, NothingLost, NothingMinted
  PROVE  StepsRunInOrder' /\ ReplaysAgreeOnKeys'
<1>1. \A i \in Calls : Minted(KeyOf(i)) <=> status[KeyOf(i)] # "absent"
  BY ProgramFacts DEF Minted
<1>2. \A i \in Calls : (status[KeyOf(i)] # "absent")' => status[KeyOf(i)] # "absent"
  BY ProgramFacts DEF NothingMinted, Minted
<1>3. StepsRunInOrder'
  BY <1>2, DoneStays DEF StepsRunInOrder
<1>4. ReplaysAgreeOnKeys'
  BY DEF ReplaysAgreeOnKeys, NothingMinted, Minted
<1> QED BY <1>3, <1>4

\* A pass in place reaches the steps of the body, and reaches them in order.
LEMMA ReachInOrder ==
  ASSUME EngineBase, NothingLost, StepsRunInOrder, ReplaysAgreeOnKeys,
         NEW p \in Passes, InPlace(p), Reach(p)
  PROVE  StepsRunInOrder' /\ ReplaysAgreeOnKeys'
<1>1. PICK k \in Steps :
        /\ comp[p] => k = StepKey(OnError[Program[pos[p]]], 0)
        /\ ~comp[p] => k = KeyOf(pos[p])
        /\ \A t \in Steps : Minted(t)' => Minted(t) \/ t = k
  BY ReachKey
<1>2. pos[p] \in Calls /\ Program[pos[p]] \in Names /\ Behind(p)
  BY TypeParts, ProgramFacts DEF EngineBase, PassTypeOK, InPlace, Reach
<1>3. StepsRunInOrder'
  <2>1. SUFFICES ASSUME NEW i \in Calls, NEW j \in Calls, Before(i, j), status'[KeyOf(j)] # "absent"
                 PROVE  effects'[KeyOf(i)] > 0
    BY DEF StepsRunInOrder
  <2>2. KeyOf(j) \in Steps
    BY ProgramFacts
  <2>3. CASE Minted(KeyOf(j))
    BY <2>1, <2>3, DoneStays DEF StepsRunInOrder, Minted
  <2>4. CASE ~Minted(KeyOf(j))
    <3>1. KeyOf(j) = k
      <4>1. PICK t \in Steps : t = KeyOf(j)
        BY <2>2
      <4>2. Minted(t)' /\ ~Minted(t)
        BY <2>1, <2>4, <4>1 DEF Minted
      <4> QED BY <1>1, <4>1, <4>2
    <3>2. ~comp[p] /\ j = pos[p]
      BY <1>1, <1>2, <3>1, KeysDiffer
    <3>3. i \in 1..pos[p] - 1
      BY <2>1, <3>2, ProgramFacts DEF Before, Calls
    <3> QED BY <1>2, <2>1, <3>2, <3>3, DoneStays DEF Behind
  <2> QED BY <2>3, <2>4
<1>4. ReplaysAgreeOnKeys'
  <2>1. ASSUME NEW t \in Steps, Minted(t)
        PROVE  \E i \in Calls : t = KeyOf(i) \/ t = StepKey(OnError[Program[i]], 0)
    BY <2>1 DEF ReplaysAgreeOnKeys, Minted
  <2>2. \E i \in Calls : k = KeyOf(i) \/ k = StepKey(OnError[Program[i]], 0)
    BY <1>1, <1>2
  <2>3. ASSUME NEW t \in Steps, status'[t] # "absent" PROVE Minted(t) \/ t = k
    BY <1>1, <2>3 DEF Minted
  <2> QED BY <2>1, <2>2, <2>3 DEF ReplaysAgreeOnKeys
<1> QED BY <1>3, <1>4

\* Only a pass that has walked the whole body writes the run completed.
LEMMA OnlyCompleteCompletes ==
  ASSUME [Next]_vars, runStatus' = "completed", runStatus # "completed"
  PROVE  \E p \in Passes : Complete(p)
<1>1. ASSUME NEW p \in Passes, BeginReplay(p) \/ PassStep(p) \/ Die(p)
      PROVE  Complete(p)
  BY <1>1 DEF BeginReplay, PassStep, Die, ReadSteps, CheckSettled, EnterBody, Reach,
     Dispatch,
     DispatchThrows, MarkScheduled, Park, Begin, BodyEnds, StoreResult, StoreError, RetryPending,
     Rearm, SuspendMissing, OpenSuspension, RecordSuspension, SuspendRunItself, FailRun,
     FailAgain, FailDispatch, workerVars, rows
<1>2. ~\E w \in Workers : Handle(w) \/ Crash(w) \/ \E j \in Jobs : Deliver(w, j)
  BY DEF Handle, Crash, Deliver, LoadOwned, LoadClaimable, ClaimWon, ClaimLost, MarkRunning,
     NewAttempt, RpcReturns, RpcThrows, RpcNotFound, WriteResult, Resume, ResumeThrows,
     WriteError, LastResume, WriteMissing, SuspendRun, JobCompletes, JobFails, rows
<1>3. ~\E j \in Jobs : Redeliver(j)
  BY DEF Redeliver, rows
<1>4. ~((\E s \in Steps : SleepDone(s) \/ SleepResume(s)) \/ Sweep \/ UserResume)
  BY DEF SleepDone, SleepResume, Sweep, UserResume, rows
<1>5. ~UNCHANGED vars
  BY DEF vars, workerVars, rows
<1> QED BY <1>1, <1>2, <1>3, <1>4, <1>5 DEF Next, WorkerStep, DeliverStep

LEMMA CompletedStands ==
  ASSUME CompletedMeansDone, NothingLost, runStatus' = "completed" => runStatus = "completed"
  PROVE  CompletedMeansDone'
BY DoneStays DEF CompletedMeansDone

\* A process that two replays have shared stays so; until then a pass that is in
\* a process is the only one there.
LEMMA ApartStep ==
  ASSUME PassTypeOK, [Next]_vars, ~contextShared', TimerTypeOK
  PROVE  /\ ~contextShared
         /\ \A p \in Passes : BeginReplay(p) => Alone(p)
         /\ Apart => Apart'
<1>1. ASSUME NEW p \in Passes, PassStep(p) \/ Die(p)
      PROVE  /\ ~contextShared
             /\ \A q \in Passes : ppc[q] = "idle" => ppc'[q] = "idle"
  <2>1. contextShared' = contextShared
    BY <1>1 DEF PassStep, Die, ReadSteps, CheckSettled, EnterBody, Reach, Dispatch,
       DispatchThrows, MarkScheduled, Park, Begin, BodyEnds, StoreResult, StoreError,
       RetryPending, Rearm, SuspendMissing, OpenSuspension, RecordSuspension,
       SuspendRunItself, FailRun, FailAgain, FailDispatch, Complete, budgetVars
  <2>2. ppc[p] # "idle"
    BY <1>1 DEF PassStep, Die, ReadSteps, CheckSettled, EnterBody, Reach, Dispatch,
       DispatchThrows, MarkScheduled, Park, Begin, BodyEnds, StoreResult, StoreError,
       RetryPending, Rearm, SuspendMissing, OpenSuspension, RecordSuspension,
       SuspendRunItself, FailRun, FailAgain, FailDispatch, Complete
  <2>3. \E l : ppc' = [ppc EXCEPT ![p] = l]
    BY <1>1 DEF PassStep, Die, ReadSteps, CheckSettled, EnterBody, Reach, Dispatch,
       DispatchThrows, MarkScheduled, Park, Begin, BodyEnds, StoreResult, StoreError,
       RetryPending, Rearm, SuspendMissing, OpenSuspension, RecordSuspension,
       SuspendRunItself, FailRun, FailAgain, FailDispatch, Complete, PassLeave, PassGoto,
       Resolve, Returns, Parks, Fails
  <2> QED BY <2>1, <2>2, <2>3 DEF PassTypeOK
<1>2. ASSUME NEW p \in Passes, BeginReplay(p)
      PROVE  ~contextShared /\ Alone(p) /\ (Apart => Apart')
  <2>1. ~contextShared /\ Alone(p)
    BY <1>2 DEF BeginReplay, Alone
  <2>2. \A q \in Passes \ {p} : ppc'[q] = ppc[q]
    BY <1>2 DEF BeginReplay, PassGoto, PassTypeOK
  <2>3. Apart => Apart'
    BY <2>1, <2>2 DEF Apart, Alone, Ctx
  <2> QED BY <2>1, <2>3
<1>3. ASSUME \A q \in Passes : ppc[q] = "idle" => ppc'[q] = "idle"
      PROVE  Apart => Apart'
  BY <1>3 DEF Apart, Alone, Ctx
<1>4. CASE ~\E p \in Passes : BeginReplay(p) \/ PassStep(p) \/ Die(p)
  <2>1. UNCHANGED <<ppc, contextShared>>
    BY <1>4 DEF Next, vars, passVars, budgetVars, engineVars, WorkerStep, DeliverStep, SleepDone,
       SleepResume, Sweep, UserResume
  <2>2. ~\E p \in Passes : BeginReplay(p)
    BY <1>4
  <2> QED BY <1>3, <2>1, <2>2
<1>5. ASSUME NEW p \in Passes, BeginReplay(p)
      PROVE  \A q \in Passes : BeginReplay(q) => Alone(q)
  BY <1>2
<1> QED BY <1>1, <1>2, <1>3, <1>4

\* The invariant survives every step of the run.
LEMMA EngineInvStep ==
  ASSUME EngineInv, [Next]_vars
  PROVE  EngineInv'
<1>1. EngineBase /\ EngineBase' /\ NothingLost
  BY EngineKeeps DEF EngineInv
<1>2. SUFFICES ASSUME ~contextShared' PROVE InOrder'
  BY <1>1 DEF EngineInv
<1>3. InOrder /\ Apart' /\ \A p \in Passes : BeginReplay(p) => Alone(p)
  BY <1>1, <1>2, ApartStep, TypeParts DEF EngineInv, EngineBase, InOrder
<1>4. \A p \in Passes : InPlace(p)'
  <2>1. ASSUME NEW p \in Passes, BeginReplay(p) \/ PassStep(p) \/ Die(p)
        PROVE  \A q \in Passes : InPlace(q)'
    <3>1. PassStep(p) \/ Die(p) => ppc[p] # "idle"
      BY DEF PassStep, Die, ReadSteps, CheckSettled, EnterBody, Reach, Dispatch,
         DispatchThrows, MarkScheduled, Park, Begin, BodyEnds, StoreResult, StoreError,
         RetryPending, Rearm, SuspendMissing, OpenSuspension, RecordSuspension,
         SuspendRunItself, FailRun, FailAgain, FailDispatch, Complete
    <3>2. Alone(p)
      BY <1>3, <2>1, <3>1 DEF InOrder, Apart
    <3> QED BY <1>1, <1>3, <2>1, <3>2, PassKeepsPlaces DEF InOrder
  <2>2. ASSUME UNCHANGED <<passVars, contextVars>>
        PROVE  \A q \in Passes : InPlace(q)'
    BY <1>1, <1>3, <2>2, PassStaysInPlace, TypeParts DEF InOrder, EngineBase, passVars,
       contextVars
  <2> QED BY <2>1, <2>2
          DEF Next, vars, engineVars, WorkerStep, DeliverStep, SleepDone, SleepResume,
          Sweep, UserResume
<1>5. StepsRunInOrder' /\ ReplaysAgreeOnKeys'
  <2>1. CASE NothingMinted
    BY <1>1, <1>3, <2>1, OrderStands DEF InOrder
  <2>2. CASE \E p \in Passes : Reach(p)
    BY <1>1, <1>3, <2>2, ReachInOrder DEF InOrder
  <2> QED BY <2>1, <2>2, EngineKeeps DEF EngineInv
<1>6. CompletedMeansDone'
  <2>1. CASE runStatus' = "completed" => runStatus = "completed"
    BY <1>1, <1>3, <2>1, CompletedStands DEF InOrder
  <2>2. CASE runStatus' = "completed" /\ runStatus # "completed"
    <3>1. PICK p \in Passes : Complete(p)
      BY <2>2, OnlyCompleteCompletes
    <3>2. \A i \in Calls : effects[KeyOf(i)] > 0
      BY <1>3, <3>1 DEF Complete, InOrder, InPlace
    <3> QED BY <1>1, <3>2, DoneStays DEF CompletedMeansDone
  <2> QED BY <2>1, <2>2
<1> QED BY <1>3, <1>4, <1>5, <1>6 DEF InOrder

LEMMA EngineInvStarts ==
  ASSUME Init
  PROVE  EngineInv
<1>1. Apart /\ \A p \in Passes : InPlace(p)
  BY DEF Init, Apart, Alone, InPlace, Fresh, AtKey
<1>2. \A i \in Calls : status[KeyOf(i)] = "absent"
  BY ProgramFacts DEF Init
<1>3. StepsRunInOrder /\ ReplaysAgreeOnKeys /\ CompletedMeansDone
  BY <1>2 DEF Init, StepsRunInOrder, ReplaysAgreeOnKeys, CompletedMeansDone
<1> QED BY <1>1, <1>3, EngineStarts DEF EngineInv, InOrder

LEMMA EngineInvariant == Spec => []EngineInv
<1>1. Init => EngineInv
  BY EngineInvStarts
<1>2. EngineInv /\ [Next]_vars => EngineInv'
  BY EngineInvStep
<1> QED BY <1>1, <1>2, PTL DEF Spec

\* Whatever is replayed, swept, redelivered, retried or crashes, with or without
\* an excluding run lock, and in whatever processes, no step of the body has a
\* row before the side effects of every call it awaits are done - as long as no
\* replay has begun in a process another replay of the run was in.
THEOREM RunsInOrder == Spec => [](~contextShared => StepsRunInOrder)
<1>1. EngineInv => (~contextShared => StepsRunInOrder)
  BY DEF EngineInv, InOrder
<1> QED BY <1>1, EngineInvariant, PTL

\* A run that says completed has really done every call of its body, until two
\* replays of it have met in one process.
THEOREM CompletedIsDone == Spec => [](~contextShared => CompletedMeansDone)
<1>1. EngineInv => (~contextShared => CompletedMeansDone)
  BY DEF EngineInv, InOrder
<1> QED BY <1>1, EngineInvariant, PTL

\* Every replay resolves a call to the same row, and no row is minted that is
\* not the body's or a compensation's, until two replays have met in a process.
THEOREM KeysAgree == Spec => [](~contextShared => ReplaysAgreeOnKeys)
<1>1. EngineInv => (~contextShared => ReplaysAgreeOnKeys)
  BY DEF EngineInv, InOrder
<1> QED BY <1>1, EngineInvariant, PTL
--------------------------------------------------------------------------------
\* A job for step s that no worker has been handed yet.
OnQueue(s) == \E j \in Jobs : /\ job[j].state = "ready" /\ job[j].owner = None
                              /\ job[j].step = s

\* Somebody is still to start a step that is scheduled: its job, a worker
\* before its claim, or its timer.
Awaited(s) ==
  \/ OnQueue(s) \/ armed[s] > 0
  \/ \E w \in Workers : pc[w] \in {"load", "claimFresh", "markRunning"} /\ at[w] = s

WorkerHolds == {"markRunning", "newAttempt", "exec", "result", "error", "missing"}
PassHolds == {"body", "store", "raise", "record", "missing"}

\* Somebody is at a step that is running.
InHand(s) ==
  \/ \E w \in Workers : pc[w] \in WorkerHolds /\ at[w] = s
  \/ \E p \in Passes : ppc[p] \in PassHolds /\ key[p] = s

\* A pass dispatches and marks the steps that a worker or a timer does, and runs
\* the others itself.
KindsFit == \A p \in Passes :
  /\ ppc[p] \in {"dispatch", "mark"} => CallKind(p) \in {"queued", "sleep"}
  /\ ppc[p] \in {"begin", "body", "store", "raise", "retry"}
       => CallKind(p) \notin {"queued", "sleep"}

\* Who does the step that a pass is about to mark as scheduled is there already,
\* or its row has been marked behind him.
HandedOver == \A p \in Passes :
  ppc[p] = "mark" /\ status[key[p]] = "pending" => Awaited(key[p]) \/ late[key[p]] > 0

Attended(s) ==
  /\ status[s] = "scheduled" => Awaited(s) \/ late[s] > 0
  /\ status[s] = "running" /\ runStatus = "running" => InHand(s)

\* Nothing waits for somebody who is not there, while nobody has died.
Tended == crashes = 0 /\ deaths = 0 => HandedOver /\ \A s \in Steps : Attended(s)
HandInv == EngineBase /\ KindsFit
AttendInv == HandInv /\ Tended

\* A worker's verdict leaves the jobs alone that nobody has been handed.
LEMMA VerdictKeepsQueue ==
  ASSUME WorkerTypeOK, NEW w \in Workers, mine[w] \in Jobs, job' = job \/ Ack(w) \/ Nack(w),
         NEW s, OnQueue(s)
  PROVE  OnQueue(s)'
<1>1. PICK j \in Jobs : job[j].state = "ready" /\ job[j].owner = None /\ job[j].step = s
  BY DEF OnQueue
<1>2. w # None
  BY NoneAssumption
<1>3. job'[j] = job[j]
  BY <1>1, <1>2 DEF WorkerTypeOK, Ack, Nack, Owns
<1> QED BY <1>1, <1>3 DEF OnQueue

\* What a step of a worker's handler does to what Attended speaks of.
LEMMA HandlerMoves ==
  ASSUME WorkerTypeOK, Placed, NEW w \in Workers, Handle(w), NEW s \in Steps
  PROVE  /\ \A v \in Workers \ {w} : pc'[v] = pc[v] /\ at'[v] = at[v]
         /\ status'[s] \in {"pending", "scheduled"} => status[s] = status'[s]
         /\ status'[s] \in {"pending", "scheduled"} /\ at[w] = s
            /\ pc[w] \in {"load", "claimFresh", "markRunning"}
              => at'[w] = s /\ pc'[w] \in {"load", "claimFresh", "markRunning"}
         /\ status'[s] = "running" /\ status[s] # "running" => at'[w] = s /\ pc'[w] \in WorkerHolds
         /\ status'[s] = "running" /\ at[w] = s /\ pc[w] \in WorkerHolds
              => at'[w] = s /\ pc'[w] \in WorkerHolds
         /\ runStatus' = "running" => runStatus = "running"
         /\ crashes' = crashes /\ late' = late
         /\ job' = job \/ Ack(w) \/ Nack(w)
<1> USE DEF WorkerTypeOK, Placed, WorkerHolds, rows, queues, history, faults, Goto
<1>1. CASE LoadOwned(w) \/ LoadClaimable(w)
  BY <1>1 DEF LoadOwned, LoadClaimable, Leave
<1>2. CASE ClaimWon(w) \/ ClaimLost(w)
  BY <1>2 DEF ClaimWon, ClaimLost, ClaimableFrom, SetStatus, Leave
<1>3. CASE MarkRunning(w) \/ NewAttempt(w)
  BY <1>3 DEF MarkRunning, NewAttempt, EnterFunction, SetStatus
<1>4. CASE RpcReturns(w) \/ RpcThrows(w) \/ RpcNotFound(w)
  BY <1>4 DEF RpcReturns, RpcThrows, RpcNotFound
<1>5. CASE WriteResult(w) \/ Resume(w) \/ ResumeThrows(w)
  BY <1>5 DEF WriteResult, Resume, ResumeThrows, SetStatus, Leave
<1>6. CASE WriteError(w)
  BY <1>6 DEF WriteError, SetStatus, Leave
<1>7. CASE LastResume(w) \/ WriteMissing(w) \/ SuspendRun(w)
  BY <1>7 DEF LastResume, WriteMissing, SuspendRun, SetStatus, Leave
<1>8. CASE JobCompletes(w) \/ JobFails(w)
  BY <1>8 DEF JobCompletes, JobFails, Leave
<1> QED BY <1>1, <1>2, <1>3, <1>4, <1>5, <1>6, <1>7, <1>8 DEF Handle

\* Workers take up what is awaited and finish what they hold.
LEMMA WorkersAttend ==
  ASSUME HandInv, NEW w \in Workers, WorkerStep(w)
  PROVE  KindsFit' /\ (Tended => Tended')
<1>1. WorkerTypeOK /\ Placed /\ Handle(w) /\ pc[w] # "idle"
  BY TypeParts DEF HandInv, EngineBase, WorkerStep, Handle, LoadOwned, LoadClaimable,
     ClaimWon, ClaimLost, MarkRunning, NewAttempt, RpcReturns, RpcThrows, RpcNotFound,
     WriteResult, Resume, ResumeThrows, WriteError, LastResume, WriteMissing, SuspendRun,
     JobCompletes, JobFails
<1>2. UNCHANGED <<armed, ppc, key, deaths>>
  BY DEF WorkerStep, engineVars, timerVars, passVars, budgetVars
<1>3. mine[w] \in Jobs /\ at[w] \in Steps
  BY <1>1 DEF Placed
<1>4. (job' = job \/ Ack(w) \/ Nack(w)) /\ late' = late
  BY <1>1, <1>3, HandlerMoves
<1>5. \A s : OnQueue(s) => OnQueue(s)'
  BY <1>1, <1>3, <1>4, VerdictKeepsQueue
<1>6. KindsFit'
  BY <1>2 DEF HandInv, KindsFit, CallKind
<1>7. ASSUME NEW s \in Steps, status'[s] \in {"pending", "scheduled"}, Awaited(s) PROVE Awaited(s)'
  <2>1. CASE OnQueue(s) \/ armed[s] > 0
    BY <1>2, <1>5, <2>1 DEF Awaited
  <2>2. CASE \E v \in Workers : pc[v] \in {"load", "claimFresh", "markRunning"} /\ at[v] = s
    BY <1>1, <1>7, <2>2, HandlerMoves DEF Awaited
  <2> QED BY <1>7, <2>1, <2>2 DEF Awaited
<1>8. ASSUME Tended, crashes' = 0, deaths' = 0 PROVE HandedOver' /\ \A s \in Steps : Attended(s)'
  <2>1. crashes = 0 /\ deaths = 0
    BY <1>1, <1>2, <1>3, <1>8, HandlerMoves
  <2>2. HandedOver /\ \A s \in Steps : Attended(s)
    BY <1>8, <2>1 DEF Tended
  <2>3. ASSUME NEW p \in Passes, ppc'[p] = "mark", status'[key'[p]] = "pending"
        PROVE  (Awaited(key[p]) \/ late[key[p]] > 0)'
    <3>1. PICK k \in Steps : k = key[p]
      BY <1>2, <2>3 DEF HandInv, EngineBase, Honest, HonestPass, AtKey, Minted
    <3>2. status[k] = "pending" /\ key' = key
      BY <1>1, <1>2, <2>3, <3>1, HandlerMoves
    <3>3. Awaited(k) \/ late[k] > 0
      BY <1>2, <2>2, <2>3, <3>1, <3>2 DEF HandedOver
    <3>4. Awaited(k)' \/ late'[k] > 0
      BY <1>2, <1>4, <1>7, <2>3, <3>1, <3>3
    <3> QED BY <3>1, <3>2, <3>4 DEF Awaited, OnQueue
  <2>4. ASSUME NEW s \in Steps, status'[s] = "scheduled" PROVE Awaited(s)' \/ late'[s] > 0
    <3>1. status[s] = "scheduled" /\ (Awaited(s) \/ late[s] > 0)
      BY <1>1, <2>2, <2>4, HandlerMoves DEF Attended
    <3> QED BY <1>4, <1>7, <2>4, <3>1
  <2>5. ASSUME NEW s \in Steps, status'[s] = "running", runStatus' = "running" PROVE InHand(s)'
    <3>1. CASE status[s] # "running"
      BY <1>1, <2>5, <3>1, HandlerMoves DEF InHand
    <3>2. CASE status[s] = "running"
      <4>1. InHand(s)
        BY <1>1, <2>2, <2>5, <3>2, HandlerMoves DEF Attended
      <4>2. CASE \E v \in Workers : pc[v] \in WorkerHolds /\ at[v] = s
        BY <1>1, <2>5, <4>2, HandlerMoves DEF InHand
      <4>3. CASE \E p \in Passes : ppc[p] \in PassHolds /\ key[p] = s
        BY <1>2, <4>3 DEF InHand
      <4> QED BY <4>1, <4>2, <4>3 DEF InHand
    <3> QED BY <3>1, <3>2
  <2> QED BY <2>3, <2>4, <2>5 DEF HandedOver, Attended
<1> QED BY <1>6, <1>8 DEF Tended

\* A job handed out is in the hands of a worker.
LEMMA DeliveriesAttend ==
  ASSUME HandInv, NEW w \in Workers, NEW j \in Jobs, DeliverStep(w, j)
  PROVE  KindsFit' /\ (Tended => Tended')
<1>1. /\ WorkerTypeOK /\ UNCHANGED <<status, runStatus, armed, ppc, key, crashes, late, deaths>>
      /\ pc[w] = "idle" /\ pc' = [pc EXCEPT ![w] = "load"]
      /\ at' = [at EXCEPT ![w] = job[j].step]
      /\ \A i \in Jobs \ {j} : job'[i] = job[i]
  BY TypeParts DEF HandInv, EngineBase, WorkerTypeOK, DeliverStep, Deliver, Goto,
     engineVars,
     timerVars, passVars, budgetVars, rows, faults
<1>2. \A s : OnQueue(s) => OnQueue(s)' \/ s = job[j].step
  BY <1>1 DEF OnQueue
<1>3. /\ \A v \in Workers : pc[v] # "idle" => pc'[v] = pc[v] /\ at'[v] = at[v]
      /\ pc'[w] = "load" /\ at'[w] = job[j].step
  BY <1>1 DEF WorkerTypeOK
<1>4. \A s : Awaited(s) => Awaited(s)'
  BY <1>1, <1>2, <1>3 DEF Awaited
<1>5. \A s : InHand(s) => InHand(s)'
  BY <1>1, <1>3 DEF InHand, WorkerHolds
<1>6. KindsFit'
  BY <1>1 DEF HandInv, KindsFit, CallKind
<1>7. HandedOver => HandedOver'
  <2>1. ASSUME HandedOver, NEW p \in Passes, ppc'[p] = "mark", status'[key'[p]] = "pending"
        PROVE  (Awaited(key[p]) \/ late[key[p]] > 0)'
    <3>1. PICK k : k = key[p]
      OBVIOUS
    <3>2. Awaited(k) \/ late[k] > 0
      BY <1>1, <2>1, <3>1 DEF HandedOver
    <3>3. Awaited(k)' \/ late'[k] > 0
      BY <1>1, <1>4, <3>2
    <3> QED BY <1>1, <3>1, <3>3 DEF Awaited, OnQueue
  <2> QED BY <2>1 DEF HandedOver
<1>8. ASSUME NEW s \in Steps, Attended(s) PROVE Attended(s)'
  BY <1>1, <1>4, <1>5, <1>8 DEF Attended
<1> QED BY <1>1, <1>6, <1>7, <1>8 DEF Tended

\* What the moves of a pass do to what Attended speaks of.
PassMove(p) ==
  /\ UNCHANGED <<pc, at, crashes>>
  /\ deaths' = 0 => deaths = 0
  /\ \A q \in Passes \ {p} : ppc'[q] = ppc[q] /\ key'[q] = key[q]
  /\ job' = job \/ \E s \in Steps : EnqueueStep(s)
  /\ \A s \in Steps : armed'[s] >= armed[s]
  /\ ppc'[p] = "mark" => key'[p] = key[p] /\ (OnQueue(key[p])' \/ armed'[key[p]] > 0)
  /\ runStatus' = "running" => runStatus = "running"
  /\ \A s \in Steps : late[s] > 0 => late'[s] > 0
  /\ \A s \in Steps : status'[s] # status[s] =>
       /\ status'[s] = "scheduled" =>
            ppc[p] = "mark" /\ key[p] = s /\ (status[s] = "pending" \/ late'[s] > 0)
       /\ status'[s] = "pending" => status[s] = "absent" \/ (ppc[p] = "retry" /\ key[p] = s)
       /\ status'[s] = "running" => ppc'[p] \in PassHolds /\ key'[p] = s
  /\ deaths' = 0 /\ ppc[p] \in PassHolds /\ status'[key[p]] = "running" /\ runStatus' = "running"
       => ppc'[p] \in PassHolds /\ key'[p] = key[p]

LEMMA PassesMove ==
  ASSUME EngineBase, NEW p \in Passes, BeginReplay(p) \/ PassStep(p) \/ Die(p)
  PROVE  PassMove(p)
<1>1. WorkerTypeOK /\ PassTypeOK /\ TimerTypeOK
  BY TypeParts DEF EngineBase
<1>2. ppc[p] \in AtKey => key[p] \in Steps
  BY DEF EngineBase, Honest, HonestPass, Minted
<1> USE <1>1, <1>2 DEF PassMove, WorkerTypeOK, PassTypeOK, TimerTypeOK, workerVars,
rows, queues,
        workerState, history, faults, contextVars, timerVars, budgetVars, PassGoto, AtKey,
        PassHolds
<1>3. ASSUME PassLeave(p), ppc[p] \notin PassHolds \/ deaths' # 0,
             UNCHANGED <<status, job, pc, at, armed, crashes, late>>, deaths' = deaths \/ deaths' = deaths + 1,
             runStatus' = runStatus \/ runStatus' # "running"
      PROVE  PassMove(p)
  BY <1>3 DEF PassLeave
<1>4. CASE BeginReplay(p) \/ ReadSteps(p) \/ EnterBody(p)
  <2>1. CASE BeginReplay(p)
    BY <2>1 DEF BeginReplay
  <2>2. CASE ReadSteps(p)
    BY <2>2 DEF ReadSteps
  <2>3. CASE EnterBody(p)
    BY <2>3 DEF EnterBody
  <2> QED BY <1>4, <2>1, <2>2, <2>3
<1>5. CASE CheckSettled(p)
  <2>1. CASE PassLeave(p)
    BY <1>3, <1>5, <2>1 DEF CheckSettled
  <2> QED BY <1>5, <2>1 DEF CheckSettled
<1>6. CASE Reach(p)
  <2>1. PICK k \in Steps : /\ key' = [key EXCEPT ![p] = k]
                           /\ \A s \in Steps : status'[s] # status[s] =>
                                status'[s] = "pending" /\ status[s] = "absent"
                           /\ UNCHANGED <<runStatus, queues, workerState, history, faults, timerVars, budgetVars>>
                           /\ ppc[p] = "call"
    BY <1>6 DEF Reach
  <2>2. PICK kind, r : Resolve(p, kind, r)
    BY <1>6 DEF Reach
  <2>3. /\ \A q \in Passes \ {p} : ppc'[q] = ppc[q]
        /\ ppc'[p] # "mark"
    BY <2>2, ResolveMoves, MoveTypes
  <2> QED BY SMTT(30), <2>1, <2>3
<1>7. CASE Dispatch(p)
  <2>1. CASE CallKind(p) = "queued"
    <3>1. EnqueueStep(key[p]) /\ armed' = armed
      BY <1>7, <2>1 DEF Dispatch
    <3>2. OnQueue(key[p])'
      <4>1. PICK j \in Jobs : job' = [job EXCEPT ![j] = StepJob(key[p])]
        BY <3>1, Enqueued
      <4>2. job'[j].state = "ready" /\ job'[j].owner = None /\ job'[j].step = key[p]
        BY <4>1 DEF StepJob, JobRecord
      <4>3. key' = key
        BY <1>7 DEF Dispatch
      <4> QED BY <4>2, <4>3 DEF OnQueue
    <3> QED BY <1>7, <3>1, <3>2 DEF Dispatch
  <2>2. CASE CallKind(p) # "queued"
    <3>1. armed' = [armed EXCEPT ![key[p]] = @ + 1] /\ job' = job
      BY <1>7, <2>2 DEF Dispatch
    <3>2. key[p] \in Steps /\ key' = key
      BY <1>7 DEF Dispatch
    <3>3. armed'[key[p]] > 0 /\ \A s \in Steps : armed'[s] >= armed[s]
      BY SMTT(30), <3>1, <3>2
    <3> QED BY <1>7, <3>1, <3>2, <3>3 DEF Dispatch
  <2> QED BY <2>1, <2>2
<1>8. CASE DispatchThrows(p)
  BY <1>8 DEF DispatchThrows
<1>9. CASE MarkScheduled(p)
  <2>1. PICK k \in Steps : k = key[p] /\ status' = [status EXCEPT ![k] = "scheduled"]
    BY <1>9 DEF MarkScheduled, setStepScheduled, SetStatus
  <2>2. /\ UNCHANGED <<runStatus, queues, workerState, crashes, key, timerVars, budgetVars>>
        /\ ppc[p] = "mark" /\ Parks(p)
    BY <1>9 DEF MarkScheduled
  <2>3. ppc'[p] # "mark" /\ \A q \in Passes \ {p} : ppc'[q] = ppc[q]
    BY <2>2, MoveTypes
  <2>4. /\ \A s \in Steps : late[s] > 0 => late'[s] > 0
        /\ status[k] \in {"pending", "scheduled"} \/ late'[k] > 0
    <3>1. late \in [Steps -> Nat] /\ late[k] + 1 \in Nat /\ late[k] + 1 > 0
      OBVIOUS
    <3>2. \/ late' = late /\ status[k] \in {"pending", "scheduled"}
          \/ late' = [late EXCEPT ![k] = late[k] + 1]
      BY <1>9, <2>1 DEF MarkScheduled, setStepScheduled
    <3> QED BY <3>1, <3>2
  <2> QED BY <2>1, <2>2, <2>3, <2>4
<1>10. CASE Park(p) \/ SuspendRunItself(p) \/ FailAgain(p) \/ FailDispatch(p) \/ Complete(p)
  <2>1. CASE Park(p)
    BY <1>3, <2>1 DEF Park
  <2>2. CASE SuspendRunItself(p)
    BY <1>3, <2>2 DEF SuspendRunItself
  <2>3. CASE FailAgain(p)
    BY <1>3, <2>3 DEF FailAgain
  <2>4. CASE FailDispatch(p)
    BY <1>3, <2>4 DEF FailDispatch
  <2>5. CASE Complete(p)
    BY <1>3, <2>5 DEF Complete
  <2> QED BY <1>10, <2>1, <2>2, <2>3, <2>4, <2>5
<1>11. CASE Begin(p) \/ OpenSuspension(p)
  <2>1. CASE Begin(p)
    BY <2>1 DEF Begin, SetStatus
  <2>2. CASE OpenSuspension(p)
    BY <2>2 DEF OpenSuspension, SetStatus
  <2> QED BY <1>11, <2>1, <2>2
<1>12. CASE BodyEnds(p)
  BY <1>12 DEF BodyEnds
<1>13. CASE StoreResult(p)
  <2>1. PICK k \in Steps : k = key[p] /\ status' = [status EXCEPT ![k] = "succeeded"]
    BY <1>13 DEF StoreResult, SetStatus
  <2>2. /\ UNCHANGED <<runStatus, queues, workerState, faults, key, timerVars, budgetVars>>
        /\ ppc[p] = "store" /\ Returns(p)
    BY <1>13 DEF StoreResult
  <2>3. ppc'[p] # "mark" /\ \A q \in Passes \ {p} : ppc'[q] = ppc[q]
    BY <2>2, MoveTypes
  <2> QED BY <2>1, <2>2, <2>3
<1>14. CASE StoreError(p) \/ RetryPending(p) \/ Rearm(p)
  <2>1. CASE StoreError(p)
    BY <2>1 DEF StoreError, SetStatus
  <2>2. CASE RetryPending(p)
    BY <2>2 DEF RetryPending, SetStatus
  <2>3. CASE Rearm(p)
    BY <2>3 DEF Rearm
  <2> QED BY <1>14, <2>1, <2>2, <2>3
<1>15. CASE RecordSuspension(p) \/ SuspendMissing(p) \/ FailRun(p)
  <2>1. CASE RecordSuspension(p)
    BY <2>1 DEF RecordSuspension, SetStatus
  <2>2. CASE SuspendMissing(p)
    BY <2>2 DEF SuspendMissing, SetStatus
  <2>3. CASE FailRun(p)
    BY <2>3 DEF FailRun
  <2> QED BY <1>15, <2>1, <2>2, <2>3
<1>16. CASE Die(p)
  BY <1>3, <1>16 DEF Die
<1> QED BY <1>4, <1>5, <1>6, <1>7, <1>8, <1>9, <1>10, <1>11, <1>12, <1>13, <1>14, <1>15,
           <1>16
        DEF PassStep

\* A pass dispatches only what it reached as a step for a worker or a timer.
LEMMA PassesFit ==
  ASSUME HandInv, NEW p \in Passes, BeginReplay(p) \/ PassStep(p) \/ Die(p)
  PROVE  KindsFit'
<1> DEFINE given == {"dispatch", "mark"}
           own == {"begin", "body", "store", "raise", "retry"}
<1>1. PassTypeOK /\ KindsFit
  BY TypeParts DEF HandInv, EngineBase
<1>2. CASE Reach(p)
  <2>1. PICK k \in Steps, r \in [status : StepStatus \ {"absent"}, attempt : Nat] :
          /\ k = StepKey(CallName(p), ordinals[Ctx(p)][CallName(p)])
          /\ key' = [key EXCEPT ![p] = k]
          /\ Resolve(p, Kind[CallName(p)], r)
    BY <1>2, ReachFacts DEF HandInv
  <2>2. key'[p] = k /\ k[1] = CallName(p) /\ CallKind(p)' = Kind[CallName(p)]
    BY <1>1, <2>1 DEF StepKey, PassTypeOK, CallKind
  <2>3. /\ ppc'[p] \in given => Kind[CallName(p)] \in {"queued", "sleep"}
        /\ ppc'[p] \in own => Kind[CallName(p)] \notin {"queued", "sleep"}
        /\ \A q \in Passes \ {p} : ppc'[q] = ppc[q]
    <3>1. CASE Returns(p) \/ Parks(p) \/ Fails(p)
      BY <1>1, <3>1, MoveTypes
    <3>2. CASE ~(Returns(p) \/ Parks(p) \/ Fails(p))
      BY <1>1, <2>1, <3>2 DEF Resolve, PassGoto, PassTypeOK
    <3> QED BY <3>1, <3>2
  <2>4. \A q \in Passes \ {p} : key'[q] = key[q]
    BY <1>1, <2>1 DEF PassTypeOK
  <2> QED BY <1>1, <2>2, <2>3, <2>4 DEF KindsFit, CallKind
<1>3. ASSUME ~Reach(p)
      PROVE  /\ \A q \in Passes \ {p} : ppc'[q] = ppc[q] /\ key'[q] = key[q]
             /\ ppc'[p] \in given => ppc[p] \in given /\ key'[p] = key[p]
             /\ ppc'[p] \in own => ppc[p] \in own /\ key'[p] = key[p]
  <2> USE <1>1 DEF PassTypeOK, PassGoto, contextVars
  <2>1. CASE PassLeave(p)
    BY <2>1 DEF PassLeave
  <2>2. CASE BeginReplay(p) \/ ReadSteps(p) \/ EnterBody(p) \/ Dispatch(p) \/ DispatchThrows(p)
    BY <2>2 DEF BeginReplay, ReadSteps, EnterBody, Dispatch, DispatchThrows
  <2>3. CASE MarkScheduled(p) \/ StoreResult(p)
    <3>1. (Parks(p) \/ Returns(p)) /\ key' = key
      BY <2>3 DEF MarkScheduled, StoreResult
    <3> QED BY <3>1, MoveTypes
  <2>4. CASE Begin(p) \/ BodyEnds(p) \/ StoreError(p) \/ RetryPending(p) \/ Rearm(p)
    BY <2>4 DEF Begin, BodyEnds, StoreError, RetryPending, Rearm
  <2>5. CASE OpenSuspension(p) \/ RecordSuspension(p) \/ SuspendMissing(p) \/ FailRun(p)
    BY <2>5 DEF OpenSuspension, RecordSuspension, SuspendMissing, FailRun
  <2>6. CASE CheckSettled(p) /\ ~PassLeave(p)
    BY <2>6 DEF CheckSettled
  <2> QED BY <1>3, <2>1, <2>2, <2>3, <2>4, <2>5, <2>6
          DEF PassStep, Park, SuspendRunItself, FailAgain, FailDispatch, Complete, Die
<1>4. CASE ~Reach(p)
  <2> HIDE DEF given, own
  <2>1. \A q \in Passes : /\ ppc'[q] \in given => ppc[q] \in given /\ key'[q] = key[q]
                          /\ ppc'[q] \in own => ppc[q] \in own /\ key'[q] = key[q]
    BY <1>3, <1>4
  <2>2. \A q \in Passes : /\ ppc[q] \in given => CallKind(q) \in {"queued", "sleep"}
                          /\ ppc[q] \in own => CallKind(q) \notin {"queued", "sleep"}
    BY <1>1 DEF KindsFit, given, own
  <2>3. \A q \in Passes : /\ ppc'[q] \in given => CallKind(q)' \in {"queued", "sleep"}
                          /\ ppc'[q] \in own => CallKind(q)' \notin {"queued", "sleep"}
    BY <2>1, <2>2 DEF CallKind
  <2> QED BY <2>3 DEF KindsFit, given, own
<1> QED BY <1>2, <1>4

\* A pass hands a step over before it marks it, and stays at the step it runs.
LEMMA PassesAttend ==
  ASSUME HandInv, NEW p \in Passes, BeginReplay(p) \/ PassStep(p) \/ Die(p)
  PROVE  KindsFit' /\ (Tended => Tended')
<1>1. PassMove(p) /\ TypeOK
  BY PassesMove DEF HandInv, EngineBase
<1>2. \A s : OnQueue(s) => OnQueue(s)'
  <2>1. ASSUME NEW s, OnQueue(s) PROVE OnQueue(s)'
    <3>1. PICK j \in Jobs : job[j].state = "ready" /\ job[j].owner = None /\ job[j].step = s
      BY <2>1 DEF OnQueue
    <3>2. ASSUME NEW k \in Steps, EnqueueStep(k) PROVE job'[j] = job[j]
      BY <1>1, <3>1, <3>2, Enqueued DEF FreeJob, JobRecord, TypeOK, WorkerTypeOK
    <3>3. job'[j] = job[j]
      BY <1>1, <3>2 DEF PassMove
    <3> QED BY <3>1, <3>3 DEF OnQueue
  <2> QED BY <2>1
<1>3. \A s \in Steps : armed[s] > 0 => armed'[s] > 0
  <2>1. ASSUME NEW s \in Steps, armed[s] > 0 PROVE armed'[s] > 0
    <3>1. armed'[s] >= armed[s] /\ armed[s] \in Nat /\ armed'[s] \in Nat
      <4>1. TypeOK'
        BY EngineKeeps DEF HandInv, EngineBase, Next
      <4> QED BY <1>1, <4>1 DEF PassMove, TypeOK
    <3> QED BY <2>1, <3>1
  <2> QED BY <2>1
<1>4. KindsFit'
  BY PassesFit
<1>5. \A s \in Steps : Awaited(s) \/ late[s] > 0 => Awaited(s)' \/ late'[s] > 0
  BY <1>1, <1>2, <1>3 DEF Awaited, PassMove
<1>6. ASSUME Tended, crashes' = 0, deaths' = 0 PROVE HandedOver' /\ \A s \in Steps : Attended(s)'
  <2>1. HandedOver /\ \A s \in Steps : Attended(s)
    BY <1>1, <1>6 DEF Tended, PassMove
  <2>2. ASSUME NEW q \in Passes, ppc'[q] = "mark", status'[key'[q]] = "pending"
        PROVE  (Awaited(key[q]) \/ late[key[q]] > 0)'
    <3>1. PICK k : k = key[q]
      OBVIOUS
    <3>2. CASE q = p
      <4>1. key'[p] = key[p] /\ (OnQueue(key[p])' \/ armed'[key[p]] > 0)
        BY <1>1, <2>2, <3>2 DEF PassMove
      <4> QED BY <3>2, <4>1 DEF Awaited, OnQueue
    <3>3. CASE q # p
      <4>1. ppc[q] = "mark" /\ key'[q] = k /\ key[q] = k
        BY <1>1, <2>2, <3>1, <3>3 DEF PassMove
      <4>2. k \in Steps /\ status[k] # "absent" /\ status'[k] = "pending"
        BY <2>2, <4>1 DEF HandInv, EngineBase, Honest, HonestPass, AtKey, Minted
      <4>3. ~(ppc[p] = "retry" /\ key[p] = k)
        BY <4>1 DEF HandInv, KindsFit, CallKind
      <4>4. status[k] = "pending"
        BY <1>1, <4>2, <4>3 DEF PassMove
      <4>5. Awaited(k)' \/ late'[k] > 0
        BY <1>5, <2>1, <4>1, <4>2, <4>4 DEF HandedOver
      <4> QED BY <4>1, <4>5 DEF Awaited, OnQueue
    <3> QED BY <3>2, <3>3
  <2>3. ASSUME NEW s \in Steps, status'[s] = "scheduled" PROVE Awaited(s)' \/ late'[s] > 0
    <3>1. CASE status[s] = "scheduled"
      BY <1>5, <2>1, <3>1 DEF Attended
    <3>2. CASE status[s] # "scheduled"
      <4>1. ppc[p] = "mark" /\ key[p] = s /\ (status[s] = "pending" \/ late'[s] > 0)
        BY <1>1, <2>3, <3>2 DEF PassMove
      <4>2. status[s] = "pending" => Awaited(s) \/ late[s] > 0
        BY <2>1, <4>1 DEF HandedOver
      <4> QED BY <1>5, <4>1, <4>2
    <3> QED BY <3>1, <3>2
  <2>4. ASSUME NEW s \in Steps, status'[s] = "running", runStatus' = "running" PROVE InHand(s)'
    <3>1. CASE status[s] # "running"
      BY <1>1, <2>4, <3>1 DEF PassMove, InHand
    <3>2. CASE status[s] = "running"
      <4>1. InHand(s)
        BY <1>1, <2>1, <2>4, <3>2 DEF PassMove, Attended
      <4>2. CASE \E w \in Workers : pc[w] \in WorkerHolds /\ at[w] = s
        BY <1>1, <4>2 DEF PassMove, InHand
      <4>3. ASSUME NEW q \in Passes, ppc[q] \in PassHolds, key[q] = s
            PROVE  ppc'[q] \in PassHolds /\ key'[q] = s
        BY <1>1, <1>6, <2>4, <4>3 DEF PassMove
      <4> QED BY <4>1, <4>2, <4>3 DEF InHand
    <3> QED BY <3>1, <3>2
  <2> QED BY <2>2, <2>3, <2>4 DEF HandedOver, Attended
<1> QED BY <1>4, <1>6 DEF Tended

\* Whatever leaves workers, passes and the timers of other steps alone.
LEMMA TimersAttend ==
  ASSUME HandInv,
         \/ \E s \in Steps : SleepDone(s) \/ SleepResume(s)
         \/ Sweep \/ UserResume
         \/ \E w \in Workers : Crash(w) /\ UNCHANGED engineVars
         \/ \E j \in Jobs : Redeliver(j) /\ UNCHANGED engineVars
         \/ UNCHANGED vars
  PROVE  KindsFit' /\ (Tended => Tended')
<1> USE DEF workerVars, rows, queues, workerState, history, faults, contextVars, passVars,
            timerVars, budgetVars, engineVars
<1>1. TypeOK
  BY DEF HandInv, EngineBase
<1>2. UNCHANGED <<runStatus, ppc, key, deaths, late>>
  BY DEF SleepDone, SleepResume, Sweep, UserResume, Crash, Redeliver, vars
<1>3. ASSUME crashes' = 0 PROVE crashes = 0 /\ UNCHANGED <<pc, at>>
  BY <1>1, <1>3 DEF SleepDone, SleepResume, Sweep, UserResume, Crash, Redeliver, vars,
     TypeOK,
     WorkerTypeOK
<1>4. \A s : OnQueue(s) => OnQueue(s)'
  <2>1. ASSUME NEW j \in Jobs, job[j].state = "ready" PROVE job'[j] = job[j]
    BY <1>1, <2>1 DEF SleepDone, SleepResume, Sweep, UserResume, Crash, Redeliver, vars,
       TypeOK,
       WorkerTypeOK
  <2> QED BY <2>1 DEF OnQueue
<1>5. ASSUME NEW s \in Steps, armed[s] > 0
      PROVE  armed'[s] > 0 \/ status'[s] = "succeeded"
  <2>1. CASE armed' = armed
    BY <1>5, <2>1
  <2>2. ASSUME NEW t \in Steps, SleepDone(t), t # s PROVE armed'[s] = armed[s]
    BY <1>1, <2>2 DEF SleepDone, TypeOK
  <2>3. CASE SleepDone(s)
    BY <1>1, <2>3 DEF SleepDone, SetStatus, TypeOK, WorkerTypeOK
  <2>4. armed' = armed \/ \E t \in Steps : SleepDone(t)
    BY DEF SleepResume, Sweep, UserResume, Crash, Redeliver, vars
  <2> QED BY <1>5, <2>1, <2>2, <2>3, <2>4
<1>6. \A s \in Steps : status'[s] = status[s] \/ status'[s] = "succeeded"
  BY <1>1 DEF SleepDone, SleepResume, Sweep, UserResume, Crash, Redeliver, vars, TypeOK,
     WorkerTypeOK, SetStatus
<1>7. KindsFit'
  BY <1>2 DEF HandInv, KindsFit, CallKind
<1>8. ASSUME Tended, crashes' = 0, deaths' = 0 PROVE HandedOver' /\ \A s \in Steps : Attended(s)'
  <2>1. HandedOver /\ \A s \in Steps : Attended(s)
    BY <1>2, <1>3, <1>8 DEF Tended
  <2>2. ASSUME NEW s \in Steps, status'[s] # "succeeded", Awaited(s) PROVE Awaited(s)'
    BY <1>3, <1>4, <1>5, <1>8, <2>2 DEF Awaited
  <2>3. ASSUME NEW p \in Passes, ppc'[p] = "mark", status'[key'[p]] = "pending"
        PROVE  (Awaited(key[p]) \/ late[key[p]] > 0)'
    <3>1. PICK k \in Steps : k = key[p] /\ key'[p] = k
      BY <1>2, <2>3 DEF HandInv, EngineBase, Honest, HonestPass, AtKey, Minted
    <3>2. status'[k] = "pending" /\ (Awaited(k) \/ late[k] > 0)
      BY <1>2, <1>6, <2>1, <2>3, <3>1 DEF HandedOver
    <3>3. Awaited(k)' \/ late'[k] > 0
      BY <1>2, <2>2, <3>2
    <3> QED BY <1>2, <3>1, <3>3 DEF Awaited, OnQueue
  <2>4. ASSUME NEW s \in Steps PROVE Attended(s)'
    <3>1. Attended(s)
      BY <2>1
    <3>2. status'[s] = "scheduled" => Awaited(s)' \/ late'[s] > 0
      BY <1>2, <1>6, <2>2, <3>1 DEF Attended
    <3>3. InHand(s) => InHand(s)'
      BY <1>2, <1>3, <1>8 DEF InHand
    <3> QED BY <1>2, <1>6, <3>1, <3>2, <3>3 DEF Attended
  <2> QED BY <2>3, <2>4 DEF HandedOver
<1> QED BY <1>7, <1>8 DEF Tended

\* Whatever the run does, every pass works on steps of the kind it should, and
\* what was attended stays attended.
LEMMA HandKeeps ==
  ASSUME HandInv, [Next]_vars
  PROVE  HandInv' /\ (Tended => Tended')
<1>1. EngineBase'
  BY EngineKeeps DEF HandInv
<1> SUFFICES KindsFit' /\ (Tended => Tended')
  BY <1>1 DEF HandInv
<1>2. CASE \E p \in Passes : BeginReplay(p) \/ PassStep(p) \/ Die(p)
  BY <1>2, PassesAttend
<1>3. CASE \E w \in Workers : WorkerStep(w) \/ \E j \in Jobs : DeliverStep(w, j)
  BY <1>3, WorkersAttend, DeliveriesAttend
<1>4. CASE \/ \E w \in Workers : Crash(w) /\ UNCHANGED engineVars
           \/ \E j \in Jobs : Redeliver(j) /\ UNCHANGED engineVars
           \/ \E s \in Steps : SleepDone(s) \/ SleepResume(s)
           \/ Sweep \/ UserResume \/ UNCHANGED vars
  BY <1>4, TimersAttend
<1> QED BY <1>2, <1>3, <1>4 DEF Next

\* While no process has died, a run that is alive and has nothing in flight
\* holds no step that waits for anybody: a refused wake, a lost answer of a slow
\* worker, overlapping replays, shared contexts or a job that is done before its
\* step is marked leave it where the stalled sweep looks - unless a row was
\* marked scheduled behind its worker or timer, and says so still.
THEOREM NothingParked == Spec => [](crashes = 0 /\ deaths = 0 => NeverParkedForGood)
<1>1. Init => AttendInv
  <2>1. Init => KindsFit /\ HandedOver /\ \A s \in Steps : Attended(s)
    BY DEF Init, KindsFit, HandedOver, Attended
  <2> QED BY <2>1, EngineStarts DEF AttendInv, HandInv, Tended
<1>2. AttendInv /\ [Next]_vars => AttendInv'
  BY HandKeeps DEF AttendInv
<1>3. AttendInv => (crashes = 0 /\ deaths = 0 => NeverParkedForGood)
  <2> SUFFICES ASSUME AttendInv, crashes = 0, deaths = 0, Quiet, runStatus = "running",
                      ~\E s \in Steps : status[s] = "scheduled" /\ late[s] > 0
               PROVE  Stalled
    BY DEF NeverParkedForGood
  <2>1. \A s \in Steps : ~Awaited(s) /\ ~InHand(s)
    BY DEF Quiet, Awaited, InHand, OnQueue, WorkerHolds, PassHolds
  <2> QED BY <2>1 DEF AttendInv, Tended, Attended, Stalled
<1> QED BY <1>1, <1>2, <1>3, PTL DEF Spec
================================================================================
