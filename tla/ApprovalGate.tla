----------------------------- MODULE ApprovalGate -----------------------------
(***************************************************************************)
(* One approval gate of a durable run: people answer it from outside       *)
(* (recordApprovalDecision) while replays of the run judge it from inside  *)
(* (evaluateApprovalStep).  Both sides read the gate's record in run state *)
(* and later write the whole record back, with awaits in between.          *)
(*                                                                         *)
(* Replays exclude each other at the gate: it is evaluated under           *)
(* withStepLock on a store whose lock excludes.  What a replay writes of   *)
(* the run after that, and answers, take no lock.                          *)
(***************************************************************************)
EXTENDS Naturals

CONSTANTS
  Approvers,  \* each answers the gate at most once
  Forbidden,  \* those the gate's policy refuses
  Invalid,    \* those whose payload the gate's schema refuses
  HasExpiry,  \* does the gate declare an expiry?
  Passes,     \* orchestrator slots
  None,       \* no answer
  MaxFaults   \* bound on dead passes and refused queue calls

ASSUME GateAssumption ==
  /\ Forbidden \cup Invalid \subseteq Approvers
  /\ HasExpiry \in BOOLEAN
  /\ MaxFaults \in Nat
  /\ None \notin Approvers /\ "expired" \notin Approvers \cup {None}

VARIABLES
  runStatus,  \* status of the run row
  gate,       \* status of the approval's step row
  outcome,    \* the step's result: an answer, "expired", or None
  record,     \* run state: the ApprovalRecord under approvalStateKey
  due,        \* is the deadline that was stamped over?
  stamped,    \* was one ever stamped?
  wakes,      \* orchestrator jobs
  alarm,      \* delayed orchestrator jobs of scheduleRunWake
  apc, asaw,  \* where each approver's call stands; the record it read
  ppc, psaw,  \* the same of each replay
  found,      \* the status each replay loaded the step with
  fate,       \* history: what became of each answer
  faults

run == <<runStatus, wakes, alarm>>
gateRow == <<gate, outcome>>
clock == <<due, stamped>>
callers == <<apc, asaw>>
replays == <<ppc, psaw, found>>
vars == <<run, gateRow, record, clock, callers, replays, fate, faults>>

Record == [decision : Approvers \cup {None}, policy : BOOLEAN, expiresAt : BOOLEAN]
Empty == [decision |-> None, policy |-> FALSE, expiresAt |-> FALSE]

CallerGoto(a, l) == apc' = [apc EXCEPT ![a] = l]
PassGoto(p, l) == ppc' = [ppc EXCEPT ![p] = l]
PassLeave(p) == /\ PassGoto(p, "idle")
                /\ psaw' = [psaw EXCEPT ![p] = Empty]
                /\ found' = [found EXCEPT ![p] = None]

Settled_Never == FALSE
\* The step row already holds the gate's outcome.
Settled == gate = "succeeded"

Refused_Never(a) == FALSE
\* approvalPolicyRefusal and the schema, as judged inside the workflow.
Refused(a) == a \in Forbidden
Malformed(a) == a \in Invalid

Expired_OnWake(r) == r.expiresAt
\* Expiry is decided from the recorded deadline.
Expired(r) == r.expiresAt /\ due

--------------------------------------------------------------------------------
\* recordApprovalDecision: an answer for a resolved gate is refused.
Submit(a) ==
  /\ apc[a] = "idle"
  /\ CallerGoto(a, IF Settled THEN "resolved" ELSE "read")
  /\ UNCHANGED <<run, gateRow, record, clock, asaw, replays, fate, faults>>

\* getRunState; a published policy is applied at once.
ReadState(a) ==
  /\ apc[a] = "read"
  /\ IF record.policy /\ Refused(a)
     THEN CallerGoto(a, "forbidden") /\ UNCHANGED asaw
     ELSE CallerGoto(a, "write") /\ asaw' = [asaw EXCEPT ![a] = record]
  /\ UNCHANGED <<run, gateRow, record, clock, replays, fate, faults>>

\* updateRunState with the record that was read and the answer: the caller is
\* told that the answer was taken.
WriteDecision(a) ==
  /\ apc[a] = "write"
  /\ record' = [asaw[a] EXCEPT !.decision = a]
  /\ fate' = [b \in Approvers |-> IF b = a THEN "recorded"
                                  ELSE IF b = record.decision THEN "replaced"
                                  ELSE fate[b]]
  /\ asaw' = [asaw EXCEPT ![a] = Empty]
  /\ CallerGoto(a, "wake")
  /\ UNCHANGED <<run, gateRow, clock, replays, faults>>

\* resumeWorkflow, which may throw.
WakeRun(a) ==
  /\ apc[a] = "wake"
  /\ \/ wakes' = wakes + 1 /\ UNCHANGED faults
     \/ faults < MaxFaults /\ faults' = faults + 1 /\ UNCHANGED wakes
  /\ CallerGoto(a, "done")
  /\ UNCHANGED <<runStatus, alarm, gateRow, record, clock, asaw, replays, fate>>

--------------------------------------------------------------------------------
\* A replay starts unless the run is settled.
BeginReplay(p) ==
  /\ ppc[p] = "idle"
  /\ wakes > 0
  /\ wakes' = wakes - 1
  /\ PassGoto(p, IF runStatus = "completed" THEN "idle" ELSE "lock")
  /\ UNCHANGED <<runStatus, alarm, gateRow, record, clock, callers, psaw, found,
                 fate, faults>>

\* The replay reaches the gate, takes its lock and loads or inserts the step.
ReachGate(p) ==
  /\ ppc[p] = "lock"
  /\ \A q \in Passes : ppc[q] \in {"idle", "lock", "suspend", "finish"}
  /\ IF Settled
     THEN PassGoto(p, "finish") /\ UNCHANGED <<gate, found>>
     ELSE /\ gate' = IF gate = "absent" THEN "pending" ELSE gate
          /\ found' = [found EXCEPT ![p] = gate']
          /\ PassGoto(p, "record")
  /\ UNCHANGED <<run, outcome, record, clock, callers, psaw, fate, faults>>

\* getRunState.
ReadRecord(p) ==
  /\ ppc[p] = "record"
  /\ psaw' = [psaw EXCEPT ![p] = record]
  /\ PassGoto(p, IF found[p] = "pending" THEN "open" ELSE "judge")
  /\ UNCHANGED <<run, gateRow, record, clock, callers, found, fate, faults>>

\* First reach: setStepRunning.
OpenGate(p) ==
  /\ ppc[p] = "open"
  /\ gate' = "running"
  /\ PassGoto(p, "stamp")
  /\ UNCHANGED <<run, outcome, record, clock, callers, psaw, found, fate, faults>>

\* First reach: the policy and, once, the deadline are put into the record.
Stamp(p) ==
  /\ ppc[p] = "stamp"
  /\ LET first == HasExpiry /\ ~psaw[p].expiresAt
     IN /\ psaw' = [psaw EXCEPT ![p].policy = TRUE,
                                ![p].expiresAt = psaw[p].expiresAt \/ HasExpiry]
        /\ record' = psaw'[p]
        /\ stamped' = (stamped \/ first)
        /\ PassGoto(p, IF first THEN "alarm" ELSE "judge")
  /\ UNCHANGED <<run, gateRow, due, callers, found, fate, faults>>

delayedJob_Lost == UNCHANGED alarm
\* The delayed orchestrator job of scheduleRunWake.
delayedJob == alarm' = alarm + 1

\* scheduleRunWake swallows a queue that refuses the job.
SetAlarm(p) ==
  /\ ppc[p] = "alarm"
  /\ \/ delayedJob /\ UNCHANGED faults
     \/ faults < MaxFaults /\ faults' = faults + 1 /\ UNCHANGED alarm
  /\ PassGoto(p, "judge")
  /\ UNCHANGED <<runStatus, wakes, gateRow, record, clock, callers, psaw, found, fate>>

\* What the replay makes of the record it holds.
Judge(p) ==
  /\ ppc[p] = "judge"
  /\ LET d == psaw[p].decision
     IN PassGoto(p, IF d # None
                    THEN IF Refused(d) \/ Malformed(d) THEN "clear" ELSE "settle"
                    ELSE IF Expired(psaw[p]) THEN "expire" ELSE "suspend")
  /\ UNCHANGED <<run, gateRow, record, clock, callers, psaw, found, fate, faults>>

\* A refused or malformed answer is dropped, the rest written back as read.
ClearDecision(p) ==
  /\ ppc[p] = "clear"
  /\ record' = [psaw[p] EXCEPT !.decision = None]
  /\ fate' = [fate EXCEPT ![psaw[p].decision] = "judged"]
  /\ PassGoto(p, "suspend")
  /\ UNCHANGED <<run, gateRow, clock, callers, psaw, found, faults>>

\* setStepResult with the answer, or with the expiry.
SettleGate(p) ==
  /\ ppc[p] \in {"settle", "expire"}
  /\ gate' = "succeeded"
  /\ outcome' = IF ppc[p] = "settle" THEN psaw[p].decision ELSE "expired"
  /\ fate' = [a \in Approvers |-> IF a = outcome' THEN "settled" ELSE fate[a]]
  /\ PassGoto(p, "finish")
  /\ UNCHANGED <<run, record, clock, callers, psaw, found, faults>>

\* WorkflowSuspendedException: the run waits for an answer or the alarm.
Suspend(p) ==
  /\ ppc[p] = "suspend"
  /\ runStatus' = "suspended"
  /\ PassLeave(p)
  /\ UNCHANGED <<wakes, alarm, gateRow, record, clock, callers, fate, faults>>

\* The gate returned its outcome and the body ran to its end.
Finish(p) ==
  /\ ppc[p] = "finish"
  /\ runStatus' = "completed"
  /\ PassLeave(p)
  /\ UNCHANGED <<wakes, alarm, gateRow, record, clock, callers, fate, faults>>

\* The replay's process dies; the queue hands its job out again.
Die(p) ==
  /\ ppc[p] # "idle"
  /\ faults < MaxFaults
  /\ faults' = faults + 1
  /\ wakes' = wakes + 1
  /\ PassLeave(p)
  /\ UNCHANGED <<runStatus, alarm, gateRow, record, clock, callers, fate>>

--------------------------------------------------------------------------------
\* The deadline goes by.
DeadlinePasses ==
  /\ stamped /\ ~due
  /\ due' = TRUE
  /\ UNCHANGED <<run, gateRow, record, stamped, callers, replays, fate, faults>>

Ringing_Always == TRUE
\* A delayed job becomes an ordinary one once its delay is over.
Ringing == alarm > 0 /\ due

AlarmRings ==
  /\ Ringing
  /\ alarm' = alarm - 1
  /\ wakes' = wakes + 1
  /\ UNCHANGED <<runStatus, gateRow, record, clock, callers, replays, fate, faults>>

CallStep(a) == ReadState(a) \/ WriteDecision(a) \/ WakeRun(a)
PassStep(p) ==
  \/ BeginReplay(p) \/ ReachGate(p) \/ ReadRecord(p) \/ OpenGate(p) \/ Stamp(p)
  \/ SetAlarm(p) \/ Judge(p) \/ ClearDecision(p) \/ SettleGate(p)
  \/ Suspend(p) \/ Finish(p)

Init ==
  /\ runStatus = "running" /\ wakes = 1 /\ alarm = 0
  /\ gate = "absent" /\ outcome = None
  /\ record = Empty
  /\ due = FALSE /\ stamped = FALSE
  /\ apc = [a \in Approvers |-> "idle"] /\ asaw = [a \in Approvers |-> Empty]
  /\ ppc = [p \in Passes |-> "idle"] /\ psaw = [p \in Passes |-> Empty]
  /\ found = [p \in Passes |-> None]
  /\ fate = [a \in Approvers |-> "none"]
  /\ faults = 0

Next ==
  \/ \E a \in Approvers : Submit(a) \/ CallStep(a)
  \/ \E p \in Passes : PassStep(p) \/ Die(p)
  \/ DeadlinePasses \/ AlarmRings

Spec == Init /\ [][Next]_vars

\* Calls that were started are carried on, replays run, and time passes; nobody
\* has to answer, die or fail.
Fairness == /\ \A a \in Approvers : WF_vars(CallStep(a))
            /\ \A p \in Passes : WF_vars(PassStep(p))
            /\ WF_vars(DeadlinePasses) /\ WF_vars(AlarmRings)
FairSpec == Spec /\ Fairness

--------------------------------------------------------------------------------
\* Type invariant of the gate, its record, the answers and the replays.
TypeOK ==
  /\ runStatus \in {"running", "suspended", "completed"}
  /\ wakes \in Nat /\ alarm \in Nat /\ faults \in 0..MaxFaults
  /\ gate \in {"absent", "pending", "running", "succeeded"}
  /\ outcome \in Approvers \cup {None, "expired"}
  /\ record \in Record /\ due \in BOOLEAN /\ stamped \in BOOLEAN
  /\ apc \in [Approvers -> {"idle", "read", "write", "wake", "done", "resolved", "forbidden"}]
  /\ asaw \in [Approvers -> Record]
  /\ ppc \in [Passes -> {"idle", "lock", "record", "open", "stamp", "alarm", "judge",
                         "clear", "settle", "expire", "suspend", "finish"}]
  /\ psaw \in [Passes -> Record]
  /\ found \in [Passes -> {None, "pending", "running"}]
  /\ fate \in [Approvers -> {"none", "recorded", "replaced", "judged", "settled"}]

\* "Judging on replay is what makes the policy hold in every ordering": nobody
\* the policy or the schema refuses ever decides the gate, even if they answered
\* before the run had reached it.
OnlyTheEntitledDecide == outcome \notin Forbidden \cup Invalid

\* Expiry is decided from the recorded deadline, so an early, duplicate or
\* unrelated wake never expires the gate.
ExpiredOnlyPastDeadline == outcome = "expired" => due

\* The gate's outcome never changes once it is known, whichever answers, deaths
\* and replays follow.
OutcomeIsFinal == [][outcome # None => outcome' = outcome]_vars

\* A gate with an expiry is settled in the end whether or not anyone answers,
\* unless a fault loses its alarm or a refused answer undoes its deadline.
Undisturbed == [](faults = 0 /\ \A a \in Forbidden \cup Invalid : apc[a] = "idle")
GateSettles == HasExpiry /\ Undisturbed => <>(runStatus = "completed")

\* "A later valid decision still lands normally": an answer whose caller was
\* told it was taken stays in the record until a replay judges it, settles the
\* gate with it, or another answer takes its place.
NoAnswerVanishes == \A a \in Approvers : fate[a] = "recorded" => record.decision = a
================================================================================
