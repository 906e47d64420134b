--------------------------- MODULE ApprovalGateProofs ---------------------------
(***************************************************************************)
(* Proofs about an approval gate, for any number of approvers and replays, *)
(* any policy and schema, with and without an expiry, and every number of  *)
(* deaths and refused jobs.                                                *)
(*                                                                         *)
(* The argument: one replay at a time is behind the gate's lock, and while *)
(* it is, nobody else settles the gate; what it settles the gate with is   *)
(* what it judged, in the record it holds.                                 *)
(***************************************************************************)
EXTENDS ApprovalGate, TLAPS

\* A replay behind the gate's lock.
Inside(p) == ppc[p] \notin {"idle", "lock", "suspend", "finish"}
OneInside == \A p, q \in Passes : p # q => ~(Inside(p) /\ Inside(q))

\* What a replay has judged of the record it holds.
Judged(p) ==
  /\ ppc[p] = "clear" => psaw[p].decision \in Approvers
  /\ ppc[p] = "settle" => psaw[p].decision \in Approvers \ (Forbidden \cup Invalid)
  /\ ppc[p] = "expire" => due

\* A replay that is still to settle the gate finds it open.
Open == \A p \in Passes : Inside(p) => ~Settled
Unsettled == ~Settled => outcome = None

Safe == OneInside /\ (\A p \in Passes : Judged(p)) /\ Open /\ Unsettled
        /\ OnlyTheEntitledDecide /\ ExpiredOnlyPastDeadline
IInv == TypeOK /\ Safe
--------------------------------------------------------------------------------
\* At the start nobody has answered and no replay runs.
LEMMA InitIInv == Init => IInv
<1> SUFFICES ASSUME Init PROVE IInv
  OBVIOUS
<1>1. Empty \in Record
  BY DEF Empty, Record
<1>2. TypeOK
  <2>1. /\ faults \in 0..MaxFaults /\ wakes \in Nat /\ alarm \in Nat
        /\ runStatus \in {"running", "suspended", "completed"}
    BY GateAssumption DEF Init
  <2>2. /\ gate \in {"absent", "pending", "running", "succeeded"}
        /\ outcome \in Approvers \cup {None, "expired"}
        /\ record \in Record /\ due \in BOOLEAN /\ stamped \in BOOLEAN
    BY <1>1 DEF Init
  <2> QED BY <1>1, <2>1, <2>2 DEF Init, TypeOK
<1>3. Safe
  BY GateAssumption DEF Init, Safe, OneInside, Inside, Judged, Open, Settled, Unsettled,
     OnlyTheEntitledDecide, ExpiredOnlyPastDeadline
<1> QED BY <1>2, <1>3 DEF IInv

\* The types a record, an answer and a replay keep.
LEMMA TypeStep ==
  ASSUME IInv, [Next]_vars
  PROVE  TypeOK'
<1> USE GateAssumption DEF IInv, TypeOK, Record
<1>a. Empty \in Record
  BY DEF Empty
<1>0. CASE UNCHANGED vars
  BY <1>0 DEF vars, run, gateRow, clock, callers, replays
<1>1. ASSUME NEW a \in Approvers, Submit(a) PROVE TypeOK'
  BY <1>1 DEF Submit, CallerGoto, run, gateRow, clock, replays
<1>2. ASSUME NEW a \in Approvers, ReadState(a) PROVE TypeOK'
  BY SMTT(30), <1>2 DEF ReadState, CallerGoto, run, gateRow, clock, replays
<1>3. ASSUME NEW a \in Approvers, WriteDecision(a) PROVE TypeOK'
  <2>1. record' \in Record /\ asaw' \in [Approvers -> Record]
    BY <1>3, <1>a DEF WriteDecision
  <2> QED BY <1>3, <2>1 DEF WriteDecision, CallerGoto, run, gateRow, clock, replays
<1>4. ASSUME NEW a \in Approvers, WakeRun(a) PROVE TypeOK'
  BY <1>4 DEF WakeRun, CallerGoto, gateRow, clock, replays
<1>5. ASSUME NEW p \in Passes, BeginReplay(p) PROVE TypeOK'
  BY <1>5 DEF BeginReplay, PassGoto, gateRow, clock, callers
<1>6. ASSUME NEW p \in Passes, ReachGate(p) PROVE TypeOK'
  BY <1>6 DEF ReachGate, PassGoto, Settled, run, clock, callers
<1>7. ASSUME NEW p \in Passes, ReadRecord(p) PROVE TypeOK'
  BY <1>7 DEF ReadRecord, PassGoto, run, gateRow, clock, callers
<1>8. ASSUME NEW p \in Passes, OpenGate(p) PROVE TypeOK'
  BY <1>8 DEF OpenGate, PassGoto, run, clock, callers
<1>9. ASSUME NEW p \in Passes, Stamp(p) PROVE TypeOK'
  <2>1. psaw' \in [Passes -> Record] /\ record' \in Record /\ stamped' \in BOOLEAN
    BY ZenonT(40), <1>9 DEF Stamp
  <2> QED BY <1>9, <2>1 DEF Stamp, PassGoto, run, gateRow, callers
<1>10. ASSUME NEW p \in Passes, SetAlarm(p) PROVE TypeOK'
  BY <1>10 DEF SetAlarm, delayedJob, PassGoto, gateRow, clock, callers
<1>11. ASSUME NEW p \in Passes, Judge(p) PROVE TypeOK'
  BY <1>11 DEF Judge, PassGoto, run, gateRow, clock, callers
<1>12. ASSUME NEW p \in Passes, ClearDecision(p) PROVE TypeOK'
  <2>1. record' \in Record
    BY <1>12 DEF ClearDecision
  <2> QED BY <1>12, <2>1 DEF ClearDecision, PassGoto, run, gateRow, clock, callers,
             Safe, Judged
<1>13. ASSUME NEW p \in Passes, SettleGate(p) PROVE TypeOK'
  <2>1. outcome' \in Approvers \cup {None, "expired"}
    BY <1>13 DEF SettleGate
  <2> QED BY <1>13, <2>1 DEF SettleGate, PassGoto, run, clock, callers
<1>14. ASSUME NEW p \in Passes, Suspend(p) PROVE TypeOK'
  BY <1>14, <1>a DEF Suspend, PassLeave, PassGoto, gateRow, clock, callers
<1>15. ASSUME NEW p \in Passes, Finish(p) PROVE TypeOK'
  BY <1>15, <1>a DEF Finish, PassLeave, PassGoto, gateRow, clock, callers
<1>16. ASSUME NEW p \in Passes, Die(p) PROVE TypeOK'
  BY <1>16, <1>a DEF Die, PassLeave, PassGoto, gateRow, clock, callers
<1>17. CASE DeadlinePasses
  BY <1>17 DEF DeadlinePasses, run, gateRow, callers, replays
<1>18. CASE AlarmRings
  BY <1>18 DEF AlarmRings, Ringing, gateRow, clock, callers, replays
<1> QED BY <1>0, <1>1, <1>2, <1>3, <1>4, <1>5, <1>6, <1>7, <1>8, <1>9, <1>10, <1>11, <1>12,
           <1>13, <1>14, <1>15, <1>16, <1>17, <1>18 DEF Next, CallStep, PassStep

\* A step that leaves the gate, its outcome and every replay where they are.
LEMMA QuietStep ==
  ASSUME IInv, UNCHANGED <<gateRow, ppc, psaw>>, due => due'
  PROVE  Safe'
BY DEF IInv, Safe, OneInside, Inside, Judged, Open, Settled, Unsettled,
       OnlyTheEntitledDecide, ExpiredOnlyPastDeadline, gateRow

\* A replay goes to l, having judged accordingly, and does not settle the gate.
LEMMA MoveStep ==
  ASSUME IInv, NEW p \in Passes, NEW l, PassGoto(p, l),
         UNCHANGED <<outcome, due>>,
         gate' = gate \/ (~Settled /\ ~Settled'),
         \A q \in Passes \ {p} : psaw'[q] = psaw[q],
         l \notin {"idle", "lock", "suspend", "finish"} => Inside(p) \/ \A q \in Passes \ {p} : ~Inside(q),
         l \notin {"idle", "lock", "suspend", "finish"} => ~Settled',
         /\ l = "clear" => psaw'[p].decision \in Approvers
         /\ l = "settle" => psaw'[p].decision \in Approvers \ (Forbidden \cup Invalid)
         /\ l = "expire" => due
  PROVE  Safe'
<1>1. ppc' = [ppc EXCEPT ![p] = l] /\ ppc'[p] = l /\ \A q \in Passes \ {p} : ppc'[q] = ppc[q]
  BY DEF PassGoto, IInv, TypeOK
<1>2. OneInside'
  BY <1>1 DEF IInv, Safe, OneInside, Inside
<1>3. \A q \in Passes : Judged(q)'
  BY <1>1 DEF IInv, Safe, Judged
<1>4. Open'
  BY <1>1 DEF IInv, Safe, Open, Inside, Settled
<1>5. Unsettled' /\ OnlyTheEntitledDecide' /\ ExpiredOnlyPastDeadline'
  BY DEF IInv, Safe, Unsettled, Settled, OnlyTheEntitledDecide, ExpiredOnlyPastDeadline
<1> QED BY <1>2, <1>3, <1>4, <1>5 DEF Safe

\* The one step that settles the gate: nobody had, and the outcome is judged.
LEMMA SettleStep ==
  ASSUME IInv, NEW p \in Passes, SettleGate(p)
  PROVE  Safe' /\ outcome = None
<1>1. /\ ppc' = [ppc EXCEPT ![p] = "finish"] /\ UNCHANGED <<due, psaw>>
      /\ gate' = "succeeded" /\ Inside(p) /\ ppc[p] \in {"settle", "expire"}
      /\ outcome' = IF ppc[p] = "settle" THEN psaw[p].decision ELSE "expired"
  BY DEF SettleGate, PassGoto, clock, Inside
<1>2. outcome = None
  BY <1>1 DEF IInv, Safe, Open, Unsettled
<1>3. \A q \in Passes \ {p} : ppc'[q] = ppc[q] /\ ~Inside(q)
  BY <1>1 DEF IInv, Safe, OneInside
<1>4. ppc'[p] = "finish"
  BY <1>1 DEF IInv, TypeOK
<1>5. OneInside' /\ (\A q \in Passes : Judged(q)') /\ Open'
  BY <1>1, <1>3, <1>4 DEF IInv, Safe, OneInside, Inside, Judged, Open
<1>6. Unsettled' /\ OnlyTheEntitledDecide' /\ ExpiredOnlyPastDeadline'
  BY <1>1, GateAssumption
     DEF IInv, Safe, Judged, Unsettled, Settled, OnlyTheEntitledDecide,
     ExpiredOnlyPastDeadline
<1> QED BY <1>2, <1>5, <1>6 DEF Safe

\* Whoever steps, the gate is settled at most once, by what was judged.
LEMMA SafeStep ==
  ASSUME IInv, [Next]_vars
  PROVE  Safe' /\ (outcome # None => outcome' = outcome)
<1> DEFINE Goal == Safe' /\ (outcome # None => outcome' = outcome)
<1> USE DEF gateRow
<1>a. ASSUME UNCHANGED <<gateRow, ppc, psaw>>, due => due'
      PROVE  Goal
  BY <1>a, QuietStep
<1>b. \A p \in Passes : Inside(p) => ~Settled
  BY DEF IInv, Safe, Open
<1> USE DEF clock, replays
<1>0. CASE UNCHANGED vars
  BY <1>0, <1>a DEF vars
<1>1. ASSUME NEW a \in Approvers, Submit(a) PROVE Goal
  BY <1>1, <1>a DEF Submit
<1>2. ASSUME NEW a \in Approvers, ReadState(a) PROVE Goal
  BY <1>2, <1>a DEF ReadState
<1>3. ASSUME NEW a \in Approvers, WriteDecision(a) PROVE Goal
  BY <1>3, <1>a DEF WriteDecision
<1>4. ASSUME NEW a \in Approvers, WakeRun(a) PROVE Goal
  BY <1>4, <1>a DEF WakeRun
<1>5. ASSUME NEW p \in Passes, BeginReplay(p) PROVE Goal
  <2>1. PICK l \in {"idle", "lock"} : PassGoto(p, l)
    BY <1>5 DEF BeginReplay
  <2>2. UNCHANGED <<gate, outcome, due, psaw>>
    BY <1>5 DEF BeginReplay
  <2>3. l \notin {"clear", "settle", "expire", "finish"}
    OBVIOUS
  <2> QED BY <2>1, <2>2, <2>3, MoveStep
<1>6. ASSUME NEW p \in Passes, ReachGate(p) PROVE Goal
  <2>1. PICK l \in {"finish", "record"} :
          /\ PassGoto(p, l) /\ (l = "record" => ~Settled)
          /\ gate' = gate \/ (gate = "absent" /\ gate' = "pending")
    BY <1>6 DEF ReachGate
  <2>2. UNCHANGED <<outcome, due, psaw>> /\ \A q \in Passes \ {p} : ~Inside(q)
    BY <1>6 DEF ReachGate, Inside
  <2>3. /\ gate' = gate \/ (~Settled /\ ~Settled')
        /\ l # "finish" => ~Settled'
    BY <2>1 DEF Settled
  <2>4. l \notin {"clear", "settle", "expire"}
    OBVIOUS
  <2> QED BY <2>1, <2>2, <2>3, <2>4, MoveStep
<1>7. ASSUME NEW p \in Passes, ReadRecord(p) PROVE Goal
  <2>1. PICK l \in {"open", "judge"} : PassGoto(p, l)
    BY <1>7 DEF ReadRecord
  <2>2. /\ UNCHANGED <<gate, outcome, due>> /\ Inside(p) /\ ~Settled
        /\ \A q \in Passes \ {p} : psaw'[q] = psaw[q]
    BY <1>7, <1>b DEF ReadRecord, Inside, IInv, TypeOK
  <2> QED BY <2>1, <2>2, MoveStep DEF Settled
<1>8. ASSUME NEW p \in Passes, OpenGate(p) PROVE Goal
  <2>1. PassGoto(p, "stamp") /\ gate' = "running" /\ UNCHANGED <<outcome, due, psaw>>
    BY <1>8 DEF OpenGate
  <2>2. Inside(p) /\ ~Settled
    BY <1>8, <1>b DEF OpenGate, Inside
  <2> QED BY <2>1, <2>2, MoveStep DEF Settled
<1>9. ASSUME NEW p \in Passes, Stamp(p) PROVE Goal
  <2>1. PICK l \in {"alarm", "judge"} : PassGoto(p, l)
    BY <1>9 DEF Stamp
  <2>2. /\ UNCHANGED <<gate, outcome, due>> /\ Inside(p) /\ ~Settled
        /\ \A q \in Passes \ {p} : psaw'[q] = psaw[q]
    BY <1>9, <1>b DEF Stamp, Inside, IInv, TypeOK
  <2> QED BY <2>1, <2>2, MoveStep DEF Settled
<1>10. ASSUME NEW p \in Passes, SetAlarm(p) PROVE Goal
  <2>1. PassGoto(p, "judge") /\ UNCHANGED <<gate, outcome, due, psaw>>
    BY <1>10 DEF SetAlarm
  <2>2. Inside(p) /\ ~Settled
    BY <1>10, <1>b DEF SetAlarm, Inside
  <2> QED BY <2>1, <2>2, MoveStep DEF Settled
<1>11. ASSUME NEW p \in Passes, Judge(p) PROVE Goal
  <2> DEFINE d == psaw[p].decision
  <2>1. d \in Approvers \cup {None}
    BY DEF IInv, TypeOK, Record
  <2>2. PICK l \in {"clear", "settle", "expire", "suspend"} :
          /\ PassGoto(p, l)
          /\ l \in {"clear", "settle"} => d # None
          /\ l = "settle" => d \notin Forbidden \cup Invalid
          /\ l = "expire" => due
    BY <1>11 DEF Judge, Refused, Malformed, Expired
  <2>3. UNCHANGED <<gate, outcome, due, psaw>> /\ Inside(p) /\ ~Settled
    BY <1>11, <1>b DEF Judge, Inside
  <2> QED BY <2>1, <2>2, <2>3, MoveStep DEF Settled
<1>12. ASSUME NEW p \in Passes, ClearDecision(p) PROVE Goal
  <2>1. PassGoto(p, "suspend") /\ UNCHANGED <<gate, outcome, due, psaw>>
    BY <1>12 DEF ClearDecision
  <2>2. Inside(p) /\ ~Settled
    BY <1>12, <1>b DEF ClearDecision, Inside
  <2> QED BY <2>1, <2>2, MoveStep DEF Settled
<1>13. ASSUME NEW p \in Passes, SettleGate(p) PROVE Goal
  BY <1>13, SettleStep
<1>14. ASSUME NEW p \in Passes, Suspend(p) \/ Finish(p) \/ Die(p) PROVE Goal
  <2>1. PassGoto(p, "idle") /\ UNCHANGED <<gate, outcome, due>>
    BY <1>14 DEF Suspend, Finish, Die, PassLeave
  <2>2. \A q \in Passes \ {p} : psaw'[q] = psaw[q]
    BY <1>14 DEF Suspend, Finish, Die, PassLeave, IInv, TypeOK
  <2> QED BY <2>1, <2>2, MoveStep
<1>15. CASE DeadlinePasses
  BY <1>15, <1>a DEF DeadlinePasses
<1>16. CASE AlarmRings
  BY <1>16, <1>a DEF AlarmRings
<1> QED BY <1>0, <1>1, <1>2, <1>3, <1>4, <1>5, <1>6, <1>7, <1>8, <1>9, <1>10, <1>11, <1>12,
           <1>13, <1>14, <1>15, <1>16 DEF Next, CallStep, PassStep

LEMMA Inductive == IInv /\ [Next]_vars => IInv'
BY TypeStep, SafeStep DEF IInv

\* The gate, its record, the answers and the replays have their types.
THEOREM TypeCorrect == Spec => []TypeOK
<1>1. IInv => TypeOK
  BY DEF IInv
<1> QED BY <1>1, InitIInv, Inductive, PTL DEF Spec

\* Nobody the policy or the schema refuses ever decides the gate, in every order
\* of answers and replays: "judging on replay is what makes the policy hold".
THEOREM EntitledDecide == Spec => []OnlyTheEntitledDecide
<1>1. IInv => OnlyTheEntitledDecide
  BY DEF IInv, Safe
<1> QED BY <1>1, InitIInv, Inductive, PTL DEF Spec

\* No early, duplicate or unrelated wake expires the gate.
THEOREM ExpiryNeedsDeadline == Spec => []ExpiredOnlyPastDeadline
<1>1. IInv => ExpiredOnlyPastDeadline
  BY DEF IInv, Safe
<1> QED BY <1>1, InitIInv, Inductive, PTL DEF Spec

\* The gate's outcome never changes once it is known.
THEOREM OutcomeStands == Spec => OutcomeIsFinal
<1>1. IInv /\ [Next]_vars => [outcome # None => outcome' = outcome]_vars
  BY SafeStep
<1> QED BY <1>1, InitIInv, Inductive, PTL DEF Spec, OutcomeIsFinal
================================================================================
