-------------------------- MODULE StepClaimRefinement --------------------------
(***************************************************************************)
(* Proof that the step workers implement StepOwnership, for every value of *)
(* the constants: under the mapping of StepClaim (the holders of a step    *)
(* are the workers that own it, and it is open while a claim would be let  *)
(* in) every step of a worker, of the queue or of a dispatcher acquires,   *)
(* releases, closes or reopens a step, or does none of these.  What the    *)
(* abstract steps do to the number of holders then holds of the workers.   *)
(***************************************************************************)
EXTENDS StepClaimProofs

\* The abstract state.
holdersBar == [s \in Steps |-> Holders(s)]
openBar == [s \in Steps |-> Open(s)]

\* Nothing of it changes for the steps in S.
SameStep(S) == \A t \in S : Holders(t)' = Holders(t) /\ (Open(t)' <=> Open(t))

\* An abstract step, or none.
Refines == Ownership!Next \/ UNCHANGED <<holdersBar, openBar, late>>

\* A holder has one of the permits of its step, and an open step is worth one.
HolderPermits(s) ==
  /\ IsFiniteSet(Holders(s))
  /\ Cardinality(Holders(s)) + Bit(Open(s)) <= 1 + late[s]
HolderInv == IInv /\ \A s \in Steps : HolderPermits(s)
--------------------------------------------------------------------------------
LEMMA BarFacts ==
  /\ \A s \in Steps : /\ holdersBar[s] = Holders(s) /\ holdersBar'[s] = Holders(s)'
                      /\ openBar[s] = Open(s) /\ openBar'[s] = Open(s)'
                      /\ Open(s) \in BOOLEAN /\ Open(s)' \in BOOLEAN
  /\ \A s \in Steps, w \in Workers : w \in Holders(s) <=> at[w] = s /\ pc[w] \in OwnerPC
  /\ \A s \in Steps, w \in Workers : w \in Holders(s)' <=> at'[w] = s /\ pc'[w] \in OwnerPC
BY DEF holdersBar, openBar, Open, Holders, Owner, OwnerPC

\* Nothing happens to any step.
LEMMA NoStep ==
  ASSUME SameStep(Steps), late' = late
  PROVE  UNCHANGED <<holdersBar, openBar, late>>
<1>1. \A s \in Steps : Holders(s)' = Holders(s) /\ Open(s)' = Open(s)
  BY BarFacts DEF SameStep
<1> QED BY <1>1 DEF holdersBar, openBar

\* What a step that touches s alone does to the openness.
LEMMA OpenBarStep ==
  ASSUME NEW s \in Steps, SameStep(Steps \ {s}), NEW o \in BOOLEAN, Open(s)' = o
  PROVE  openBar' = [openBar EXCEPT ![s] = o]
<1>1. \A t \in Steps : openBar'[t] = IF t = s THEN o ELSE openBar[t]
  <2> SUFFICES ASSUME NEW t \in Steps PROVE openBar'[t] = IF t = s THEN o ELSE openBar[t]
    OBVIOUS
  <2>1. CASE t = s
    BY <2>1, BarFacts
  <2>2. CASE t # s
    <3>1. Open(t)' = Open(t)
      BY <2>2, BarFacts DEF SameStep
    <3> QED BY <2>2, <3>1, BarFacts
  <2> QED BY <2>1, <2>2
<1> DEFINE f == [openBar EXCEPT ![s] = o]
<1>2. /\ openBar' = [t \in DOMAIN openBar' |-> openBar'[t]] /\ DOMAIN openBar' = Steps
      /\ DOMAIN openBar = Steps
  BY DEF openBar
<1>3. f = [t \in DOMAIN openBar |-> IF t = s THEN o ELSE openBar[t]]
  BY <1>2
<1> QED BY <1>1, <1>2, <1>3

\* The four things that happen to one.
LEMMA AcquireStep ==
  ASSUME NEW s \in Steps, NEW w \in Workers, Open(s), ~Open(s)', w \notin Holders(s),
         Holders(s)' = Holders(s) \cup {w}, SameStep(Steps \ {s}), late' = late
  PROVE  Ownership!Next
<1>1. holdersBar' = [holdersBar EXCEPT ![s] = @ \cup {w}]
  BY DEF holdersBar, SameStep
<1>2. openBar' = [openBar EXCEPT ![s] = FALSE]
  BY OpenBarStep, BarFacts
<1>3. openBar[s] /\ w \notin holdersBar[s]
  BY BarFacts
<1>4. Ownership!Acquire(w, s)
  BY <1>1, <1>2, <1>3 DEF Ownership!Acquire, holdersBar, openBar
<1> QED BY <1>4 DEF Ownership!Next

LEMMA ReleaseStep ==
  ASSUME NEW s \in Steps, NEW w \in Workers, w \in Holders(s),
         Holders(s)' = Holders(s) \ {w}, SameStep(Steps \ {s}), late' = late
  PROVE  Ownership!Next
<1>1. holdersBar' = [holdersBar EXCEPT ![s] = @ \ {w}]
  BY DEF holdersBar, SameStep
<1>2. \E o \in BOOLEAN : openBar' = [openBar EXCEPT ![s] = o]
  BY OpenBarStep, BarFacts
<1>3. w \in holdersBar[s]
  BY BarFacts
<1>4. Ownership!Release(w, s)
  BY <1>1, <1>2, <1>3 DEF Ownership!Release, holdersBar, openBar
<1> QED BY <1>4 DEF Ownership!Next

LEMMA CloseStep ==
  ASSUME NEW s \in Steps, Holders(s) # {}, ~Open(s)',
         Holders(s)' = Holders(s), SameStep(Steps \ {s}), late' = late
  PROVE  Ownership!Next
<1>1. holdersBar' = holdersBar
  BY DEF holdersBar, SameStep
<1>2. openBar' = [openBar EXCEPT ![s] = FALSE]
  BY OpenBarStep, BarFacts
<1>3. holdersBar[s] # {}
  BY BarFacts
<1>4. Ownership!Close(s)
  BY <1>1, <1>2, <1>3 DEF Ownership!Close, holdersBar, openBar
<1> QED BY <1>4 DEF Ownership!Next

LEMMA ReopenStep ==
  ASSUME NEW s \in Steps, Open(s) => Open(s)', Holders(s)' = Holders(s),
         SameStep(Steps \ {s}), late' = [late EXCEPT ![s] = @ + 1]
  PROVE  Ownership!Next
<1>1. holdersBar' = holdersBar
  BY DEF holdersBar, SameStep
<1>2. \E o \in {openBar[s], TRUE} : openBar' = [openBar EXCEPT ![s] = o]
  BY OpenBarStep, BarFacts
<1>3. Ownership!Reopen(s)
  BY <1>1, <1>2 DEF Ownership!Reopen, holdersBar, openBar
<1> QED BY <1>3 DEF Ownership!Next

--------------------------------------------------------------------------------
\* Every step of the workers, the queue and the dispatchers is a step of the
\* ownership of some step, or none.
LEMMA RefinesStep ==
  ASSUME IInv, [Next]_claimVars
  PROVE  Refines
<1>a. ASSUME SameStep(Steps), late' = late PROVE Refines
  BY <1>a, NoStep DEF Refines
<1>1. ASSUME UNCHANGED <<pc, at, guarded, late, status>> PROVE Refines
  BY <1>1, <1>a DEF SameStep, Holders, Owner, Open, Locks
<1>2. ASSUME WorkerNext PROVE Refines
  <2>1. guarded' = guarded /\ late' = late
    BY <1>2, WorkerTable
  <2>2. CASE UNCHANGED <<pc, at>> /\ SameRows(Steps)
    <3>1. \A t \in Steps : Holders(t)' = Holders(t) /\ (Open(t)' <=> Open(t))
      BY <2>1, <2>2 DEF SameRows, Holders, Owner, Open, Locks
    <3> QED BY <2>1, <3>1, <1>a DEF SameStep
  <2>3. ASSUME NEW w \in Workers, Moved(w), SameRows(Steps), pc[w] \notin OwnerPC, pc'[w] \notin OwnerPC
        PROVE  Refines
    <3>1. \A t \in Steps : Holders(t)' = Holders(t)
      BY <2>3 DEF Holders, Owner, OwnerPC, Moved
    <3>2. \A t \in Steps : Open(t)' <=> Open(t)
      BY <2>1, <2>3, OpenStays DEF Locks, OwnerPC, SameRows
    <3> QED BY <2>1, <3>1, <3>2, <1>a DEF SameStep
  <2>4. ASSUME NEW w \in Workers, NEW s \in Steps, Moved(w), HoldersMove(w, s), SameRows(Steps \ {s})
        PROVE  Refines
    <3>1. SameStep(Steps \ {s})
      <4>1. at[w] = s /\ (at'[w] = s \/ pc'[w] = "idle")
        BY <2>4 DEF HoldersMove, Claims, Enters, Ends, Records, Wakes, Vanishes, Holding
      <4>2. \A t \in Steps \ {s} : Holders(t)' = Holders(t)
        BY <2>4, <4>1 DEF Holders, Owner, Moved
      <4>3. \A t \in Steps \ {s} : Open(t)' <=> Open(t)
        BY <2>1, <2>4, <4>1, OpenStays DEF Locks, SameRows
      <4> QED BY <4>2, <4>3 DEF SameStep
    <3>2. Holders(s)' \ {w} = Holders(s) \ {w}
      BY <2>4 DEF Holders, Owner, Moved
    <3>3. ASSUME pc[w] \in OwnerPC, at[w] = s, pc'[w] \notin OwnerPC PROVE Refines
      BY <2>1, <3>1, <3>2, <3>3, BarFacts, ReleaseStep DEF Refines
    <3>4. ASSUME Holding(w, s), pc[w] \in OwnerPC, pc'[w] \in OwnerPC, ~Open(s)' PROVE Refines
      <4>1. Holders(s)' = Holders(s) /\ w \in Holders(s)
        BY SMTT(30), <3>2, <3>4, BarFacts DEF Holding
      <4> QED BY <2>1, <3>1, <3>4, <4>1, CloseStep DEF Refines
    <3>5. ASSUME Holding(w, s), pc[w] \in OwnerPC, pc'[w] \in OwnerPC, Open(s)' <=> Open(s) PROVE Refines
      <4>1. Holders(s)' = Holders(s)
        BY <3>2, <3>5, BarFacts DEF Holding
      <4> QED BY <2>1, <3>1, <3>5, <4>1, <1>a DEF SameStep
    <3>6. CASE Claims(w, s)
      <4>1. Open(s) /\ ~Open(s)'
        BY <2>1, <3>6, Shuts DEF Claims, Holding, Open, Locks
      <4>2. w \notin Holders(s) /\ Holders(s)' = Holders(s) \cup {w}
        BY <3>2, <3>6, BarFacts DEF Claims, Holding, OwnerPC
      <4> QED BY <2>1, <3>1, <4>1, <4>2, AcquireStep DEF Refines
    <3>7. CASE Enters(w, s)
      BY <3>4, <3>7, Shuts DEF Enters, OwnerPC
    <3>8. CASE Ends(w, s)
      <4>1. Open(s)' <=> Open(s)
        BY <2>1, <2>4, <3>8, OpenStays DEF Ends, Locks
      <4> QED BY <3>5, <3>8, <4>1 DEF Ends, OwnerPC
    <3>9. CASE Records(w, s)
      BY <3>3, <3>4, <3>9, Shuts DEF Records, Holding, OwnerPC
    <3>10. CASE Wakes(w, s)
      <4>1. Open(s)' <=> Open(s)
        BY <2>1, <2>4, <3>10, OpenStays DEF Wakes, Locks
      <4> QED BY <3>3, <3>5, <3>10, <4>1 DEF Wakes, Holding, OwnerPC
    <3>11. CASE Vanishes(w, s)
      BY <3>3, <3>11 DEF Vanishes, OwnerPC
    <3> QED BY <2>4, <3>6, <3>7, <3>8, <3>9, <3>10, <3>11 DEF HoldersMove
  <2> QED BY <1>2, <2>2, <2>3, <2>4, WorkerTable
<1>3. ASSUME NEW s \in Steps, Redispatch(s) PROVE Refines
  BY <1>1, <1>3 DEF Redispatch, rows, workerState, faults
<1>4. ASSUME NEW s \in Steps, Mark(s) PROVE Refines
  <2>1. UNCHANGED <<pc, at, guarded>> /\ \A x \in Steps \ {s} : status'[x] = status[x]
    BY <1>4 DEF Mark, setStepScheduled, SetStatus, workerState, IInv, Base, TypeOK, WorkerTypeOK
  <2>2. status'[s] = "scheduled"
    BY <1>4 DEF Mark, setStepScheduled, SetStatus, IInv, Base, TypeOK, WorkerTypeOK
  <2>3. \A t \in Steps : Holders(t)' = Holders(t)
    BY <2>1 DEF Holders, Owner
  <2>4. SameStep(Steps \ {s})
    BY <2>1, <2>3 DEF SameStep, Open, Locks
  <2>5. CASE status[s] \in {"pending", "scheduled"}
    <3>1. late' = late
      BY <1>4, <2>5 DEF Mark, setStepScheduled
    <3>2. Open(s)' <=> Open(s)
      BY <2>1, <2>2, <2>5 DEF Open, Locks
    <3> QED BY <2>3, <2>4, <3>1, <3>2, <1>a DEF SameStep
  <2>6. CASE status[s] \notin {"pending", "scheduled"}
    <3>1. late' = [late EXCEPT ![s] = @ + 1]
      BY <1>4, <2>6 DEF Mark, setStepScheduled
    <3>2. Open(s) => Open(s)'
      BY <2>1, <2>2 DEF Open, Locks
    <3> QED BY <2>3, <2>4, <3>1, <3>2, ReopenStep DEF Refines
  <2> QED BY <2>5, <2>6
<1>5. ASSUME UNCHANGED claimVars PROVE Refines
  BY <1>1, <1>5 DEF claimVars, workerVars, rows, workerState, faults
<1> QED BY <1>2, <1>3, <1>4, <1>5 DEF Next

\* At the start nobody holds a step and every one is open.
LEMMA RefinesInit ==
  ASSUME Init
  PROVE  Ownership!Init
<1>1. \A s \in Steps : Holders(s) = {} /\ Open(s) = TRUE
  BY DEF Init, WorkersInit, Holders, Owner, Open, Locks
<1> QED BY <1>1 DEF Ownership!Init, Init, WorkersInit

\* The step workers implement the ownership of a step: a dispatch takes it only
\* while it is open, and nothing opens it again but the failure or the end of
\* its holder, and late marks (claimStepForExecution, setStepScheduled).
THEOREM ClaimImplementsOwnership == Spec => OwnershipSpec
<1>1. IInv /\ [Next]_claimVars => IInv'
  BY BaseStep, GuardStep DEF IInv
<1>2. IInv /\ [Next]_claimVars => [Ownership!Next]_Ownership!vars
  BY RefinesStep DEF Refines, Ownership!vars, holdersBar, openBar
<1>3. Init => IInv /\ Ownership!Init
  BY InitIInv, RefinesInit
<1> QED BY <1>1, <1>2, <1>3, PTL DEF Spec, OwnershipSpec, Ownership!Spec

--------------------------------------------------------------------------------
\* The steps of the ownership keep the balance of holders and permits.
LEMMA PermitsStep ==
  ASSUME IInv, Refines,
         NEW t \in Steps, HolderPermits(t)
  PROVE  HolderPermits(t)'
<1> DEFINE n == Cardinality(Holders(t))
<1>1. /\ late[t] \in Nat /\ n \in Nat /\ Bit(Open(t)) \in {0, 1} /\ Bit(Open(t)') \in {0, 1}
      /\ late \in [Steps -> Nat]
  BY FS_CardinalityType DEF IInv, Base, TypeOK, WorkerTypeOK, HolderPermits, Bit
<1>2. ASSUME Holders(t)' = Holders(t), Open(t)' = Open(t), late'[t] = late[t]
      PROVE  HolderPermits(t)'
  BY <1>2 DEF HolderPermits, Bit
<1>3. CASE UNCHANGED <<holdersBar, openBar, late>>
  BY <1>2, <1>3, BarFacts
<1>4. ASSUME NEW s \in Steps, NEW w \in Workers, Ownership!Acquire(w, s)
      PROVE  HolderPermits(t)'
  <2>1. /\ openBar[s] /\ w \notin holdersBar[s] /\ late' = late
        /\ holdersBar' = [holdersBar EXCEPT ![s] = @ \cup {w}]
        /\ openBar' = [openBar EXCEPT ![s] = FALSE]
    BY <1>4 DEF Ownership!Acquire, holdersBar, openBar
  <2>2. CASE s # t
    BY <1>2, <2>1, <2>2, BarFacts DEF holdersBar, openBar
  <2>3. CASE s = t
    <3>1. Open(t) /\ ~Open(t)' /\ w \notin Holders(t) /\ Holders(t)' = Holders(t) \cup {w}
      BY <2>1, <2>3, BarFacts DEF holdersBar, openBar
    <3>2. IsFiniteSet(Holders(t)') /\ Cardinality(Holders(t)') = n + 1
      BY <3>1, FS_AddElement DEF HolderPermits
    <3> QED BY <1>1, <2>1, <3>1, <3>2 DEF HolderPermits, Bit
  <2> QED BY <2>2, <2>3
<1>5. ASSUME NEW s \in Steps, NEW w \in Workers, Ownership!Release(w, s)
      PROVE  HolderPermits(t)'
  <2>1. /\ w \in holdersBar[s] /\ late' = late
        /\ holdersBar' = [holdersBar EXCEPT ![s] = @ \ {w}]
        /\ \E o \in BOOLEAN : openBar' = [openBar EXCEPT ![s] = o]
    BY <1>5 DEF Ownership!Release, holdersBar, openBar
  <2>2. CASE s # t
    BY <1>2, <2>1, <2>2, BarFacts DEF holdersBar, openBar
  <2>3. CASE s = t
    <3>1. w \in Holders(t) /\ Holders(t)' = Holders(t) \ {w}
      BY <2>1, <2>3, BarFacts DEF holdersBar
    <3>2. IsFiniteSet(Holders(t)') /\ Cardinality(Holders(t)') = n - 1
      BY <3>1, FS_RemoveElement DEF HolderPermits
    <3> QED BY <1>1, <2>1, <3>2 DEF HolderPermits
  <2> QED BY <2>2, <2>3
<1>6. ASSUME NEW s \in Steps, Ownership!Close(s)
      PROVE  HolderPermits(t)'
  <2>1. late' = late /\ holdersBar' = holdersBar /\ openBar' = [openBar EXCEPT ![s] = FALSE]
    BY <1>6 DEF Ownership!Close, holdersBar, openBar
  <2>2. Holders(t)' = Holders(t) /\ (Open(t)' => Open(t))
    BY <2>1, BarFacts DEF openBar
  <2> QED BY <1>1, <2>1, <2>2 DEF HolderPermits, Bit
<1>7. ASSUME NEW s \in Steps, Ownership!Reopen(s)
      PROVE  HolderPermits(t)'
  <2>1. /\ late' = [late EXCEPT ![s] = @ + 1] /\ holdersBar' = holdersBar
        /\ \E o \in {openBar[s], TRUE} : openBar' = [openBar EXCEPT ![s] = o]
    BY <1>7 DEF Ownership!Reopen, holdersBar, openBar
  <2>2. CASE s # t
    BY <1>1, <1>2, <2>1, <2>2, BarFacts DEF openBar
  <2>3. CASE s = t
    <3>1. late'[t] = late[t] + 1 /\ Holders(t)' = Holders(t)
      BY <1>1, <2>1, <2>3, BarFacts
    <3> QED BY <1>1, <3>1 DEF HolderPermits
  <2> QED BY <2>2, <2>3
<1> QED BY <1>3, <1>4, <1>5, <1>6, <1>7 DEF Refines, Ownership!Next

\* However many workers, duplicate jobs, redeliveries and crashes there are, one
\* dispatch of a step executes it, and one more for every time its row was marked
\* scheduled behind a claim (claimStepForExecution, setStepScheduled).
THEOREM ClaimsExclude == Spec => []ClaimExcludes
<1>1. Init => HolderInv
  <2> SUFFICES ASSUME Init, NEW s \in Steps PROVE HolderPermits(s)
    BY InitIInv DEF HolderInv
  <2>1. Holders(s) = {}
    BY DEF Init, WorkersInit, Holders, Owner
  <2>2. IsFiniteSet(Holders(s)) /\ Cardinality(Holders(s)) = 0
    BY <2>1, FS_EmptySet
  <2> QED BY <2>2 DEF HolderPermits, Init, WorkersInit, Bit
<1>2. HolderInv /\ [Next]_claimVars => HolderInv'
  <2> SUFFICES ASSUME HolderInv, [Next]_claimVars PROVE HolderInv'
    OBVIOUS
  <2>1. IInv /\ IInv'
    BY BaseStep, GuardStep DEF HolderInv, IInv
  <2>2. \A s \in Steps : HolderPermits(s)'
    BY <2>1, RefinesStep, PermitsStep DEF HolderInv
  <2> QED BY <2>1, <2>2 DEF HolderInv
<1>3. HolderInv => ClaimExcludes
  <2> SUFFICES ASSUME HolderInv, NEW s \in Steps
               PROVE  Cardinality(Holders(s)) <= 1 + late[s]
    BY DEF ClaimExcludes
  <2>1. late[s] \in Nat /\ Cardinality(Holders(s)) \in Nat /\ Bit(Open(s)) \in {0, 1}
    BY FS_CardinalityType DEF HolderInv, IInv, Base, TypeOK, WorkerTypeOK, HolderPermits, Bit
  <2> QED BY <2>1 DEF HolderInv, HolderPermits
<1> QED BY <1>1, <1>2, <1>3, PTL DEF Spec
================================================================================
