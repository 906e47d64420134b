------------------------ MODULE AgentApprovalProofs ------------------------
(***************************************************************************)
(* Proofs about the approval of an agent's tool calls, for any number of   *)
(* calls and concurrent answers, both stores, and requests that die        *)
(* anywhere.                                                               *)
(*                                                                         *)
(* The argument: a call can be claimed while it is pending, what is        *)
(* pending is undecided, and a claim removes it and decides it in one      *)
(* step.  So the calls held by two requests are disjoint, and none of them *)
(* has been run.  A row that is still to be set pending is undecided too,  *)
(* because nobody can have been asked about it.                            *)
(***************************************************************************)
EXTENDS AgentApproval, TLAPS

Undecided(c) == decided[c] = "none"

\* The request is writing the approvals of a step into the calls' rows.
Setting(r) == req[r].pc \in {"clear", "set"}

PendingUndecided == \A c \in Calls : c \in pending \/ c \in Fresh => Undecided(c)

\* The calls asked for together are minted, and agree on it.
Batched == \A c \in Calls : \A e \in batch[c] : e \notin Fresh /\ batch[e] = batch[c]

RowsToSet ==
  /\ \A r \in Requests : Setting(r) =>
       \A c \in req[r].todo : c \notin Fresh /\ Undecided(c) /\ c \notin pending
  /\ \A r, q \in Requests : r # q /\ Setting(r) /\ Setting(q) =>
       req[r].todo \cap req[q].todo = {}

Swapping == \A r \in Requests : At(r, "swap") => req[r].call \in req[r].seen \cap req[r].todo

\* What a request has claimed and not handled is decided as it says, not run,
\* and nobody else's.
Held ==
  /\ \A r \in Requests : \A c \in req[r].won : decided[c] = Said(r, c) /\ executed[c] = 0
  /\ \A r, q \in Requests : r # q => req[r].won \cap req[q].won = {}

Unexecuted == \A c \in Calls : Undecided(c) => executed[c] = 0

IInv == /\ TypeOK /\ Batched /\ PendingUndecided /\ RowsToSet /\ Swapping
        /\ Held /\ Unexecuted /\ ExecutedAsDecided

\* Nobody has to answer the call any more.
Closed(c) == ~Undecided(c) \/ c \in dropped

\* Requests only claim and hold calls the client was asked about.
ClaimsAreAsked ==
  \A r \in Requests : /\ req[r].pc \in {"claim", "swap"} => req[r].todo \subseteq asked
                      /\ req[r].mine \subseteq asked

\* Of the calls asked together, each is pending, closed or yet to be written.
Accounted ==
  /\ \A c \in asked : \A d \in batch[c] : d \in pending \/ Closed(d)
  /\ \A r \in Requests : Setting(r) =>
       \A c \in req[r].todo : \A d \in batch[c] :
         d \in req[r].todo \/ (At(r, "set") /\ (d \in pending \/ Closed(d)))

AnswerInv == IInv /\ ClaimsAreAsked /\ Accounted /\ ContinuesWhenAnswered
----------------------------------------------------------------------------
\* Moving a request changes that request and no other.
LEMMA Moved ==
  ASSUME req \in [Requests -> Request], NEW r \in Requests, NEW to \in Request, Move(r, to)
  PROVE  /\ req' \in [Requests -> Request]
         /\ req'[r] = to
         /\ \A q \in Requests : q # r => req'[q] = req[q]
BY DEF Move

LEMMA IdleType == Idle \in Request
BY DEF Idle, Request

\* A step of one request that claims nothing, runs nothing and sets no row.
LEMMA QuietStep ==
  ASSUME IInv, NEW r \in Requests, NEW to \in Request, Move(r, to),
         UNCHANGED <<store, pending, batch, asked, decided, executed>>,
         status' \in StoredStatus, dropped' \subseteq dropped \cup pending,
         answers' \in 0..MaxAnswers, crashes' \in 0..MaxCrashes,
         to.pc \in {"clear", "set"} => Setting(r) /\ to.todo \subseteq req[r].todo,
         to.pc = "swap" => to.call \in to.seen \cap to.todo,
         to.won \subseteq req[r].won, to.won # {} => to.yes = req[r].yes,
         \A c \in to.mine : ~Undecided(c)
  PROVE  IInv'
<1> USE DEF IInv
<1>1. /\ req' \in [Requests -> Request]
      /\ req'[r] = to
      /\ \A q \in Requests : q # r => req'[q] = req[q]
  BY Moved DEF TypeOK
<1>2. Fresh' = Fresh
  BY DEF Fresh
<1>3. TypeOK'
  BY <1>1, <1>2 DEF TypeOK, Undecided
<1>4. PendingUndecided' /\ Batched'
  BY <1>2 DEF PendingUndecided, Undecided, Batched
<1>5. RowsToSet'
  BY <1>1, <1>2 DEF RowsToSet, Setting, Undecided
<1>6. Swapping'
  BY <1>1 DEF Swapping, At
<1>7. Held'
  BY <1>1 DEF Held, Said
<1>8. Unexecuted' /\ ExecutedAsDecided'
  BY DEF Unexecuted, ExecutedAsDecided, Undecided
<1> QED BY <1>3, <1>4, <1>5, <1>6, <1>7, <1>8

\* What a claim leaves in the request.
LEMMA AfterClaimMoves ==
  ASSUME IInv, NEW r \in Requests, NEW c \in Calls, NEW won \in BOOLEAN,
         AfterClaim(r, c, won)
  PROVE  \E to \in Request :
           /\ Move(r, to)
           /\ to.pc \in {"idle", "claim", "run"}
           /\ to.todo \subseteq req[r].todo
           /\ to.won \subseteq req[r].won \cup (IF won THEN {c} ELSE {})
           /\ to.mine \subseteq req[r].mine \cup (IF won THEN {c} ELSE {})
           /\ to.won # {} => to.yes = req[r].yes
<1> DEFINE got == IF won THEN {c} ELSE {}
           todo == req[r].todo \ {c}
           to == [req[r] EXCEPT !.pc = IF todo = {} THEN "run" ELSE "claim",
                                !.call = NoCall, !.todo = todo, !.seen = {},
                                !.won = @ \cup got, !.mine = @ \cup got]
<1>1. CASE Leave(r)
  <2>1. Idle.won = {} /\ Idle.todo = {} /\ Idle.mine = {} /\ Idle.pc = "idle"
    BY DEF Idle
  <2> QED BY <1>1, <2>1, IdleType DEF Leave
<1>2. CASE Move(r, to)
  <2>1. req[r] \in Request /\ got \subseteq Calls
    BY DEF IInv, TypeOK
  <2>2. to \in Request
    BY <2>1 DEF Request
  <2>3. /\ to.pc \in {"claim", "run"} /\ to.todo = todo /\ to.yes = req[r].yes
        /\ to.won = req[r].won \cup got /\ to.mine = req[r].mine \cup got
    BY <2>1 DEF Request
  <2> QED BY <1>2, <2>2, <2>3
<1> QED BY <1>1, <1>2 DEF AfterClaim

\* A claim that is lost changes nothing but the request.
LEMMA LostClaim ==
  ASSUME IInv, NEW r \in Requests, NEW c \in Calls, AfterClaim(r, c, FALSE),
         UNCHANGED <<store, status, pending, batch, asked, dropped, decided, executed,
                     answers, crashes>>
  PROVE  IInv'
<1>1. PICK to \in Request :
         /\ Move(r, to)
         /\ to.pc \in {"idle", "claim", "run"}
         /\ to.won \subseteq req[r].won
         /\ to.mine \subseteq req[r].mine
         /\ to.won # {} => to.yes = req[r].yes
  BY AfterClaimMoves
<1>2. \A d \in to.mine : ~Undecided(d)
  BY <1>1 DEF IInv, TypeOK, Undecided
<1>3. status' \in StoredStatus /\ answers' \in 0..MaxAnswers /\ crashes' \in 0..MaxCrashes
  BY DEF IInv, TypeOK
<1> QED BY QuietStep, <1>1, <1>2, <1>3

\* A claim that is won takes the call off the pending ones and decides it.
LEMMA WonClaim ==
  ASSUME IInv, NEW r \in Requests, NEW c \in Calls, c \in pending,
         AfterClaim(r, c, TRUE),
         pending' = pending \ {c}, decided' = [decided EXCEPT ![c] = Said(r, c)],
         status' \in StoredStatus,
         UNCHANGED <<store, batch, asked, dropped, executed, answers, crashes>>
  PROVE  IInv'
<1> USE DEF IInv
<1>1. PICK to \in Request :
         /\ Move(r, to)
         /\ to.pc \in {"idle", "claim", "run"}
         /\ to.won \subseteq req[r].won \cup {c}
         /\ to.mine \subseteq req[r].mine \cup {c}
         /\ to.won # {} => to.yes = req[r].yes
  BY ZenonT(40), AfterClaimMoves
<1>2. /\ req' \in [Requests -> Request]
      /\ req'[r] = to
      /\ \A q \in Requests : q # r => req'[q] = req[q]
  BY <1>1, Moved DEF TypeOK
<1>3. Fresh' = Fresh
  BY DEF Fresh
<1>4. Undecided(c) /\ executed[c] = 0
  BY DEF PendingUndecided, Unexecuted
<1>5. /\ Said(r, c) \in {"approved", "denied"}
      /\ decided'[c] = Said(r, c)
      /\ decided' \in [Calls -> Answer]
      /\ \A d \in Calls : d # c => decided'[d] = decided[d]
  BY DEF Said, Answer, TypeOK
<1>6. TypeOK'
  BY <1>1, <1>2, <1>3, <1>5 DEF TypeOK
<1>7. PendingUndecided' /\ Batched'
  <2>1. c \notin Fresh
    BY DEF TypeOK
  <2> QED BY <1>3, <1>5, <2>1 DEF PendingUndecided, Undecided, Batched
<1>8. RowsToSet'
  BY <1>1, <1>2, <1>3, <1>5 DEF RowsToSet, Setting, Undecided
<1>9. Swapping'
  BY <1>1, <1>2 DEF Swapping, At
<1>10. Held'
  <2>1. \A q \in Requests : c \notin req[q].won
    <3>1. \A q \in Requests : c \in req[q].won => decided[c] # "none"
      BY DEF Held, Said
    <3> QED BY <3>1, <1>4 DEF Undecided
  <2>2. \A d \in req'[r].won : Said(r, d)' = Said(r, d)
    BY <1>1, <1>2 DEF Said
  <2>3. \A d \in req'[r].won : decided'[d] = Said(r, d) /\ executed'[d] = 0
    BY <1>1, <1>2, <1>4, <1>5, <2>1 DEF Held, TypeOK, Request
  <2>4. \A q \in Requests : q # r => \A d \in req'[q].won :
           decided'[d] = Said(q, d) /\ executed'[d] = 0 /\ Said(q, d)' = Said(q, d)
    BY <1>2, <1>5, <2>1 DEF Held, TypeOK, Request, Said
  <2>5. \A q, s \in Requests : q # s => req'[q].won \cap req'[s].won = {}
    BY <1>1, <1>2, <2>1 DEF Held
  <2> QED BY <2>2, <2>3, <2>4, <2>5 DEF Held
<1>11. Unexecuted' /\ ExecutedAsDecided'
  BY <1>4, <1>5 DEF Unexecuted, ExecutedAsDecided, Undecided
<1> QED BY <1>6, <1>7, <1>8, <1>9, <1>10, <1>11

LEMMA ExecuteInv ==
  ASSUME IInv, NEW r \in Requests, Execute(r)
  PROVE  IInv'
<1> USE DEF IInv
<1>1. PICK c \in req[r].won :
         /\ executed' = IF Approves(r, c) THEN [executed EXCEPT ![c] = @ + 1] ELSE executed
         /\ IF req[r].won # {c}
            THEN Move(r, [req[r] EXCEPT !.won = @ \ {c}])
            ELSE Move(r, [req[r] EXCEPT !.won = {}, !.yes = {},
                                        !.pc = IF r \in Streams THEN "look" ELSE "mark"])
  BY DEF Execute
<1>2. c \in Calls /\ req[r] \in Request
  BY DEF TypeOK, Request
<1>3. UNCHANGED <<store, status, pending, batch, asked, dropped, decided, answers, crashes>> /\ At(r, "run")
  BY DEF Execute, row, hist
<1>4. PICK to \in Request :
         /\ Move(r, to)
         /\ to.pc \in {"run", "look", "mark"}
         /\ to.todo = req[r].todo /\ to.mine = req[r].mine
         /\ to.won = req[r].won \ {c}
         /\ to.won # {} => to.yes = req[r].yes
  <2> DEFINE some == [req[r] EXCEPT !.won = @ \ {c}]
             none == [req[r] EXCEPT !.won = {}, !.yes = {},
                                    !.pc = IF r \in Streams THEN "look" ELSE "mark"]
  <2>1. CASE req[r].won # {c}
    <3>1. some \in Request /\ some.pc = "run" /\ some.won = req[r].won \ {c}
          /\ some.yes = req[r].yes /\ some.todo = req[r].todo /\ some.mine = req[r].mine
      BY <1>2, <1>3 DEF Request, At
    <3> QED BY <1>1, <2>1, <3>1
  <2>2. CASE req[r].won = {c}
    <3>1. none \in Request /\ none.pc \in {"look", "mark"} /\ none.won = {}
          /\ none.todo = req[r].todo /\ none.mine = req[r].mine
      BY <1>2 DEF Request
    <3> QED BY <1>1, <2>2, <3>1
  <2> QED BY <2>1, <2>2
<1>5. /\ req' \in [Requests -> Request]
      /\ req'[r] = to
      /\ \A q \in Requests : q # r => req'[q] = req[q]
  BY <1>4, Moved DEF TypeOK
<1>6. Fresh' = Fresh
  BY <1>3 DEF Fresh
<1>7. /\ decided[c] = Said(r, c) /\ executed[c] = 0
      /\ decided[c] # "none"
  BY DEF Held, Said
<1>8. /\ executed' \in [Calls -> Nat]
      /\ executed'[c] = IF c \in req[r].yes THEN 1 ELSE 0
      /\ \A d \in Calls : d # c => executed'[d] = executed[d]
  BY <1>1, <1>2, <1>7 DEF Approves, TypeOK
<1>9. TypeOK'
  BY <1>3, <1>4, <1>5, <1>6, <1>8 DEF TypeOK
<1>10. PendingUndecided' /\ Batched'
  BY <1>3, <1>6 DEF PendingUndecided, Undecided, Batched
<1>11. RowsToSet'
  BY <1>3, <1>4, <1>5, <1>6 DEF RowsToSet, Setting, Undecided
<1>12. Swapping'
  BY <1>4, <1>5 DEF Swapping, At
<1>13. Held'
  <2>1. \A d \in req'[r].won : d # c /\ d \in req[r].won /\ Said(r, d)' = Said(r, d)
    BY <1>4, <1>5 DEF Said
  <2>2. \A q \in Requests : q # r =>
           req'[q] = req[q] /\ c \notin req[q].won /\ \A d \in Calls : Said(q, d)' = Said(q, d)
    BY <1>5 DEF Held, Said
  <2>3. \A q \in Requests : \A d \in req'[q].won :
           d \in req[q].won /\ d # c /\ d \in Calls /\ Said(q, d)' = Said(q, d)
    BY <1>5, <2>1, <2>2 DEF TypeOK, Request
  <2> QED BY <1>3, <1>8, <2>3 DEF Held
<1>14. Unexecuted' /\ ExecutedAsDecided'
  BY <1>2, <1>3, <1>7, <1>8 DEF Unexecuted, ExecutedAsDecided, Undecided, Said
<1> QED BY <1>9, <1>10, <1>11, <1>12, <1>13, <1>14

LEMMA AskApprovalInv ==
  ASSUME IInv, NEW r \in Requests, AskApproval(r)
  PROVE  IInv'
<1> USE DEF IInv
<1>1. PICK N \in NewCalls :
         /\ batch' = [c \in Calls |-> IF c \in N THEN N ELSE batch[c]]
         /\ status' = "suspended"
         /\ IF store = "list"
            THEN pending' = N /\ asked' = asked \cup N /\ Leave(r)
            ELSE /\ Move(r, [Idle EXCEPT !.pc = "clear", !.todo = N])
                 /\ UNCHANGED <<pending, asked>>
         /\ dropped' = IF store = "list" THEN dropped \cup pending ELSE dropped
  BY DEF AskApproval
<1>2. UNCHANGED <<store, decided, executed, answers, crashes>>
  BY DEF AskApproval
<1>3. N \subseteq Fresh /\ N \subseteq Calls /\ N # {}
  <2>1. PICK c \in Fresh : N = {d \in Fresh : d <= c}
    BY DEF NewCalls
  <2>2. c <= c
    BY BoundsAssumption DEF Fresh, Calls
  <2> QED BY <2>1, <2>2 DEF Fresh
<1>4. Fresh' = Fresh \ N
  BY <1>1, <1>3 DEF Fresh
<1>5. PICK to \in Request :
         /\ Move(r, to)
         /\ to.won = {} /\ to.mine = {}
         /\ \/ to.pc = "idle" /\ pending' = N /\ asked' = asked \cup N
            \/ to.pc = "clear" /\ to.todo = N /\ pending' = pending /\ asked' = asked
  <2> DEFINE writing == [Idle EXCEPT !.pc = "clear", !.todo = N]
  <2>1. CASE store = "list"
    <3>1. Idle.won = {} /\ Idle.mine = {} /\ Idle.pc = "idle"
      BY DEF Idle
    <3> QED BY <1>1, <2>1, <3>1, IdleType DEF Leave
  <2>2. CASE store # "list"
    <3>1. writing \in Request /\ writing.won = {} /\ writing.mine = {}
          /\ writing.pc = "clear" /\ writing.todo = N
      BY <1>3 DEF Idle, Request
    <3> QED BY <1>1, <2>2, <3>1
  <2> QED BY <2>1, <2>2
<1>6. /\ req' \in [Requests -> Request]
      /\ req'[r] = to
      /\ \A q \in Requests : q # r => req'[q] = req[q]
  BY <1>5, Moved DEF TypeOK
<1>7. TypeOK'
  <2>1. batch' \in [Calls -> SUBSET Calls]
    BY <1>1, <1>3 DEF TypeOK
  <2>2. (asked \cup pending \cup dropped)' \subseteq (Calls \ Fresh)'
    BY <1>1, <1>3, <1>4, <1>5 DEF TypeOK
  <2>3. status' \in StoredStatus
    BY <1>1 DEF StoredStatus, RunStatus
  <2> QED BY <1>2, <1>5, <1>6, <2>1, <2>2, <2>3 DEF TypeOK
<1>8. PendingUndecided' /\ Batched'
  BY <1>1, <1>2, <1>3, <1>4, <1>5 DEF PendingUndecided, Undecided, Batched, TypeOK
<1>9. RowsToSet'
  <2>1. \A c \in N : Undecided(c) /\ c \notin pending
    BY <1>3 DEF PendingUndecided, TypeOK
  <2>2. \A q \in Requests : Setting(q) => req[q].todo \cap N = {}
    BY <1>3 DEF RowsToSet
  <2> QED BY <1>2, <1>4, <1>5, <1>6, <2>1, <2>2 DEF RowsToSet, Setting, Undecided
<1>10. Swapping'
  BY <1>5, <1>6 DEF Swapping, At
<1>11. Held'
  BY <1>2, <1>5, <1>6 DEF Held, Said
<1>12. Unexecuted' /\ ExecutedAsDecided'
  BY <1>2 DEF Unexecuted, ExecutedAsDecided, Undecided
<1> QED BY <1>7, <1>8, <1>9, <1>10, <1>11, <1>12

LEMMA ClearRowsInv ==
  ASSUME IInv, NEW r \in Requests, ClearRows(r)
  PROVE  IInv'
<1> USE DEF IInv
<1> DEFINE to == [req[r] EXCEPT !.pc = "set"]
<1>1. /\ At(r, "clear") /\ pending' = {} /\ dropped' = dropped \cup pending /\ Move(r, to)
      /\ UNCHANGED <<store, status, batch, asked, decided, executed, answers, crashes>>
  BY DEF ClearRows, Go
<1>2. /\ to \in Request /\ to.todo = req[r].todo /\ to.pc = "set" /\ to.won = req[r].won
      /\ to.mine = req[r].mine /\ to.yes = req[r].yes
  BY DEF TypeOK, Request
<1>3. /\ req' \in [Requests -> Request]
      /\ req'[r] = to
      /\ \A q \in Requests : q # r => req'[q] = req[q]
  BY <1>1, <1>2, Moved DEF TypeOK
<1> HIDE DEF to
<1>4. Fresh' = Fresh
  BY <1>1 DEF Fresh
<1>5. TypeOK'
  BY <1>1, <1>2, <1>3, <1>4 DEF TypeOK
<1>6. PendingUndecided' /\ Batched'
  BY <1>1, <1>4 DEF PendingUndecided, Undecided, Batched
<1>7. RowsToSet'
  BY <1>1, <1>2, <1>3, <1>4 DEF RowsToSet, Setting, Undecided, At
<1>8. Swapping'
  BY <1>2, <1>3 DEF Swapping, At
<1>9. Held'
  BY <1>1, <1>2, <1>3 DEF Held, Said
<1>10. Unexecuted' /\ ExecutedAsDecided'
  BY <1>1 DEF Unexecuted, ExecutedAsDecided, Undecided
<1> QED BY <1>5, <1>6, <1>7, <1>8, <1>9, <1>10

LEMMA SetRowInv ==
  ASSUME IInv, NEW r \in Requests, SetRow(r)
  PROVE  IInv'
<1> USE DEF IInv
<1>1. PICK c \in req[r].todo :
         /\ pending' = pending \cup {c}
         /\ IF req[r].todo = {c}
            THEN asked' = asked \cup batch[c] /\ Leave(r)
            ELSE asked' = asked /\ Move(r, [req[r] EXCEPT !.todo = @ \ {c}])
  BY DEF SetRow
<1>2. At(r, "set") /\ UNCHANGED <<store, status, batch, dropped, decided, executed, answers, crashes>>
  BY DEF SetRow
<1>3. c \in Calls /\ c \notin Fresh /\ Undecided(c)
  BY <1>2 DEF RowsToSet, Setting, At, TypeOK, Request
<1>4. PICK to \in Request :
         /\ Move(r, to)
         /\ \/ to.pc = "idle" /\ to.won = {} /\ to.mine = {} /\ asked' = asked \cup batch[c]
            \/ /\ to.pc = "set" /\ to.todo = req[r].todo \ {c} /\ to.won = req[r].won
               /\ to.mine = req[r].mine /\ to.yes = req[r].yes /\ asked' = asked
  <2> DEFINE less == [req[r] EXCEPT !.todo = @ \ {c}]
  <2>1. CASE req[r].todo = {c}
    <3>1. Idle.won = {} /\ Idle.mine = {} /\ Idle.pc = "idle"
      BY DEF Idle
    <3> QED BY <1>1, <2>1, <3>1, IdleType DEF Leave
  <2>2. CASE req[r].todo # {c}
    <3>1. /\ less \in Request /\ less.pc = "set" /\ less.todo = req[r].todo \ {c}
          /\ less.won = req[r].won /\ less.mine = req[r].mine /\ less.yes = req[r].yes
      BY <1>2 DEF TypeOK, Request, At
    <3> QED BY <1>1, <2>2, <3>1
  <2> QED BY <2>1, <2>2
<1>5. /\ req' \in [Requests -> Request]
      /\ req'[r] = to
      /\ \A q \in Requests : q # r => req'[q] = req[q]
  BY <1>4, Moved DEF TypeOK
<1>6. Fresh' = Fresh
  BY <1>2 DEF Fresh
<1>7. TypeOK'
  <2>1. batch[c] \subseteq Calls \ Fresh
    BY <1>3 DEF TypeOK, Batched
  <2>2. (asked \cup pending \cup dropped)' \subseteq (Calls \ Fresh)'
    BY <1>1, <1>2, <1>3, <1>4, <1>6, <2>1 DEF TypeOK
  <2>3. \A q \in Requests : \A d \in req'[q].mine : decided'[d] # "none"
    BY <1>2, <1>4, <1>5 DEF TypeOK
  <2> QED BY <1>2, <1>5, <2>2, <2>3 DEF TypeOK
<1>8. PendingUndecided' /\ Batched'
  BY <1>2, <1>3, <1>6, <1>1 DEF PendingUndecided, Undecided, Batched
<1>9. RowsToSet'
  BY <1>1, <1>2, <1>4, <1>5, <1>6 DEF RowsToSet, Setting, Undecided, At
<1>10. Swapping'
  BY <1>4, <1>5 DEF Swapping, At
<1>11. Held'
  BY <1>2, <1>4, <1>5 DEF Held, Said
<1>12. Unexecuted' /\ ExecutedAsDecided'
  BY <1>2 DEF Unexecuted, ExecutedAsDecided, Undecided
<1> QED BY <1>7, <1>8, <1>9, <1>10, <1>11, <1>12

LEMMA InitInv == Init => IInv
<1> SUFFICES ASSUME Init PROVE IInv
  OBVIOUS
<1> DEFINE opening == [Idle EXCEPT !.pc = "turn"]
<1>1. /\ opening \in Request /\ opening.pc = "turn" /\ opening.won = {}
      /\ opening.mine = {} /\ opening.todo = {}
  BY DEF Idle, Request
<1>2. /\ Idle \in Request /\ Idle.pc = "idle" /\ Idle.won = {} /\ Idle.mine = {} /\ Idle.todo = {}
  BY IdleType DEF Idle
<1>3. \A r \in Requests : /\ req[r] \in Request /\ req[r].pc \in {"turn", "idle"}
                         /\ req[r].won = {} /\ req[r].mine = {} /\ req[r].todo = {}
  BY <1>1, <1>2 DEF Init
<1>4. Fresh = Calls
  BY DEF Init, Fresh
<1>5. TypeOK
  <2>1. req \in [Requests -> Request]
    BY <1>1, <1>2 DEF Init
  <2> QED BY <1>3, <1>4, <2>1, BoundsAssumption
        DEF Init, TypeOK, StoredStatus, RunStatus, Answer
<1> QED BY <1>3, <1>4, <1>5
      DEF Init, IInv, Batched, PendingUndecided, RowsToSet, Setting, Swapping, At, Held,
          Unexecuted, ExecutedAsDecided, Undecided

\* The handlers that claim, and those that only move their request.
LEMMA ClaimInv ==
  ASSUME IInv, NEW r \in Requests, ReadList(r) \/ Swap(r) \/ ClaimRow(r)
  PROVE  IInv'
<1>1. CASE ReadList(r)
  <2>1. PICK c \in req[r].todo :
           IF status = "suspended" /\ c \in pending
           THEN Move(r, [req[r] EXCEPT !.pc = "swap", !.call = c, !.seen = pending])
           ELSE AfterClaim(r, c, FALSE)
    BY <1>1 DEF ReadList
  <2>2. c \in Calls
    BY DEF IInv, TypeOK, Request
  <2>3. UNCHANGED <<store, status, pending, batch, asked, dropped, decided, executed, answers, crashes>>
    BY <1>1 DEF ReadList, row, hist
  <2>4. CASE AfterClaim(r, c, FALSE)
    BY LostClaim, <2>2, <2>3, <2>4
  <2>5. CASE c \in pending /\ Move(r, [req[r] EXCEPT !.pc = "swap", !.call = c, !.seen = pending])
    <3> DEFINE to == [req[r] EXCEPT !.pc = "swap", !.call = c, !.seen = pending]
    <3>1. /\ to \in Request /\ to.pc = "swap" /\ to.call = c /\ to.seen = pending
          /\ to.todo = req[r].todo /\ to.won = req[r].won /\ to.yes = req[r].yes
          /\ to.mine = req[r].mine
      BY <2>2 DEF IInv, TypeOK, Request
    <3>2. \A d \in to.mine : ~Undecided(d)
      BY <3>1 DEF IInv, TypeOK, Undecided
    <3>3. Move(r, to)
      BY <2>5
    <3>4. status' \in StoredStatus /\ answers' \in 0..MaxAnswers /\ crashes' \in 0..MaxCrashes
      BY <2>3 DEF IInv, TypeOK
    <3> HIDE DEF to
    <3> QED BY QuietStep, <2>3, <2>5, <3>1, <3>2, <3>3, <3>4
  <2> QED BY <2>1, <2>4, <2>5
<1>2. CASE Swap(r)
  <2> DEFINE c == req[r].call
  <2>1. c \in Calls /\ c \in req[r].seen
    BY <1>2 DEF IInv, TypeOK, Request, Swapping, Swap, At
  <2>2. UNCHANGED <<store, batch, asked, dropped, executed, answers, crashes>>
    BY <1>2 DEF Swap, hist
  <2>3. CASE Unchanged(r)
    <3>1. /\ pending' = pending \ {c} /\ c \in pending
          /\ decided' = [decided EXCEPT ![c] = Said(r, c)]
          /\ AfterClaim(r, c, TRUE)
          /\ status' \in {"approved", "denied", status}
      BY <1>2, <2>1, <2>3 DEF Swap, Unchanged, Said
    <3>2. status' \in StoredStatus
      BY <3>1 DEF StoredStatus, IInv, TypeOK
    <3> HIDE DEF c
    <3> QED BY WonClaim, <2>1, <2>2, <3>1, <3>2
  <2>4. CASE ~Unchanged(r)
    <3>1. AfterClaim(r, c, FALSE) /\ UNCHANGED <<status, pending, decided>>
      BY <1>2, <2>4 DEF Swap, row
    <3> HIDE DEF c
    <3> QED BY LostClaim, <2>1, <2>2, <3>1
  <2> QED BY <2>3, <2>4
<1>3. CASE ClaimRow(r)
  <2>1. PICK c \in req[r].todo :
           IF c \in pending
           THEN /\ pending' = pending \ {c}
                /\ decided' = [decided EXCEPT ![c] = Said(r, c)]
                /\ AfterClaim(r, c, TRUE)
           ELSE /\ AfterClaim(r, c, FALSE)
                /\ UNCHANGED <<pending, decided>>
    BY <1>3 DEF ClaimRow
  <2>2. c \in Calls /\ status \in StoredStatus
    BY DEF IInv, TypeOK, Request
  <2>3. UNCHANGED <<store, status, batch, asked, dropped, executed, answers, crashes>>
    BY <1>3 DEF ClaimRow, hist
  <2>4. CASE c \in pending
    BY WonClaim, <2>1, <2>2, <2>3, <2>4
  <2>5. CASE c \notin pending
    BY LostClaim, <2>1, <2>2, <2>3, <2>5
  <2> QED BY <2>4, <2>5
<1> QED BY <1>1, <1>2, <1>3

LEMMA MoveInv ==
  ASSUME IInv, NEW r \in Requests,
         Receive(r) \/ LookForMore(r) \/ MarkRunning(r) \/ EndTurn(r) \/ Crash(r)
  PROVE  IInv'
<1> USE DEF IInv
<1>1. /\ Idle \in Request /\ Idle.pc = "idle" /\ Idle.won = {} /\ Idle.mine = {}
      /\ status \in StoredStatus /\ answers \in 0..MaxAnswers /\ crashes \in 0..MaxCrashes
  BY IdleType DEF Idle, TypeOK
<1>2. ASSUME NEW x \in {"mark", "turn"}
      PROVE  LET to == [req[r] EXCEPT !.pc = x] IN
             /\ to \in Request /\ to.pc = x /\ to.won = req[r].won /\ to.yes = req[r].yes
             /\ \A d \in to.mine : ~Undecided(d)
  BY DEF TypeOK, Request, Undecided
<1>3. CASE Receive(r)
  <2>1. PICK C \in SUBSET (pending \cap asked), yes \in SUBSET (pending \cap asked) :
           Move(r, [Idle EXCEPT !.pc = "claim", !.todo = C, !.yes = yes])
    BY <1>3 DEF Receive
  <2> DEFINE to == [Idle EXCEPT !.pc = "claim", !.todo = C, !.yes = yes]
  <2>2. to \in Request /\ to.pc = "claim" /\ to.won = {} /\ to.mine = {}
    BY DEF Idle, Request, TypeOK
  <2>3. UNCHANGED <<store, status, pending, batch, asked, dropped, decided, executed, crashes>>
    BY <1>3 DEF Receive, row, hist
  <2>5. answers < MaxAnswers /\ answers' = answers + 1
    BY <1>3 DEF Receive
  <2>6. answers' \in 0..MaxAnswers
    BY <1>1, <2>5, BoundsAssumption
  <2>4. Move(r, to)
    BY <2>1
  <2> HIDE DEF to
  <2> QED BY QuietStep, <1>1, <2>2, <2>3, <2>4, <2>6
<1>4. CASE LookForMore(r)
  <2>1. UNCHANGED <<store, status, pending, batch, asked, dropped, decided, executed, answers, crashes>>
    BY <1>4 DEF LookForMore, row, hist
  <2>2. CASE Leave(r)
    BY QuietStep, <1>1, <2>1, <2>2 DEF Leave
  <2>3. CASE Go(r, "mark")
    <3> DEFINE to == [req[r] EXCEPT !.pc = "mark"]
    <3>1. to \in Request /\ to.pc = "mark" /\ to.won = req[r].won /\ to.yes = req[r].yes
          /\ (\A d \in to.mine : ~Undecided(d)) /\ Move(r, to)
      BY <1>2, <2>3 DEF Go
    <3> HIDE DEF to
    <3> QED BY QuietStep, <1>1, <2>1, <3>1
  <2> QED BY <1>4, <2>2, <2>3 DEF LookForMore
<1>5. CASE MarkRunning(r)
  <2> DEFINE to == [req[r] EXCEPT !.pc = "turn"]
  <2>1. to \in Request /\ to.pc = "turn" /\ to.won = req[r].won /\ to.yes = req[r].yes
        /\ (\A d \in to.mine : ~Undecided(d)) /\ Move(r, to)
    BY <1>2, <1>5 DEF Go, MarkRunning
  <2>2. /\ UNCHANGED <<store, pending, batch, asked, decided, executed, answers, crashes>>
        /\ status' \in StoredStatus /\ dropped' \subseteq dropped \cup pending
    BY <1>5 DEF MarkRunning, StoredStatus, RunStatus
  <2> HIDE DEF to
  <2> QED BY QuietStep, <1>1, <2>1, <2>2
<1>6. CASE EndTurn(r)
  <2>1. /\ UNCHANGED <<store, pending, batch, asked, dropped, decided, executed, answers, crashes>>
        /\ Leave(r) /\ status' \in StoredStatus
    BY <1>6, EndingsAssumption DEF EndTurn, hist, Settled, StoredStatus, RunStatus
  <2> QED BY QuietStep, <1>1, <2>1 DEF Leave
<1>7. CASE Crash(r)
  <2>1. /\ UNCHANGED <<store, status, pending, batch, asked, dropped, decided, executed, answers>>
        /\ Leave(r) /\ crashes' \in 0..MaxCrashes
    BY <1>1, <1>7, BoundsAssumption DEF Crash, row, hist
  <2> QED BY QuietStep, <1>1, <2>1 DEF Leave
<1> QED BY <1>3, <1>4, <1>5, <1>6, <1>7

LEMMA StutterInv == ASSUME IInv, UNCHANGED vars PROVE IInv'
BY DEF vars, row, hist, IInv, TypeOK, Fresh, Batched, PendingUndecided, RowsToSet, Setting,
       Swapping, At, Held, Said, Unexecuted, ExecutedAsDecided, Undecided

LEMMA NextInv == ASSUME IInv, [Next]_vars PROVE IInv'
<1>1. CASE UNCHANGED vars
  BY StutterInv, <1>1
<1>2. ASSUME NEW r \in Requests, Receive(r) \/ Handle(r) \/ Crash(r)
      PROVE  IInv'
  BY <1>2, ClaimInv, MoveInv, ExecuteInv, AskApprovalInv, ClearRowsInv, SetRowInv
     DEF Handle, Turn
<1> QED BY <1>1, <1>2 DEF Next

\* The run, the calls and the requests keep their types (agent-stream.ts,
\* agent-runner.ts), for any number of calls, answers and deaths.
THEOREM TypeCorrect == Spec => []TypeOK
<1>1. IInv => TypeOK
  BY DEF IInv
<1> QED BY InitInv, NextInv, <1>1, PTL DEF Spec

\* However many answers to one tool call race, its tool is run at most once and
\* only if the answer that claimed it approved it: `resolveApproval` is a claim,
\* as a swap of the list and as a conditional update of the row.
THEOREM RunsAsDecided == Spec => []ExecutedAsDecided
<1>1. IInv => ExecutedAsDecided
  BY DEF IInv
<1> QED BY InitInv, NextInv, <1>1, PTL DEF Spec
----------------------------------------------------------------------------
\* A step that asks for no call and sets no row keeps every call accounted for,
\* if what it takes off the pending ones is closed.
LEMMA AccountedStep ==
  ASSUME AnswerInv, NEW r \in Requests, NEW to \in Request, Move(r, to),
         UNCHANGED <<batch, asked>>,
         \A d \in Calls : Closed(d) => Closed(d)',
         \A d \in Calls : d \in pending => d \in pending' \/ Closed(d)',
         to.pc \in {"clear", "set"} =>
           /\ req[r].pc \in {"clear", to.pc} /\ to.todo = req[r].todo,
         to.pc \in {"claim", "swap"} => to.todo \subseteq asked,
         to.mine \subseteq asked,
         r \in Streams /\ to.pc \in {"mark", "turn"} =>
           \A c \in to.mine : \A d \in batch[c] : Closed(d)'
  PROVE  ClaimsAreAsked' /\ Accounted' /\ ContinuesWhenAnswered'
<1> USE DEF AnswerInv
<1>1. /\ req' \in [Requests -> Request]
      /\ req'[r] = to
      /\ \A q \in Requests : q # r => req'[q] = req[q]
  BY Moved DEF IInv, TypeOK
<1>2. asked \subseteq Calls /\ batch \in [Calls -> SUBSET Calls] /\ Streams \subseteq Requests
      /\ \A q \in Requests : req[q].todo \subseteq Calls /\ req[q].mine \subseteq Calls
  BY DEF IInv, TypeOK, Request, Requests
<1>3. ClaimsAreAsked'
  BY <1>1 DEF ClaimsAreAsked
<1>4. Accounted'
  <2>1. \A c \in asked : \A d \in batch[c] : d \in pending' \/ Closed(d)'
    BY <1>2 DEF Accounted
  <2>2. ASSUME NEW q \in Requests, Setting(q)', NEW c \in req'[q].todo, NEW d \in batch[c]
        PROVE  d \in req'[q].todo \/ (At(q, "set")' /\ (d \in pending' \/ Closed(d)'))
    <3>1. Setting(q) /\ req'[q].todo = req[q].todo /\ (At(q, "set") => At(q, "set")')
      BY <1>1, <2>2 DEF Setting, At
    <3>2. d \in req[q].todo \/ (At(q, "set") /\ (d \in pending \/ Closed(d)))
      BY <2>2, <3>1 DEF Accounted
    <3>3. d \in Calls
      BY <1>2, <3>1
    <3> QED BY <3>1, <3>2, <3>3
  <2> QED BY <2>1, <2>2 DEF Accounted
<1>5. ContinuesWhenAnswered'
  <2>1. ASSUME NEW q \in Streams, At(q, "mark")' \/ At(q, "turn")',
               NEW c \in req'[q].mine, NEW d \in batch[c]
        PROVE  Closed(d)'
    <3>1. CASE q = r
      BY <1>1, <2>1, <3>1 DEF At
    <3>2. CASE q # r
      BY <1>1, <1>2, <2>1, <3>2 DEF ContinuesWhenAnswered, At, Closed, Undecided
    <3> QED BY <3>1, <3>2
  <2> QED BY <2>1 DEF ContinuesWhenAnswered, Closed, Undecided
<1> QED BY <1>3, <1>4, <1>5

\* The steps whose request neither claims nor sets a row.
LEMMA AccountedMove ==
  ASSUME AnswerInv, NEW r \in Requests,
         \/ Receive(r) \/ Execute(r) \/ LookForMore(r) \/ MarkRunning(r)
         \/ EndTurn(r) \/ Crash(r) \/ ClearRows(r)
  PROVE  ClaimsAreAsked' /\ Accounted' /\ ContinuesWhenAnswered'
<1> USE DEF AnswerInv
<1>1. Idle \in Request /\ Idle.pc = "idle" /\ Idle.mine = {}
  BY IdleType DEF Idle
<1>2. /\ req[r] \in Request /\ req[r].mine \subseteq asked
      /\ asked \cup pending \cup dropped \subseteq Calls /\ batch \in [Calls -> SUBSET Calls]
  BY DEF IInv, TypeOK, ClaimsAreAsked
<1>3. ASSUME Leave(r), UNCHANGED <<batch, asked, pending, decided, dropped>>
      PROVE  ClaimsAreAsked' /\ Accounted' /\ ContinuesWhenAnswered'
  BY AccountedStep, <1>1, <1>3 DEF Leave, Closed, Undecided
<1>4. ASSUME NEW x \in {"mark", "turn", "set"}
      PROVE  LET to == [req[r] EXCEPT !.pc = x] IN
             /\ to \in Request /\ to.pc = x /\ to.todo = req[r].todo /\ to.mine = req[r].mine
  BY <1>2 DEF Request
<1>5. CASE Receive(r)
  <2>1. PICK C \in SUBSET (pending \cap asked), yes \in SUBSET (pending \cap asked) :
           Move(r, [Idle EXCEPT !.pc = "claim", !.todo = C, !.yes = yes])
    BY <1>5 DEF Receive
  <2> DEFINE to == [Idle EXCEPT !.pc = "claim", !.todo = C, !.yes = yes]
  <2>2. to \in Request /\ to.pc = "claim" /\ to.todo = C /\ to.mine = {} /\ Move(r, to)
    BY <1>2, <2>1 DEF Idle, Request
  <2>3. UNCHANGED <<batch, asked, pending, decided, dropped>>
    BY <1>5 DEF Receive, row, hist
  <2> HIDE DEF to
  <2> QED BY AccountedStep, <2>2, <2>3 DEF Closed, Undecided
<1>6. CASE Execute(r)
  <2>1. PICK to \in Request :
           /\ Move(r, to)
           /\ to.pc \in {"run", "look", "mark"} /\ (r \in Streams => to.pc # "mark")
           /\ to.mine = req[r].mine
    <3>1. PICK c \in req[r].won :
             IF req[r].won # {c}
             THEN Move(r, [req[r] EXCEPT !.won = @ \ {c}])
             ELSE Move(r, [req[r] EXCEPT !.won = {}, !.yes = {},
                                         !.pc = IF r \in Streams THEN "look" ELSE "mark"])
      BY <1>6 DEF Execute
    <3> DEFINE some == [req[r] EXCEPT !.won = @ \ {c}]
               none == [req[r] EXCEPT !.won = {}, !.yes = {},
                                      !.pc = IF r \in Streams THEN "look" ELSE "mark"]
    <3>2. CASE req[r].won # {c}
      <4>1. some \in Request /\ some.pc = "run" /\ some.mine = req[r].mine
        BY <1>2, <1>6 DEF Request, Execute, At
      <4> QED BY <3>1, <3>2, <4>1
    <3>3. CASE req[r].won = {c}
      <4>1. /\ none \in Request /\ none.pc \in {"look", "mark"}
            /\ (r \in Streams => none.pc = "look") /\ none.mine = req[r].mine
        BY <1>2 DEF Request
      <4>2. Move(r, none)
        BY <3>1, <3>3
      <4> HIDE DEF none
      <4> QED BY <4>1, <4>2
    <3> QED BY <3>2, <3>3
  <2>2. UNCHANGED <<batch, asked, pending, decided, dropped>>
    BY <1>6 DEF Execute, row, hist
  <2> QED BY AccountedStep, <1>2, <2>1, <2>2 DEF Closed, Undecided
<1>7. CASE LookForMore(r)
  <2>1. UNCHANGED <<batch, asked, pending, decided, dropped>>
    BY <1>7 DEF LookForMore, row, hist
  <2>2. CASE Leave(r)
    BY <1>3, <2>1, <2>2
  <2>3. CASE pending = {} /\ Go(r, "mark")
    <3> DEFINE to == [req[r] EXCEPT !.pc = "mark"]
    <3>1. to \in Request /\ to.pc = "mark" /\ to.mine = req[r].mine /\ Move(r, to)
      BY <1>4, <2>3 DEF Go
    <3>2. \A c \in req[r].mine : \A d \in batch[c] : Closed(d)
      BY <1>2, <2>3 DEF Accounted
    <3>3. \A d : Closed(d)' <=> Closed(d)
      BY <2>1 DEF Closed, Undecided
    <3> HIDE DEF to
    <3> QED BY AccountedStep, <1>2, <2>1, <3>1, <3>2, <3>3
  <2> QED BY <1>7, <2>2, <2>3 DEF LookForMore, Remaining
<1>8. CASE MarkRunning(r)
  <2> DEFINE to == [req[r] EXCEPT !.pc = "turn"]
  <2>1. to \in Request /\ to.pc = "turn" /\ to.mine = req[r].mine /\ Move(r, to)
    BY <1>4, <1>8 DEF Go, MarkRunning
  <2>2. /\ UNCHANGED <<batch, asked, pending, decided>> /\ dropped \subseteq dropped'
        /\ At(r, "mark")
    BY <1>8 DEF MarkRunning
  <2>3. \A d : Closed(d) => Closed(d)'
    BY <2>2 DEF Closed, Undecided
  <2>4. r \in Streams => \A c \in req[r].mine : \A d \in batch[c] : Closed(d)
    BY <2>2 DEF ContinuesWhenAnswered, Closed, Undecided
  <2> HIDE DEF to
  <2> QED BY AccountedStep, <1>2, <2>1, <2>2, <2>3, <2>4
<1>9. CASE EndTurn(r)
  BY <1>3, <1>9 DEF EndTurn, hist
<1>10. CASE Crash(r)
  BY <1>3, <1>10 DEF Crash, row, hist
<1>11. CASE ClearRows(r)
  <2> DEFINE to == [req[r] EXCEPT !.pc = "set"]
  <2>1. to \in Request /\ to.pc = "set" /\ to.mine = req[r].mine /\ to.todo = req[r].todo
        /\ Move(r, to)
    BY <1>4, <1>11 DEF Go, ClearRows
  <2>2. /\ UNCHANGED <<batch, asked, decided>> /\ dropped' = dropped \cup pending
        /\ req[r].pc = "clear"
    BY <1>11 DEF ClearRows, At
  <2>3. \A d : (Closed(d) => Closed(d)') /\ (d \in pending => Closed(d)')
    BY <2>2 DEF Closed, Undecided
  <2> HIDE DEF to
  <2> QED BY AccountedStep, <1>2, <2>1, <2>2, <2>3
<1> QED BY <1>5, <1>6, <1>7, <1>8, <1>9, <1>10, <1>11

\* The steps that claim.
LEMMA AccountedClaim ==
  ASSUME AnswerInv, NEW r \in Requests, ReadList(r) \/ Swap(r) \/ ClaimRow(r)
  PROVE  ClaimsAreAsked' /\ Accounted' /\ ContinuesWhenAnswered'
<1> USE DEF AnswerInv
<1>1. /\ req[r] \in Request /\ req[r].mine \subseteq asked
      /\ asked \cup pending \cup dropped \subseteq Calls /\ batch \in [Calls -> SUBSET Calls]
      /\ decided \in [Calls -> Answer]
  BY DEF IInv, TypeOK, ClaimsAreAsked
<1>2. req[r].todo \subseteq asked
  BY DEF ClaimsAreAsked, ReadList, Swap, ClaimRow, At
<1>3. ASSUME NEW c \in req[r].todo, NEW won \in BOOLEAN, AfterClaim(r, c, won),
             UNCHANGED <<batch, asked, dropped>>,
             \/ UNCHANGED <<pending, decided>>
             \/ pending' = pending \ {c} /\ decided' = [decided EXCEPT ![c] = Said(r, c)]
      PROVE  ClaimsAreAsked' /\ Accounted' /\ ContinuesWhenAnswered'
  <2>1. c \in Calls
    BY <1>1, <1>2
  <2>2. PICK to \in Request :
           /\ Move(r, to)
           /\ to.pc \in {"idle", "claim", "run"}
           /\ to.todo \subseteq req[r].todo
           /\ to.mine \subseteq req[r].mine \cup (IF won THEN {c} ELSE {})
    BY AfterClaimMoves, <1>3, <2>1
  <2>3. \A d \in Calls : Closed(d) => Closed(d)'
    BY <1>1, <1>3 DEF Closed, Undecided, Said
  <2>5. \A d \in Calls : d \in pending => d \in pending' \/ Closed(d)'
    BY <1>1, <1>3 DEF Closed, Undecided, Said
  <2>6. /\ to.pc \notin {"clear", "set", "mark", "turn"}
        /\ UNCHANGED <<batch, asked>>
    BY <1>3, <2>2
  <2>4. to.mine \subseteq asked /\ to.todo \subseteq asked
    BY <1>1, <1>2, <2>2
  <2> QED BY AccountedStep, <2>2, <2>3, <2>4, <2>5, <2>6
<1>4. CASE ReadList(r)
  <2>1. PICK c \in req[r].todo :
           \/ Move(r, [req[r] EXCEPT !.pc = "swap", !.call = c, !.seen = pending])
           \/ AfterClaim(r, c, FALSE)
    BY <1>4 DEF ReadList
  <2>2. UNCHANGED <<batch, asked, pending, decided, dropped>>
    BY <1>4 DEF ReadList, row, hist
  <2>3. CASE Move(r, [req[r] EXCEPT !.pc = "swap", !.call = c, !.seen = pending])
    <3> DEFINE to == [req[r] EXCEPT !.pc = "swap", !.call = c, !.seen = pending]
    <3>1. /\ to \in Request /\ to.pc = "swap" /\ to.todo = req[r].todo
          /\ to.mine = req[r].mine /\ Move(r, to)
      BY <1>1, <1>2, <2>3 DEF Request
    <3> HIDE DEF to
    <3> QED BY AccountedStep, <1>1, <1>2, <2>2, <3>1 DEF Closed, Undecided
  <2> QED BY <1>3, <2>1, <2>2, <2>3
<1>5. CASE Swap(r)
  <2>1. req[r].call \in req[r].todo
    BY <1>5 DEF IInv, Swapping, Swap
  <2>2. /\ UNCHANGED <<batch, asked, dropped>>
        /\ \/ AfterClaim(r, req[r].call, FALSE) /\ UNCHANGED <<pending, decided>>
           \/ /\ AfterClaim(r, req[r].call, TRUE)
              /\ pending' = pending \ {req[r].call}
              /\ decided' = [decided EXCEPT ![req[r].call] = Said(r, req[r].call)]
    BY <1>5 DEF Swap, hist, row, Unchanged
  <2> QED BY <1>3, <2>1, <2>2
<1>6. CASE ClaimRow(r)
  <2>1. PICK c \in req[r].todo :
           \/ AfterClaim(r, c, FALSE) /\ UNCHANGED <<pending, decided>>
           \/ /\ AfterClaim(r, c, TRUE)
              /\ pending' = pending \ {c}
              /\ decided' = [decided EXCEPT ![c] = Said(r, c)]
    BY <1>6 DEF ClaimRow
  <2>2. UNCHANGED <<batch, asked, dropped>>
    BY <1>6 DEF ClaimRow, hist
  <2> QED BY <1>3, <2>1, <2>2
<1> QED BY <1>4, <1>5, <1>6

\* New calls are pending at once, or yet to be written.
LEMMA AccountedAsk ==
  ASSUME AnswerInv, NEW r \in Requests, AskApproval(r)
  PROVE  ClaimsAreAsked' /\ Accounted' /\ ContinuesWhenAnswered'
<1> USE DEF AnswerInv
<1>1. PICK N \in NewCalls :
         /\ batch' = [c \in Calls |-> IF c \in N THEN N ELSE batch[c]]
         /\ \/ pending' = N /\ asked' = asked \cup N /\ Leave(r) /\ dropped' = dropped \cup pending
            \/ /\ Move(r, [Idle EXCEPT !.pc = "clear", !.todo = N])
               /\ UNCHANGED <<pending, asked, dropped>>
  BY DEF AskApproval
<1>2. UNCHANGED decided
  BY DEF AskApproval
<1>3. N \subseteq Fresh /\ N \subseteq Calls
  BY DEF NewCalls, Fresh
<1>4. /\ asked \subseteq Calls \ Fresh
      /\ \A q \in Requests : req[q].mine \subseteq asked
      /\ \A q \in Requests : Setting(q) => req[q].todo \subseteq Calls \ Fresh
  BY DEF ClaimsAreAsked, IInv, TypeOK, RowsToSet, Request
<1>5. \A c \in Calls \ Fresh : batch'[c] = batch[c]
  BY <1>1, <1>3
<1>6. \A c \in N : batch'[c] = N
  BY <1>1, <1>3
<1>7. PICK to \in Request :
         /\ Move(r, to) /\ to.mine = {}
         /\ \/ /\ to.pc = "idle" /\ pending' = N /\ asked' = asked \cup N
               /\ dropped' = dropped \cup pending
            \/ /\ to.pc = "clear" /\ to.todo = N
               /\ UNCHANGED <<pending, asked, dropped>>
  <2> DEFINE writing == [Idle EXCEPT !.pc = "clear", !.todo = N]
  <2>1. /\ writing \in Request /\ writing.mine = {} /\ writing.pc = "clear" /\ writing.todo = N
        /\ Idle \in Request /\ Idle.mine = {} /\ Idle.pc = "idle"
    BY <1>3, IdleType DEF Idle, Request
  <2>2. CASE Leave(r) /\ pending' = N /\ asked' = asked \cup N /\ dropped' = dropped \cup pending
    BY <2>1, <2>2 DEF Leave
  <2>3. CASE Move(r, writing) /\ UNCHANGED <<pending, asked, dropped>>
    <3> HIDE DEF writing
    <3> QED BY <2>1, <2>3
  <2> QED BY <1>1, <2>2, <2>3
<1>8. /\ req' \in [Requests -> Request]
      /\ req'[r] = to
      /\ \A q \in Requests : q # r => req'[q] = req[q]
  BY <1>7, Moved DEF IInv, TypeOK
<1>9. \A d : /\ Closed(d) => Closed(d)'
             /\ d \in pending => d \in pending' \/ Closed(d)'
  BY <1>2, <1>7 DEF Closed, Undecided
<1>10. ClaimsAreAsked'
  BY <1>4, <1>7, <1>8 DEF ClaimsAreAsked
<1>11. Accounted'
  <2>1. \A c \in asked' : \A d \in batch'[c] : d \in pending' \/ Closed(d)'
    BY <1>4, <1>5, <1>6, <1>7, <1>9 DEF Accounted
  <2>2. ASSUME NEW q \in Requests, Setting(q)', NEW c \in req'[q].todo, NEW d \in batch'[c]
        PROVE  d \in req'[q].todo \/ (At(q, "set")' /\ (d \in pending' \/ Closed(d)'))
    <3>1. CASE q = r
      BY <1>6, <1>7, <1>8, <2>2, <3>1 DEF Setting
    <3>2. CASE q # r
      <4>1. Setting(q) /\ req'[q] = req[q] /\ c \in Calls \ Fresh /\ d \in batch[c]
        BY <1>4, <1>5, <1>8, <2>2, <3>2 DEF Setting
      <4> QED BY <1>9, <4>1 DEF Accounted, At
    <3> QED BY <3>1, <3>2
  <2> QED BY <2>1, <2>2 DEF Accounted
<1>12. ContinuesWhenAnswered'
  <2>1. ASSUME NEW q \in Streams, At(q, "mark")' \/ At(q, "turn")',
               NEW c \in req'[q].mine, NEW d \in batch'[c]
        PROVE  Closed(d)'
    <3>1. q \in Requests /\ q # r /\ req'[q] = req[q]
      BY <1>7, <1>8, <2>1 DEF Requests
    <3>2. c \in Calls \ Fresh
      BY <1>4, <2>1, <3>1
    <3> QED BY <1>5, <1>9, <2>1, <3>1, <3>2 DEF ContinuesWhenAnswered, At, Closed, Undecided
  <2> QED BY <2>1 DEF ContinuesWhenAnswered, Closed, Undecided
<1> QED BY <1>10, <1>11, <1>12

\* When the last row is set, the whole batch is pending or closed.
LEMMA AccountedSet ==
  ASSUME AnswerInv, NEW r \in Requests, SetRow(r)
  PROVE  ClaimsAreAsked' /\ Accounted' /\ ContinuesWhenAnswered'
<1> USE DEF AnswerInv
<1>1. PICK c \in req[r].todo :
         /\ pending' = pending \cup {c}
         /\ IF req[r].todo = {c}
            THEN asked' = asked \cup batch[c] /\ Leave(r)
            ELSE asked' = asked /\ Move(r, [req[r] EXCEPT !.todo = @ \ {c}])
  BY DEF SetRow
<1>2. At(r, "set") /\ UNCHANGED <<batch, dropped, decided>>
  BY DEF SetRow
<1>3. PICK to \in Request :
         /\ Move(r, to)
         /\ to.mine \subseteq req[r].mine
         /\ \/ to.pc = "idle" /\ asked' = asked \cup batch[c] /\ req[r].todo = {c}
            \/ to.pc = "set" /\ to.todo = req[r].todo \ {c} /\ asked' = asked
  <2> DEFINE less == [req[r] EXCEPT !.todo = @ \ {c}]
  <2>1. CASE req[r].todo = {c}
    <3>1. Idle.mine = {} /\ Idle.pc = "idle"
      BY DEF Idle
    <3> QED BY <1>1, <2>1, <3>1, IdleType DEF Leave
  <2>2. CASE req[r].todo # {c}
    <3>1. /\ less \in Request /\ less.pc = "set" /\ less.todo = req[r].todo \ {c}
          /\ less.mine = req[r].mine
      BY <1>2 DEF IInv, TypeOK, Request, At
    <3> QED BY <1>1, <2>2, <3>1
  <2> QED BY <2>1, <2>2
<1>4. /\ req' \in [Requests -> Request]
      /\ req'[r] = to
      /\ \A q \in Requests : q # r => req'[q] = req[q]
  BY <1>3, Moved DEF IInv, TypeOK
<1>5. \A d : (Closed(d) <=> Closed(d)') /\ (d \in pending => d \in pending')
  BY <1>1, <1>2 DEF Closed, Undecided
<1>6. \A e \in req[r].todo : \A d \in batch[e] : d \in req[r].todo \/ d \in pending \/ Closed(d)
  BY <1>2 DEF Accounted, Setting, At
<1>7. ClaimsAreAsked'
  BY <1>3, <1>4 DEF ClaimsAreAsked
<1>8. Accounted'
  <2>1. ASSUME NEW e \in asked', NEW d \in batch'[e]
        PROVE  d \in pending' \/ Closed(d)'
    <3>1. CASE e \in asked
      BY <1>2, <1>5, <2>1, <3>1 DEF Accounted
    <3>2. CASE e \notin asked /\ e \in batch[c] /\ req[r].todo = {c}
      <4>1. batch[e] = batch[c]
        BY <3>2, <1>2 DEF IInv, Batched, TypeOK, Request
      <4> QED BY <1>1, <1>2, <1>5, <1>6, <2>1, <3>2, <4>1
    <3> QED BY <1>3, <2>1, <3>1, <3>2
  <2>2. ASSUME NEW q \in Requests, Setting(q)', NEW e \in req'[q].todo, NEW d \in batch'[e]
        PROVE  d \in req'[q].todo \/ (At(q, "set")' /\ (d \in pending' \/ Closed(d)'))
    <3>1. CASE q = r
      BY <1>1, <1>2, <1>3, <1>4, <1>5, <1>6, <2>2, <3>1 DEF Setting, At
    <3>2. CASE q # r
      BY <1>2, <1>4, <1>5, <2>2, <3>2 DEF Accounted, Setting, At
    <3> QED BY <3>1, <3>2
  <2> QED BY <2>1, <2>2 DEF Accounted
<1>9. ContinuesWhenAnswered'
  <2>1. ASSUME NEW q \in Streams, At(q, "mark")' \/ At(q, "turn")',
               NEW e \in req'[q].mine, NEW d \in batch'[e]
        PROVE  Closed(d)'
    <3>1. q \in Requests /\ q # r /\ req'[q] = req[q]
      BY <1>3, <1>4, <2>1 DEF Requests, At
    <3> QED BY <1>2, <1>5, <2>1, <3>1 DEF ContinuesWhenAnswered, At, Closed, Undecided
  <2> QED BY <2>1 DEF ContinuesWhenAnswered, Closed, Undecided
<1> QED BY <1>7, <1>8, <1>9

LEMMA AnswerNext == ASSUME AnswerInv, [Next]_vars PROVE AnswerInv'
<1>1. IInv'
  BY NextInv DEF AnswerInv
<1>2. CASE UNCHANGED vars
  BY <1>1, <1>2 DEF vars, row, hist, AnswerInv, ClaimsAreAsked, Accounted, Setting, At,
                    Closed, Undecided, ContinuesWhenAnswered
<1>3. ASSUME NEW r \in Requests, Receive(r) \/ Handle(r) \/ Crash(r)
      PROVE  ClaimsAreAsked' /\ Accounted' /\ ContinuesWhenAnswered'
  BY <1>3, AccountedMove, AccountedClaim, AccountedAsk, AccountedSet DEF Handle, Turn
<1> QED BY <1>1, <1>2, <1>3 DEF Next, AnswerInv

LEMMA AnswerInit == Init => AnswerInv
<1> SUFFICES ASSUME Init PROVE AnswerInv
  OBVIOUS
<1>1. \A r \in Requests : req[r].pc \in {"turn", "idle"} /\ req[r].mine = {} /\ req[r].todo = {}
  BY DEF Init, Idle
<1> QED BY <1>1, InitInv DEF Init, AnswerInv, ClaimsAreAsked, Accounted, Setting, At,
                             ContinuesWhenAnswered, Requests

\* The answer that claimed a call stands, whoever answers later.
THEOREM DecisionsStand == Spec => DecisionStands
<1>1. IInv /\ [Next]_vars =>
        [\A c \in Calls : decided[c] # "none" => decided'[c] = decided[c]]_vars
  <2> SUFFICES ASSUME IInv, Next, NEW c \in Calls, decided[c] # "none"
               PROVE  decided'[c] = decided[c]
    OBVIOUS
  <2>1. PICK r \in Requests : Receive(r) \/ Handle(r) \/ Crash(r)
    BY DEF Next
  <2>2. c \notin pending
    BY DEF IInv, PendingUndecided, Undecided
  <2>3. CASE Swap(r)
    <3>1. Unchanged(r) => req[r].call \in pending
      BY <2>3 DEF Swap, IInv, Swapping, Unchanged
    <3> QED BY <2>2, <2>3, <3>1 DEF Swap, IInv, TypeOK
  <2>4. CASE ClaimRow(r)
    BY <2>2, <2>4 DEF ClaimRow, IInv, TypeOK
  <2>5. CASE ~Swap(r) /\ ~ClaimRow(r)
    BY <2>1, <2>5 DEF Receive, Handle, Crash, Turn, ReadList, Execute, LookForMore,
                      MarkRunning, AskApproval, EndTurn, ClearRows, SetRow
  <2> QED BY <2>3, <2>4, <2>5
<1> QED BY InitInv, NextInv, <1>1, PTL DEF Spec, DecisionStands

\* A stream answer enters the model again only when every call asked together
\* with its own is answered or dropped (agent-stream.ts, `remaining`).
THEOREM ContinuesAnswered == Spec => []ContinuesWhenAnswered
<1>1. AnswerInv => ContinuesWhenAnswered
  BY DEF AnswerInv
<1> QED BY AnswerInit, AnswerNext, <1>1, PTL DEF Spec
----------------------------------------------------------------------------
\* The request has claimed a call and has not gone on with the run yet.
GoesOn(r) ==
  \/ req[r].pc \in {"run", "look", "mark"}
  \/ req[r].pc \in {"claim", "swap"} /\ req[r].mine # {}

\* Only the row store writes rows, calls of one batch, and only the list store
\* swaps lists.
Writes == \A r \in Requests :
  /\ At(r, "swap") => store = "list"
  /\ Setting(r) => /\ store = "rows" /\ req[r].todo # {}
                   /\ \A c, d \in req[r].todo : batch[c] = batch[d]
OwnBatch == \A c \in Calls \ Fresh : c \in batch[c]

\* The client hears of what is pending, at the latest when its rows are written.
Told == \A c \in pending : c \in asked \/
  \E r \in Requests : At(r, "set") /\ \E d \in req[r].todo : batch[d] = batch[c]

\* Whenever nothing is left to answer, some request is to go on.
Onward ==
  /\ status = "running" => \E r \in Requests : At(r, "turn")
  /\ status \in {"approved", "denied"} =>
       store = "list" /\ pending = {} /\ \E r \in Requests : GoesOn(r)
  /\ status = "suspended" /\ pending = {} => \E r \in Requests : GoesOn(r) \/ Setting(r)

OnwardInv == IInv /\ Writes /\ OwnBatch /\ (crashes = 0 => Told /\ Onward)

\* What is asked for, and who writes rows, stays as it is.
LEMMA WritesStay ==
  ASSUME OnwardInv, NEW r \in Requests, UNCHANGED <<store, batch>>,
         \A q \in Requests \ {r} : req'[q] = req[q],
         req'[r].pc = "swap" => store = "list",
         req'[r].pc \in {"clear", "set"} =>
           Setting(r) /\ req'[r].todo \subseteq req[r].todo /\ req'[r].todo # {}
  PROVE  Writes' /\ OwnBatch'
BY DEF OnwardInv, Writes, OwnBatch, Fresh, Setting, At

\* A request that claims, and keeps going on if it did before or wins a call.
LEMMA ClaimGoesOn ==
  ASSUME IInv, NEW r \in Requests, req[r].pc \in {"claim", "swap"}, NEW c \in req[r].todo,
         NEW won \in BOOLEAN, AfterClaim(r, c, won)
  PROVE  /\ \A q \in Requests \ {r} : req'[q] = req[q]
         /\ req'[r].pc \in {"idle", "claim", "run"}
         /\ won \/ GoesOn(r) => GoesOn(r)'
<1>1. req[r] \in Request /\ req \in [Requests -> Request]
  BY DEF IInv, TypeOK
<1> DEFINE todo == req[r].todo \ {c}
           got == IF won THEN {c} ELSE {}
           to == [req[r] EXCEPT !.pc = IF todo = {} THEN "run" ELSE "claim",
                                !.call = NoCall, !.todo = todo, !.seen = {},
                                !.won = @ \cup got, !.mine = @ \cup got]
<1>2. CASE todo \cup got \cup req[r].mine = {}
  <2>1. Move(r, Idle)
    BY <1>2 DEF AfterClaim, Leave
  <2>2. req'[r].pc = "idle" /\ \A q \in Requests \ {r} : req'[q] = req[q]
    BY <1>1, <2>1 DEF Move, Idle
  <2>3. ~won /\ req[r].mine = {}
    BY <1>2
  <2> QED BY <2>2, <2>3 DEF GoesOn
<1>3. CASE todo \cup got \cup req[r].mine # {}
  <2>1. Move(r, to)
    BY <1>3 DEF AfterClaim
  <2>2. to.pc \in {"run", "claim"} /\ to.mine = req[r].mine \cup got
    BY <1>1 DEF Request
  <2> HIDE DEF to
  <2>3. req'[r] = to /\ \A q \in Requests \ {r} : req'[q] = req[q]
    BY <1>1, <2>1 DEF Move
  <2> QED BY <2>2, <2>3 DEF GoesOn
<1> QED BY <1>2, <1>3

LEMMA OnwardClaim ==
  ASSUME OnwardInv, NEW r \in Requests, ReadList(r) \/ Swap(r) \/ ClaimRow(r)
  PROVE  Writes' /\ OwnBatch' /\ (crashes' = 0 => Told' /\ Onward')
<1>1. IInv /\ UNCHANGED <<store, batch, asked, crashes>> /\ req[r].pc \in {"claim", "swap"}
  BY DEF OnwardInv, ReadList, Swap, ClaimRow, hist, row, At
<1>2. /\ \A q \in Requests \ {r} : req'[q] = req[q]
      /\ req'[r].pc = "swap" => store = "list"
      /\ req'[r].pc \in {"idle", "claim", "swap", "run"}
      /\ GoesOn(r) => GoesOn(r)'
      /\ \/ UNCHANGED <<status, pending>>
         \/ /\ GoesOn(r)' /\ pending' \subseteq pending
            /\ \/ status' = status /\ store = "rows"
               \/ status' = status /\ status = "suspended"
               \/ status' \in {"approved", "denied"} /\ pending' = {} /\ store = "list"
  <2>1. CASE ReadList(r)
    <3>1. PICK c \in req[r].todo :
            IF status = "suspended" /\ c \in pending
            THEN Move(r, [req[r] EXCEPT !.pc = "swap", !.call = c, !.seen = pending])
            ELSE AfterClaim(r, c, FALSE)
      BY <2>1 DEF ReadList
    <3>2. UNCHANGED <<status, pending>> /\ store = "list"
      BY <2>1 DEF ReadList, row
    <3>3. CASE AfterClaim(r, c, FALSE)
      BY <1>1, <3>2, <3>3, ClaimGoesOn
    <3>4. CASE Move(r, [req[r] EXCEPT !.pc = "swap", !.call = c, !.seen = pending])
      BY <1>1, <3>2, <3>4 DEF Move, GoesOn, IInv, TypeOK, Request
    <3> QED BY <3>1, <3>3, <3>4
  <2>2. CASE Swap(r)
    <3>1. PICK c : c = req[r].call
      OBVIOUS
    <3>2. c \in req[r].todo /\ store = "list" /\ req[r].seen \subseteq Calls
      BY <1>1, <2>2, <3>1 DEF Swap, OnwardInv, IInv, Swapping, Writes, At, TypeOK, Request
    <3>3. CASE Unchanged(r)
      <4>1. /\ AfterClaim(r, c, TRUE) /\ pending' = pending \ {c} /\ status = "suspended"
            /\ status' = IF pending' = {} THEN Said(r, c) ELSE status
        BY <2>2, <3>1, <3>3 DEF Swap, Unchanged
      <4>2. Said(r, c) \in {"approved", "denied"}
        BY DEF Said
      <4> QED BY <1>1, <3>2, <4>1, <4>2, ClaimGoesOn
    <3>4. CASE ~Unchanged(r)
      <4>1. AfterClaim(r, c, FALSE) /\ UNCHANGED <<status, pending>>
        BY <2>2, <3>1, <3>4 DEF Swap, row
      <4> QED BY <1>1, <3>2, <4>1, ClaimGoesOn
    <3> QED BY <3>3, <3>4
  <2>3. CASE ClaimRow(r)
    <3>1. PICK c \in req[r].todo :
            \/ pending' = pending \ {c} /\ AfterClaim(r, c, TRUE)
            \/ pending' = pending /\ AfterClaim(r, c, FALSE)
      BY <2>3 DEF ClaimRow
    <3>2. status' = status /\ store = "rows"
      BY <2>3 DEF ClaimRow
    <3> QED BY <1>1, <3>1, <3>2, ClaimGoesOn
  <2> QED BY <2>1, <2>2, <2>3
<1>3. Writes' /\ OwnBatch'
  BY <1>1, <1>2, WritesStay
<1>4. ASSUME crashes' = 0 PROVE Told' /\ Onward'
  <2>1. Told /\ Onward
    BY <1>1, <1>4 DEF OnwardInv
  <2>2. \A q \in Requests : At(q, "set") \/ At(q, "turn") \/ Setting(q) => q # r /\ req'[q] = req[q]
    BY <1>1, <1>2 DEF At, Setting
  <2>3. Told'
    <3>1. pending' \subseteq pending
      BY <1>2
    <3> QED BY <1>1, <2>1, <2>2, <3>1 DEF Told, At
  <2>4. \A q \in Requests : GoesOn(q) => GoesOn(q)'
    BY <1>2 DEF GoesOn
  <2>5. Onward'
    BY <1>1, <1>2, <2>1, <2>2, <2>4 DEF Onward, At, Setting
  <2> QED BY <2>3, <2>5
<1> QED BY <1>3, <1>4

\* A move that neither opens nor closes calls.
LEMMA OnwardMove ==
  ASSUME OnwardInv, NEW r \in Requests,
         Receive(r) \/ Execute(r) \/ LookForMore(r) \/ MarkRunning(r) \/ EndTurn(r) \/ Crash(r)
  PROVE  Writes' /\ OwnBatch' /\ (crashes' = 0 => Told' /\ Onward')
<1>1. /\ req \in [Requests -> Request] /\ crashes \in Nat
      /\ UNCHANGED <<store, pending, batch, asked>>
  <2>1. req \in [Requests -> Request] /\ crashes \in Nat
    BY BoundsAssumption DEF OnwardInv, IInv, TypeOK
  <2>2. UNCHANGED <<store, pending, batch, asked>>
    BY DEF Receive, Execute, LookForMore, MarkRunning, EndTurn, Crash, hist, row
  <2> QED BY <2>1, <2>2
<1>2. /\ \A q \in Requests \ {r} : req'[q] = req[q]
      /\ req'[r].pc \in {"idle", "claim", "run", "look", "mark", "turn"}
      /\ crashes' = 0 => crashes = 0 /\ ~Setting(r)
  <2>1. CASE Leave(r)
    <3>2. req'[r].pc = "idle" /\ \A q \in Requests \ {r} : req'[q] = req[q]
      BY <1>1, <2>1 DEF Leave, Move, Idle
    <3>3. ASSUME crashes' = 0 PROVE crashes = 0 /\ ~Setting(r)
      <4>1. ~Crash(r)
        BY <1>1, <3>3 DEF Crash
      <4> QED BY <3>3, <4>1 DEF Receive, Execute, LookForMore, MarkRunning, EndTurn, At, Setting
    <3> QED BY <3>2, <3>3
  <2>2. CASE Receive(r)
    BY <1>1, <2>2 DEF Receive, Move, At, Idle, Setting
  <2>3. CASE Execute(r)
    <3>1. req[r].pc = "run" /\ crashes' = crashes
      BY <2>3 DEF Execute, At
    <3>2. \E c : \/ Move(r, [req[r] EXCEPT !.won = @ \ {c}])
                 \/ Move(r, [req[r] EXCEPT !.won = {}, !.yes = {},
                                           !.pc = IF r \in Streams THEN "look" ELSE "mark"])
      BY <2>3 DEF Execute
    <3>3. req[r] \in Request
      BY <1>1
    <3> QED BY ZenonT(40), <1>1, <3>1, <3>2, <3>3 DEF Move, Request, Setting
  <2>4. CASE Go(r, "mark") \/ Go(r, "turn")
    <3>1. ~Leave(r)
      BY <1>1, <2>4 DEF Go, Move, Leave, Idle, Request
    <3>2. LookForMore(r) \/ MarkRunning(r) \/ Receive(r) \/ Execute(r)
      BY <3>1 DEF EndTurn, Crash
    <3>3. req'[r].pc \in {"mark", "turn"} /\ \A q \in Requests \ {r} : req'[q] = req[q]
      BY <1>1, <2>4 DEF Go, Move, Request
    <3> QED BY <3>2, <3>3 DEF Receive, Execute, LookForMore, MarkRunning, At, Setting
  <2> QED BY <2>1, <2>2, <2>3, <2>4 DEF LookForMore, MarkRunning, EndTurn, Crash
<1>3. Writes' /\ OwnBatch'
  BY <1>1, <1>2, WritesStay
<1>4. ASSUME crashes' = 0 PROVE Told' /\ Onward'
  <2>1. Told /\ Onward
    BY <1>2, <1>4 DEF OnwardInv
  <2>2. \A q \in Requests : Setting(q) => q # r /\ req'[q] = req[q]
    BY <1>2, <1>4
  <2>3. Told'
    BY <1>1, <2>1, <2>2 DEF Told, At, Setting
  <2>4. CASE status' = status /\ ~At(r, "turn") /\ ~MarkRunning(r)
    <3>1. pending = {} => (GoesOn(r) => GoesOn(r)')
      <4>1. ~Crash(r) /\ ~EndTurn(r)
        BY <1>1, <1>4, <2>4 DEF Crash, EndTurn, At
      <4>2. CASE Receive(r)
        BY <4>2 DEF Receive, At, GoesOn
      <4>3. CASE Execute(r)
        <5>1. PICK c : \/ Move(r, [req[r] EXCEPT !.won = @ \ {c}])
                       \/ Move(r, [req[r] EXCEPT !.won = {}, !.yes = {},
                                       !.pc = IF r \in Streams THEN "look" ELSE "mark"])
          BY <4>3 DEF Execute
        <5>2. req[r] \in Request /\ req[r].pc = "run"
          BY <1>1, <4>3 DEF Execute, At
        <5>3. req'[r].pc \in {"run", "look", "mark"}
          BY ZenonT(40), <1>1, <5>1, <5>2 DEF Move, Request
        <5> QED BY <5>3 DEF GoesOn
      <4>4. CASE LookForMore(r)
        BY <1>1, <4>4 DEF LookForMore, Remaining, Go, Move, Request, GoesOn
      <4>5. CASE MarkRunning(r)
        BY <2>4, <4>5
      <4> QED BY <4>1, <4>2, <4>3, <4>4, <4>5
    <3>2. \A q \in Requests : At(q, "turn") => At(q, "turn")'
      BY <1>2, <2>4 DEF At
    <3>3. \A q \in Requests \ {r} : GoesOn(q) => GoesOn(q)'
      BY <1>2 DEF GoesOn
    <3>4. \A q \in Requests : Setting(q) => Setting(q)'
      BY <2>2 DEF Setting
    <3>5. Onward'
      <4>1. status' = "running" => \E q \in Requests : At(q, "turn")'
        BY <2>1, <2>4, <3>2 DEF Onward
      <4>2. pending = {} => \A q \in Requests : GoesOn(q) => GoesOn(q)'
        BY <3>1, <3>3
      <4> QED BY <1>1, <2>1, <2>4, <3>4, <4>1, <4>2 DEF Onward
    <3> QED BY <2>3, <3>5
  <2>5. CASE MarkRunning(r)
    <3>1. status' = "running" /\ At(r, "turn")'
      BY <1>1, <2>5 DEF MarkRunning, Go, Move, At, Request
    <3> QED BY <2>3, <3>1 DEF Onward
  <2>6. CASE EndTurn(r)
    <3>1. status' \in Settled
      BY <2>6, EndingsAssumption DEF EndTurn
    <3> QED BY <2>3, <3>1 DEF Onward, Settled
  <2>7. ~Crash(r)
    BY <1>1, <1>2, <1>4 DEF Crash
  <2>8. \/ status' = status /\ ~At(r, "turn") /\ ~MarkRunning(r)
        \/ MarkRunning(r) \/ EndTurn(r)
    BY <2>7 DEF Receive, Execute, LookForMore, At, row
  <2> QED BY <2>4, <2>5, <2>6, <2>8
<1> QED BY <1>3, <1>4

\* The model asks for approvals: the list store tells the client at once, the
\* row store has the rows still to write.
LEMMA OnwardAsk ==
  ASSUME OnwardInv, NEW r \in Requests, AskApproval(r)
  PROVE  Writes' /\ OwnBatch' /\ (crashes' = 0 => Told' /\ Onward')
<1>1. PICK N \in NewCalls :
        /\ batch' = [c \in Calls |-> IF c \in N THEN N ELSE batch[c]]
        /\ status' = "suspended"
        /\ \/ store = "list" /\ pending' = N /\ asked' = asked \cup N /\ Leave(r)
           \/ /\ store # "list" /\ Move(r, [Idle EXCEPT !.pc = "clear", !.todo = N])
              /\ UNCHANGED <<pending, asked>>
  BY DEF AskApproval
<1>2. UNCHANGED <<store, crashes>> /\ store \in {"list", "rows"}
  BY StoresAssumption DEF AskApproval, OnwardInv, IInv, TypeOK
<1>3. req \in [Requests -> Request] /\ batch \in [Calls -> SUBSET Calls] /\ At(r, "turn")
  BY DEF OnwardInv, IInv, TypeOK, AskApproval
<1>4. N \subseteq Fresh /\ N # {} /\ N \subseteq Calls
  <2>1. PICK c \in Fresh : N = {d \in Fresh : d <= c}
    BY DEF NewCalls
  <2>2. c <= c
    BY DEF Fresh, Calls
  <2> QED BY <2>1, <2>2 DEF Fresh
<1>5. /\ \A q \in Requests \ {r} : req'[q] = req[q]
      /\ \/ req'[r].pc = "idle" /\ store = "list"
         \/ req'[r].pc = "clear" /\ req'[r].todo = N /\ store = "rows"
  <2> DEFINE to == [Idle EXCEPT !.pc = "clear", !.todo = N]
  <2>1. to.pc = "clear" /\ to.todo = N /\ Idle.pc = "idle"
    BY DEF Idle
  <2>2. (store = "list" /\ Move(r, Idle)) \/ (store = "rows" /\ Move(r, to))
    BY <1>1, <1>2 DEF Leave
  <2> HIDE DEF to
  <2> QED BY <1>3, <2>1, <2>2 DEF Move
<1>6. /\ \A c \in Calls \ Fresh : c \notin N /\ batch'[c] = batch[c]
      /\ \A c \in N : batch'[c] = N
  BY <1>1, <1>4
<1>7. /\ \A c \in pending : c \in Calls \ Fresh
      /\ \A q \in Requests : Setting(q) => \A c \in req[q].todo : c \in Calls \ Fresh
  BY <1>3 DEF OnwardInv, IInv, TypeOK, RowsToSet, Request
<1>8. Writes'
  <2>1. ASSUME NEW q \in Requests, q # r
        PROVE  /\ At(q, "swap")' => store' = "list"
               /\ Setting(q)' => /\ store' = "rows" /\ req'[q].todo # {}
                                 /\ \A c, d \in req'[q].todo : batch'[c] = batch'[d]
    BY <1>2, <1>5, <1>6, <1>7, <2>1 DEF OnwardInv, Writes, At, Setting
  <2>2. /\ ~At(r, "swap")'
        /\ Setting(r)' => /\ store' = "rows" /\ req'[r].todo # {}
                          /\ \A c, d \in req'[r].todo : batch'[c] = batch'[d]
    BY <1>2, <1>4, <1>5, <1>6 DEF At, Setting
  <2> QED BY <2>1, <2>2 DEF Writes
<1>9. OwnBatch'
  <2>1. ASSUME NEW c \in Calls, batch'[c] # {} PROVE c \in batch'[c]
    <3>1. CASE c \in N
      BY <1>6, <3>1
    <3>2. CASE c \notin N
      BY <1>1, <2>1, <3>2 DEF OnwardInv, OwnBatch, Fresh
    <3> QED BY <3>1, <3>2
  <2> QED BY <2>1 DEF OwnBatch, Fresh
<1>10. ASSUME crashes' = 0 PROVE Told' /\ Onward'
  <2>1. Told
    BY <1>2, <1>10 DEF OnwardInv
  <2>2. CASE store = "list"
    BY <1>1, <1>4, <2>2 DEF Told, Onward
  <2>3. CASE store # "list"
    <3>1. pending' = pending /\ asked' = asked /\ Setting(r)' /\ r \in Requests
      BY <1>1, <1>2, <1>5, <2>3 DEF Setting
    <3>2. Told'
      <4>1. ASSUME NEW c \in pending, c \notin asked
            PROVE  \E q \in Requests : At(q, "set")' /\ \E d \in req'[q].todo : batch'[d] = batch'[c]
        <5>1. PICK q \in Requests : At(q, "set") /\ \E d \in req[q].todo : batch[d] = batch[c]
          BY <2>1, <4>1 DEF Told
        <5>2. q # r /\ Setting(q)
          BY <1>3, <5>1 DEF At, Setting
        <5> QED BY <1>5, <1>6, <1>7, <5>1, <5>2 DEF At
      <4> QED BY <3>1, <4>1 DEF Told
    <3> QED BY <1>1, <3>1, <3>2 DEF Onward
  <2> QED BY <2>2, <2>3
<1> QED BY <1>8, <1>9, <1>10

\* The rows of a batch are cleared and written one by one; the last one tells
\* the client of all of them.
LEMMA OnwardSet ==
  ASSUME OnwardInv, NEW r \in Requests, ClearRows(r) \/ SetRow(r)
  PROVE  Writes' /\ OwnBatch' /\ (crashes' = 0 => Told' /\ Onward')
<1>1. /\ UNCHANGED <<store, status, batch, crashes>> /\ Setting(r)
      /\ req \in [Requests -> Request]
  BY DEF ClearRows, SetRow, Setting, At, OnwardInv, IInv, TypeOK
<1>2. /\ store = "rows" /\ req[r].todo # {}
      /\ \A c, d \in req[r].todo : batch[c] = batch[d]
      /\ \A c \in req[r].todo : c \in Calls /\ c \in batch[c]
  BY <1>1 DEF OnwardInv, Writes, OwnBatch, IInv, RowsToSet, Request
<1>3. CASE ClearRows(r)
  <2>1. /\ pending' = {} /\ asked' = asked
        /\ \A q \in Requests \ {r} : req'[q] = req[q]
        /\ req'[r].pc = "set" /\ req'[r].todo = req[r].todo
    BY <1>1, <1>3 DEF ClearRows, Go, Move, Request
  <2>2. Writes' /\ OwnBatch'
    BY <1>1, <1>2, <2>1, WritesStay
  <2>3. ASSUME crashes' = 0 PROVE Told' /\ Onward'
    <3>1. Onward
      BY <1>1, <2>3 DEF OnwardInv
    <3>2. \A q \in Requests : (At(q, "turn") => At(q, "turn")') /\ (GoesOn(q) => GoesOn(q)')
      BY <1>1, <2>1 DEF At, GoesOn, Setting
    <3>3. Setting(r)'
      BY <2>1 DEF Setting
    <3>4. Onward'
      BY <1>1, <2>1, <3>1, <3>2, <3>3 DEF Onward
    <3> QED BY <2>1, <3>4 DEF Told
  <2> QED BY <2>2, <2>3
<1>4. CASE SetRow(r)
  <2>1. PICK c \in req[r].todo :
          /\ pending' = pending \cup {c}
          /\ \/ req[r].todo = {c} /\ asked' = asked \cup batch[c] /\ Leave(r)
             \/ /\ req[r].todo # {c} /\ asked' = asked
                /\ Move(r, [req[r] EXCEPT !.todo = @ \ {c}])
    BY <1>4 DEF SetRow
  <2>2. /\ \A q \in Requests \ {r} : req'[q] = req[q]
        /\ \/ req[r].todo = {c} /\ asked' = asked \cup batch[c] /\ req'[r].pc = "idle"
           \/ /\ req[r].todo # {c} /\ asked' = asked
              /\ req'[r].pc = req[r].pc /\ req'[r].todo = req[r].todo \ {c}
    BY <1>1, <2>1 DEF Leave, Move, Idle, Request
  <2>3. At(r, "set")
    BY <1>4 DEF SetRow
  <2>4. Writes' /\ OwnBatch'
    BY <1>1, <1>2, <2>1, <2>2, <2>3, WritesStay DEF At
  <2>5. ASSUME crashes' = 0 PROVE Told' /\ Onward'
    <3>1. Told /\ Onward
      BY <1>1, <2>5 DEF OnwardInv
    <3>2. ASSUME NEW d \in pending', d \notin asked'
          PROVE  \E q \in Requests : At(q, "set")' /\ \E e \in req'[q].todo : batch[e] = batch[d]
      <4>1. CASE d = c
        BY <1>2, <2>2, <2>3, <3>2, <4>1 DEF At
      <4>2. CASE d # c
        <5>1. d \in pending /\ d \notin asked
          BY <2>1, <2>2, <3>2, <4>2
        <5>2. PICK q \in Requests : At(q, "set") /\ \E e \in req[q].todo : batch[e] = batch[d]
          BY <3>1, <5>1 DEF Told
        <5>3. CASE q # r
          BY <2>2, <5>2, <5>3 DEF At
        <5>4. CASE q = r
          <6>1. batch[c] = batch[d]
            BY <1>2, <5>2, <5>4
          <6>2. d \in batch[d]
            BY <5>1 DEF OnwardInv, OwnBatch, IInv, TypeOK
          <6>3. req[r].todo # {c}
            BY <2>2, <3>2, <6>1, <6>2
          <6>4. PICK e \in req[r].todo \ {c} : TRUE
            BY <6>3, <1>2
          <6>5. batch[e] = batch[d]
            BY <1>2, <6>1, <6>4
          <6>6. At(r, "set")' /\ e \in req'[r].todo
            BY <2>2, <2>3, <6>3, <6>4 DEF At
          <6> QED BY <6>5, <6>6
        <5> QED BY <5>3, <5>4
      <4> QED BY <4>1, <4>2
    <3>3. Told'
      BY <1>1, <3>2 DEF Told
    <3>4. \A q \in Requests : At(q, "turn") => At(q, "turn")'
      BY <2>2, <2>3 DEF At
    <3>5. pending' # {} /\ ~(status \in {"approved", "denied"})
      BY <1>2, <2>1, <3>1 DEF Onward
    <3> QED BY <1>1, <3>1, <3>3, <3>4, <3>5 DEF Onward
  <2> QED BY <2>4, <2>5
<1> QED BY <1>3, <1>4

LEMMA OnwardNext == ASSUME OnwardInv, [Next]_vars PROVE OnwardInv'
<1>1. IInv'
  BY NextInv DEF OnwardInv
<1>2. CASE UNCHANGED vars
  BY <1>1, <1>2 DEF vars, row, hist, OnwardInv, Writes, OwnBatch, Fresh, Told, Onward, GoesOn,
                    Setting, At
<1>3. ASSUME NEW r \in Requests, Receive(r) \/ Handle(r) \/ Crash(r)
      PROVE  Writes' /\ OwnBatch' /\ (crashes' = 0 => Told' /\ Onward')
  BY <1>3, OnwardMove, OnwardClaim, OnwardAsk, OnwardSet DEF Handle, Turn
<1> QED BY <1>1, <1>2, <1>3 DEF Next, OnwardInv

\* Between answers, when no request is under way and none has died, the run is
\* settled, or suspended with a call that the client knows of and can answer:
\* the answers that empty the list never all leave the run to each other.
THEOREM NeverStranded ==
  Spec => [](crashes = 0 /\ (\A r \in Requests : At(r, "idle")) =>
               status \in Settled \/ (status = "suspended" /\ pending \cap asked # {}))
<1>1. Init => OnwardInv
  <2> SUFFICES ASSUME Init PROVE OnwardInv
    OBVIOUS
  <2>1. Opener \in Requests /\ At(Opener, "turn")
    BY RequestsAssumption DEF Init, Requests, At, Idle
  <2>2. \A r \in Requests : req[r].pc \in {"turn", "idle"}
    BY DEF Init, Idle
  <2> QED BY <2>1, <2>2, InitInv DEF Init, OnwardInv, Writes, OwnBatch, Fresh, Told, Onward, At,
                                    Setting
<1>2. OnwardInv /\ [Next]_vars => OnwardInv'
  BY OnwardNext
<1>3. OnwardInv => (crashes = 0 /\ (\A r \in Requests : At(r, "idle")) =>
               status \in Settled \/ (status = "suspended" /\ pending \cap asked # {}))
  <2> SUFFICES ASSUME OnwardInv, crashes = 0, \A r \in Requests : At(r, "idle"), status \notin Settled
               PROVE  status = "suspended" /\ pending \cap asked # {}
    OBVIOUS
  <2>1. Told /\ Onward /\ status \in StoredStatus
    BY DEF OnwardInv, IInv, TypeOK
  <2>2. status = "suspended" /\ pending # {}
    BY <2>1 DEF Onward, At, GoesOn, Setting, StoredStatus, RunStatus, Settled
  <2>3. pending \subseteq asked
    BY <2>1 DEF Told, At
  <2> QED BY <2>2, <2>3
<1> QED BY <1>1, <1>2, <1>3, PTL DEF Spec
============================================================================
