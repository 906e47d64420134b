--------------------------- MODULE AgentApproval ---------------------------
(***************************************************************************)
(* One agent run whose model asks for tool calls that a person has to      *)
(* approve.  The run is suspended with the calls pending; every answer is  *)
(* a request of its own (resumeAgent on a stream, resumeAgentSync over     *)
(* RPC), they run concurrently, and the one that finds nothing pending     *)
(* enters the model again.  `resolveApproval` of the store is the claim:   *)
(*   "list"  a compare-and-swap on the pending list in the run's row;      *)
(*   "rows"  a conditional UPDATE of the tool call's own row.              *)
(***************************************************************************)
EXTENDS Naturals

CONSTANTS MaxCalls,   \* bound: tool calls the model asks approval for
          Streams,    \* answers given through resumeAgent
          Syncs,      \* answers given through resumeAgentSync
          Opener,     \* the request that runs the model first
          Stores,     \* the stores looked at, of "list" and "rows"
          Endings,    \* bound: the ways a turn of the model ends
          MaxCrashes, \* bound: requests that die or throw half-way
          MaxAnswers, \* bound: answers sent in
          NoCall

ASSUME RequestsAssumption == Streams \cap Syncs = {} /\ Opener \in Streams \cup Syncs
ASSUME StoresAssumption == Stores \subseteq {"list", "rows"} /\ NoCall \notin 1..MaxCalls

Requests == Streams \cup Syncs

\* Tool call ids are fresh: they are numbered as the model mints them.
Calls == 1..MaxCalls

\* A loop over calls takes them in the order the model minted them.
First(c, C) == \A d \in C : c <= d

VARIABLES
  store,      \* which store the run lives in
  status,     \* the run's row: status
  pending,    \*   and the calls whose approval it waits for
  batch,      \* per call: the calls it was asked together with, {} before
  asked,      \* calls whose approval-request reached the client
  decided,    \* per call: the answer that claimed it
  executed,   \* per call: how often its tool was run
  dropped,    \* calls still pending when the run went on without them
  req,        \* per request: where its handler is
  answers,    \* answers sent in so far
  crashes     \* requests that died or threw so far

row  == <<status, pending>>
hist == <<batch, asked, dropped>>
vars == <<store, row, hist, decided, executed, req, answers, crashes>>

Answer == {"none", "approved", "denied"}

RunStatus == {"running", "suspended", "completed", "failed", "interrupted"}

\* The list store also writes the last answer into the status of the run.
StoredStatus == RunStatus \cup {"approved", "denied"}

Settled == {"completed", "failed", "interrupted"}

ASSUME EndingsAssumption == Endings \subseteq Settled
ASSUME BoundsAssumption == MaxCalls \in Nat /\ MaxCrashes \in Nat /\ MaxAnswers \in Nat

\* pc    "idle", or the next thing the handler does
\* call  the call it is claiming, of `todo` (answers not yet claimed)
\* yes   the calls it approves; the others of its answers are denials
\* won   the calls it claimed and has not handled yet
\* mine  all the calls it claimed
\* seen  the pending list it compares against
Idle == [pc |-> "idle", call |-> NoCall, todo |-> {}, yes |-> {}, won |-> {},
         mine |-> {}, seen |-> {}]

Move(r, to) == req' = [req EXCEPT ![r] = to]

Go(r, pc) == Move(r, [req[r] EXCEPT !.pc = pc])

Leave(r) == Move(r, Idle)

At(r, pc) == req[r].pc = pc

(***************************************************************************)
(* Claiming.                                                               *)
(***************************************************************************)

\* A request reads the run, checks that it may, and starts to claim.  The
\* stream path answers one pending call; the sync path answers any of them,
\* and looks at the status first.
Receive(r) ==
  /\ At(r, "idle")
  /\ answers < MaxAnswers
  /\ \E C \in SUBSET (pending \cap asked), yes \in SUBSET (pending \cap asked) :
       /\ C # {}
       /\ yes \subseteq C
       /\ r \in Streams => \E c \in pending : C = {c}
       /\ r \in Syncs => status = "suspended"
       /\ Move(r, [Idle EXCEPT !.pc = "claim", !.todo = C, !.yes = yes])
  /\ answers' = answers + 1
  /\ UNCHANGED <<store, row, hist, decided, executed, crashes>>

Said(r, c) == IF c \in req[r].yes THEN "approved" ELSE "denied"

AfterClaim_Anyway(r, c, won) ==
  Move(r, [req[r] EXCEPT !.pc = "run", !.call = NoCall, !.todo = {}, !.won = {c},
                         !.mine = {c}, !.seen = {}])

\* What a request does when one of its claims is won or lost.  A stream answer
\* that lost throws, a sync one only when it won none of them.
AfterClaim(r, c, won) ==
  LET todo == req[r].todo \ {c}
      got  == IF won THEN {c} ELSE {}
  IN  IF todo \cup got \cup req[r].mine = {}
      THEN Leave(r)
      ELSE Move(r, [req[r] EXCEPT !.pc = IF todo = {} THEN "run" ELSE "claim",
                                  !.call = NoCall, !.todo = todo, !.seen = {},
                                  !.won = @ \cup got, !.mine = @ \cup got])

\* "list": SELECT the suspended runs and look for the call in their lists.
ReadList(r) ==
  /\ At(r, "claim") /\ store = "list"
  /\ \E c \in req[r].todo :
       IF status = "suspended" /\ c \in pending
       THEN Move(r, [req[r] EXCEPT !.pc = "swap", !.call = c, !.seen = pending])
       ELSE AfterClaim(r, c, FALSE)
  /\ UNCHANGED <<store, row, hist, decided, executed, answers, crashes>>

Unchanged_StatusOnly(r) == status = "suspended"

\* The row is still suspended and its list is the one that was read.
Unchanged(r) == status = "suspended" /\ pending = req[r].seen

\* "list": UPDATE where the list is the one read, minus the call; the last
\* call's answer becomes the status.
Swap(r) ==
  LET c == req[r].call
      rest == req[r].seen \ {c}
  IN  /\ At(r, "swap")
      /\ IF Unchanged(r)
         THEN /\ pending' = rest
              /\ status' = IF rest = {} THEN Said(r, c) ELSE status
              /\ decided' = [decided EXCEPT ![c] = Said(r, c)]
              /\ AfterClaim(r, c, TRUE)
         ELSE /\ AfterClaim(r, c, FALSE)
              /\ UNCHANGED <<row, decided>>
      /\ UNCHANGED <<store, hist, executed, answers, crashes>>

\* "rows": UPDATE the tool call's row where it is still pending.
ClaimRow(r) ==
  /\ At(r, "claim") /\ store = "rows"
  /\ \E c \in req[r].todo :
       IF c \in pending
       THEN /\ pending' = pending \ {c}
            /\ decided' = [decided EXCEPT ![c] = Said(r, c)]
            /\ AfterClaim(r, c, TRUE)
       ELSE /\ AfterClaim(r, c, FALSE)
            /\ UNCHANGED <<pending, decided>>
  /\ UNCHANGED <<store, status, hist, executed, answers, crashes>>

(***************************************************************************)
(* After the claim.                                                        *)
(***************************************************************************)

Approves_Always(r, c) == TRUE

\* The answer of the request, not the status of the run, says what is run.
Approves(r, c) == c \in req[r].yes

\* The tools of the approved calls are run, one after the other; a tool that
\* throws has a result too, and a denied call has a canned one.  The results go
\* into the thread.  The stream path then looks whether other approvals are
\* open, the sync path does not.
Execute(r) ==
  /\ At(r, "run")
  /\ \E c \in req[r].won :
       /\ First(c, req[r].won)
       /\ executed' = IF Approves(r, c) THEN [executed EXCEPT ![c] = @ + 1] ELSE executed
       /\ IF req[r].won # {c}
          THEN Move(r, [req[r] EXCEPT !.won = @ \ {c}])
          ELSE Move(r, [req[r] EXCEPT !.won = {}, !.yes = {},
                                      !.pc = IF r \in Streams THEN "look" ELSE "mark"])
  /\ UNCHANGED <<store, row, hist, decided, answers, crashes>>

Remaining_Ignored(r) == {}

Remaining_FromSnapshot(r) == UNION {batch[c] : c \in req[r].mine} \ req[r].mine

\* The approvals of the run that are open when it is read again.
Remaining(r) == pending

LookForMore(r) ==
  /\ At(r, "look")
  /\ IF Remaining(r) # {} THEN Leave(r) ELSE Go(r, "mark")
  /\ UNCHANGED <<store, row, hist, decided, executed, answers, crashes>>

MarkRunning(r) ==
  /\ At(r, "mark")
  /\ status' = "running"
  /\ dropped' = IF r \in Syncs THEN dropped \cup pending ELSE dropped
  /\ Go(r, "turn")
  /\ UNCHANGED <<store, pending, batch, asked, decided, executed, answers, crashes>>

(***************************************************************************)
(* The model's turn (runStreamStepLoop, and the loop of the sync path).    *)
(***************************************************************************)

Fresh == {c \in Calls : batch[c] = {}}

\* What a model step may ask for: any number of new calls.
NewCalls == {{d \in Fresh : d <= c} : c \in Fresh}

\* A step calls tools that need approval: the run is suspended with them.  The
\* list is part of the run's row; the rows are rewritten one statement at a
\* time after the status.
AskApproval(r) ==
  /\ At(r, "turn")
  /\ \E N \in NewCalls :
       /\ batch' = [c \in Calls |-> IF c \in N THEN N ELSE batch[c]]
       /\ status' = "suspended"
       /\ IF store = "list"
          THEN pending' = N /\ asked' = asked \cup N /\ Leave(r)
          ELSE /\ Move(r, [Idle EXCEPT !.pc = "clear", !.todo = N])
               /\ UNCHANGED <<pending, asked>>
       /\ dropped' = IF store = "list" THEN dropped \cup pending ELSE dropped
  /\ UNCHANGED <<store, decided, executed, answers, crashes>>

ClearRows(r) ==
  /\ At(r, "clear")
  /\ pending' = {}
  /\ dropped' = dropped \cup pending
  /\ Go(r, "set")
  /\ UNCHANGED <<store, status, batch, asked, decided, executed, answers, crashes>>

\* The client hears of the calls when all the rows are written.
SetRow(r) ==
  /\ At(r, "set")
  /\ \E c \in req[r].todo :
       /\ First(c, req[r].todo)
       /\ pending' = pending \cup {c}
       /\ IF req[r].todo = {c}
          THEN asked' = asked \cup batch[c] /\ Leave(r)
          ELSE asked' = asked /\ Move(r, [req[r] EXCEPT !.todo = @ \ {c}])
  /\ UNCHANGED <<store, status, batch, dropped, decided, executed, answers, crashes>>

\* The model is done (finalizeAgentRun), fails, or is interrupted.
EndTurn(r) ==
  /\ At(r, "turn")
  /\ status' \in Endings
  /\ Leave(r)
  /\ UNCHANGED <<store, pending, hist, decided, executed, answers, crashes>>

\* A request dies, or throws on its way (no agent runner, an unknown tool).
Crash(r) ==
  /\ ~At(r, "idle")
  /\ crashes < MaxCrashes
  /\ crashes' = crashes + 1
  /\ Leave(r)
  /\ UNCHANGED <<store, row, hist, decided, executed, answers>>

Init ==
  /\ store \in Stores
  /\ status = "running" /\ pending = {}
  /\ batch = [c \in Calls |-> {}] /\ asked = {} /\ dropped = {}
  /\ decided = [c \in Calls |-> "none"]
  /\ executed = [c \in Calls |-> 0]
  /\ req = [r \in Requests |-> IF r = Opener THEN [Idle EXCEPT !.pc = "turn"] ELSE Idle]
  /\ answers = 0 /\ crashes = 0

Turn(r) == AskApproval(r) \/ EndTurn(r)

Handle(r) ==
  \/ ReadList(r) \/ Swap(r) \/ ClaimRow(r)
  \/ Execute(r) \/ LookForMore(r) \/ MarkRunning(r)
  \/ Turn(r) \/ ClearRows(r) \/ SetRow(r)

Next == \E r \in Requests : Receive(r) \/ Handle(r) \/ Crash(r)

Spec == Init /\ [][Next]_vars

\* A request that is not killed gets to its end, the model's turn included.
\* Nobody has to answer.
FairSpec == Spec /\ \A r \in Requests : WF_vars(Handle(r))

----------------------------------------------------------------------------

\* What the handler of a request remembers.
Request == [pc : {"idle", "claim", "swap", "run", "look", "mark", "turn", "clear", "set"},
            call : Calls \cup {NoCall}, todo : SUBSET Calls, yes : SUBSET Calls,
            won : SUBSET Calls, mine : SUBSET Calls, seen : SUBSET Calls]

\* The run, the calls and the requests keep their types; only calls the model
\* asked for are ever pending, and only decided ones are held by a request.
TypeOK ==
  /\ store \in Stores
  /\ status \in StoredStatus
  /\ batch \in [Calls -> SUBSET Calls]
  /\ decided \in [Calls -> Answer]
  /\ executed \in [Calls -> Nat]
  /\ answers \in 0..MaxAnswers /\ crashes \in 0..MaxCrashes
  /\ req \in [Requests -> Request]
  /\ asked \cup pending \cup dropped \subseteq Calls \ Fresh
  /\ \A r \in Requests : \A c \in req[r].mine : decided[c] # "none"

\* However many answers to one call race, its tool is run at most once, and
\* only if the answer that claimed the call approved it.
ExecutedAsDecided ==
  \A c \in Calls : executed[c] <= IF decided[c] = "approved" THEN 1 ELSE 0

\* The answer that claimed a call stands: no other answer is recorded later.
DecisionStands ==
  [][\A c \in Calls : decided[c] # "none" => decided'[c] = decided[c]]_vars

\* A stream answer enters the model again only when every call that was asked
\* for together with its own has been answered, or was dropped by another
\* request that went on.
ContinuesWhenAnswered ==
  \A r \in Streams : At(r, "mark") \/ At(r, "turn") =>
    \A c \in req[r].mine : \A d \in batch[c] : decided[d] # "none" \/ d \in dropped

\* Of the answers that empty the list between them at least one goes on: when
\* no request dies, the run comes to its end or waits for an answer that can
\* still be given.
NeverLeftBetween ==
  <>[](\/ crashes > 0
       \/ status \in Settled
       \/ status = "suspended" /\ pending # {})
============================================================================
