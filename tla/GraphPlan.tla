------------------------------- MODULE GraphPlan -------------------------------
(***************************************************************************)
(* planGraphTransitions: which node instances of a graph workflow are to   *)
(* be fired next, judged on the step rows of the run.  Queued passes and   *)
(* in-process runs share it.                                               *)
(*                                                                         *)
(* A graph is a record: entries (declared entry nodes), next (targets per  *)
(* branch key), deps (nodes its input refers to, a fan's source among      *)
(* them), onError, source (what a forEach node iterates over, None for a   *)
(* plain node), width (how many items that is), sequential and retries.    *)
(*                                                                         *)
(* An instance <<n, k>> is a step row: of a plain node the k-th revisit    *)
(* (n, n#1, ...), of a forEach node its k-th item.  A predecessor is an    *)
(* instance, <<n>> for a forEach node as a whole, or Start (no             *)
(* fromStepName: entry nodes and error handlers).                          *)
(***************************************************************************)
EXTENDS Naturals, FiniteSets

CONSTANTS
  Nodes,      \* node ids
  MaxOrdinal, \* bound on revisits and item indexes
  None,       \* no source / no instance
  Trigger,    \* the run's input as the source of a forEach
  Start,      \* the predecessor of entry nodes and handlers
  NoBranch    \* the branch key of a node that chose none

ASSUME OrdinalAssumption == MaxOrdinal \in Nat
ASSUME ValuesAssumption ==
  /\ {None, Trigger} \cap Nodes = {} /\ None # Trigger
  /\ {None, Start} \cap (Nodes \X (0..MaxOrdinal)) = {}
  /\ Start \notin {<<n>> : n \in Nodes}

Instances == Nodes \X (0..MaxOrdinal)
Predecessors == Instances \cup {<<n>> : n \in Nodes} \cup {Start}
NoRow == [status |-> "absent", from |-> Start]

Present(rows, n) == {k \in 0..MaxOrdinal : rows[<<n, k>>].status # "absent"}
Done(rows, n) == {k \in 0..MaxOrdinal : rows[<<n, k>>].status = "succeeded"}

isFanned(g, n) == g.source[n] # None

\* Each of the items of a forEach node has its result.
AllItemsDone(g, rows, n) == \A k \in 0..MaxOrdinal : k < g.width[n] => k \in Done(rows, n)

\* readFanoutItems: what forEach node n iterates over is the run's input, the
\* result of a plain node, or those of all the items of a node in K.
SourceRead(g, rows, n, K) ==
  \/ g.source[n] = Trigger
  \/ IF isFanned(g, g.source[n])
     THEN g.source[n] \in K /\ AllItemsDone(g, rows, g.source[n])
     ELSE 0 \in Done(rows, g.source[n])

\* The array a forEach node iterates over can be read: the node is in the least
\* set of them that has every node whose source can be read.
WidthKnown(g, rows, n) ==
  LET Fanned == {m \in Nodes : isFanned(g, m)}
  IN  \A K \in SUBSET Fanned :
        (\A m \in Fanned : SourceRead(g, rows, m, K) => m \in K) => n \in K

\* validateGraphReferences: a graph names only nodes it has, and only a forEach
\* node has a mode. What a forEach iterates over is a dependency. A next that
\* does not branch is not keyed.
validateGraphReferences(g) ==
  /\ g.entries \subseteq Nodes
  /\ \A n \in Nodes : \A b \in DOMAIN g.next[n] : g.next[n][b] \subseteq Nodes
  /\ \A n \in Nodes : NoBranch \in DOMAIN g.next[n] => DOMAIN g.next[n] = {NoBranch}
  /\ {g.deps, g.onError} \subseteq [Nodes -> SUBSET Nodes]
  /\ g.source \in [Nodes -> Nodes \cup {Trigger, None}]
  /\ \A n \in Nodes : g.source[n] \in Nodes => g.source[n] \in g.deps[n]
  /\ {g.width, g.retries} \subseteq [Nodes -> Nat]
  /\ g.sequential \subseteq {n \in Nodes : isFanned(g, n)}

\* Nodes whose result others may use: all items of a forEach node.
CompletedLogical(g, rows) ==
  {n \in Nodes : IF isFanned(g, n)
                 THEN /\ WidthKnown(g, rows, n)
                      /\ Cardinality(Done(rows, n)) >= g.width[n]
                 ELSE Done(rows, n) # {}}

areDependenciesSatisfied_Any(g, rows, n) ==
  g.deps[n] = {} \/ g.deps[n] \cap CompletedLogical(g, rows) # {}
areDependenciesSatisfied(g, rows, n) == g.deps[n] \subseteq CompletedLogical(g, rows)

resolveNext_Every(g, n, b) == UNION {g.next[n][c] : c \in DOMAIN g.next[n]}
\* A plain next leads to its targets (its only key is NoBranch), a branching
\* one to those of the key the node chose.
resolveNext(g, n, b) == IF b \in DOMAIN g.next[n] THEN g.next[n][b] ELSE {}

\* Target can reach source: the edge closes a cycle.
closesCycle(g, source, target) ==
  LET After(S) == UNION {UNION {g.next[n][b] : b \in DOMAIN g.next[n]} : n \in S}
      within[i \in Nat] == IF i = 0 THEN {target}
                           ELSE within[i - 1] \cup After(within[i - 1])
  IN  source \in within[Cardinality(Nodes)]

Edge(f, n, t) == [from |-> f, node |-> n, target |-> t]
\* The entry edges, and those out of every completed instance, a forEach node
\* counting once, as a whole, also when it has no item at all.
Edges(g, rows, known) ==
  {Edge(Start, None, t) : t \in g.entries}
  \cup (UNION {{Edge(i, i[1], t) : t \in resolveNext(g, i[1], known[i])} :
                 i \in {j \in Instances : /\ rows[j].status = "succeeded"
                                          /\ ~isFanned(g, j[1])}})
  \cup (UNION {{Edge(<<n>>, n, t) : t \in resolveNext(g, n, NoBranch)} :
                 n \in {m \in CompletedLogical(g, rows) : isFanned(g, m)}})

isBackEdge(g, e) == e.node # None /\ closesCycle(g, e.node, e.target)

\* A forward edge fires a node that has no instance, a back edge once.
Spent_PerEdge(g, rows, e) ==
  \E k \in Present(rows, e.target) : rows[<<e.target, k>>].from = e.from
Spent(g, rows, e) ==
  /\ Present(rows, e.target) # {}
  /\ \/ ~isBackEdge(g, e)
     \/ \E k \in Present(rows, e.target) : rows[<<e.target, k>>].from = e.from

Missing(g, rows, n) == {k \in 0..MaxOrdinal : k < g.width[n]} \ Present(rows, n)

ItemsToFire_AllAtOnce(g, rows, n) == Missing(g, rows, n)
\* All missing items, or the first of them while no other is in flight.
ItemsToFire(g, rows, n) ==
  IF n \notin g.sequential THEN Missing(g, rows, n)
  ELSE IF Present(rows, n) # Done(rows, n) THEN {}
  ELSE {k \in Missing(g, rows, n) : \A j \in Missing(g, rows, n) : k <= j}

FireByEdge(g, rows, e) ==
  IF isFanned(g, e.target)
  THEN IF WidthKnown(g, rows, e.target)
       THEN {[instance |-> <<e.target, k>>, from |-> e.from] : k \in ItemsToFire(g, rows, e.target)}
       ELSE {}
  ELSE IF Spent(g, rows, e) THEN {}
  ELSE {[instance |-> <<e.target, Cardinality(Present(rows, e.target))>>, from |-> e.from]}

\* toFire, as a set: a pass that adds what it fires to rows takes them in turn.
ToFire(g, rows, known) ==
  UNION {FireByEdge(g, rows, e) :
           e \in {d \in Edges(g, rows, known) : areDependenciesSatisfied(g, rows, d.target)}}

\* blockedWaiting: an edge waits for dependencies, a width or an item.
BlockedWaiting(g, rows, known) ==
  \E e \in Edges(g, rows, known) :
    IF isFanned(g, e.target)
    THEN \/ ~areDependenciesSatisfied(g, rows, e.target)
         \/ ~WidthKnown(g, rows, e.target)
         \/ Missing(g, rows, e.target) # {} /\ ItemsToFire(g, rows, e.target) = {}
    ELSE ~Spent(g, rows, e) /\ ~areDependenciesSatisfied(g, rows, e.target)

HasInFlight(rows) == \E i \in Instances : rows[i].status \notin {"absent", "succeeded"}
================================================================================
