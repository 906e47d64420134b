-------------------------------- MODULE MCGraphRun --------------------------------
(* Small graphs for GraphRun.                                                  *)
EXTENDS GraphRun, TLC

MCNodes == {"a", "b", "c", "d"}

\* A plain next leads to its targets whatever the node does.
Plain(S) == NoBranch :> S
Alone == [n \in MCNodes |-> Plain({})]
None0 == [n \in MCNodes |-> {}]
Base == [entries |-> {"a"}, next |-> Alone, deps |-> None0, onError |-> None0,
         source |-> [n \in MCNodes |-> None], width |-> [n \in MCNodes |-> 0],
         sequential |-> {}, retries |-> [n \in MCNodes |-> 0]]

\* Two entry nodes side by side and d, which joins them; a may be tried twice.
Join == [Base EXCEPT
  !.entries = {"a", "b"},
  !.next = ("a" :> Plain({"d"})) @@ ("b" :> Plain({"d"})) @@ Alone,
  !.deps["d"] = {"a", "b"},
  !.retries["a"] = 1]

\* a decides: once more, or on to b.
Loop == [Base EXCEPT
  !.next["a"] = ("again" :> {"a"}) @@ ("done" :> {"b"})]

\* The run enters at a, once for each item of its input; then b, once for each
\* item, one at a time; then d with what both gave.
Fans == [Base EXCEPT
  !.next = ("a" :> Plain({"b"})) @@ ("b" :> Plain({"d"})) @@ Alone,
  !.deps["d"] = {"a", "b"},
  !.source = ("a" :> Trigger) @@ ("b" :> Trigger) @@ Base.source,
  !.width = ("a" :> 2) @@ ("b" :> 2) @@ Base.width,
  !.sequential = {"b"}]

\* An empty forEach between a and c; d handles the errors of a.
EmptyFan == [Base EXCEPT
  !.next = ("a" :> Plain({"b"})) @@ ("b" :> Plain({"c"})) @@ Alone,
  !.deps["b"] = {"a"},
  !.source["b"] = "a",
  !.onError["a"] = {"d"}]

\* a decides whether b follows.
Branch == [Base EXCEPT !.next["a"] = ("yes" :> {"b"})]

Shapes == {Join, Loop, Fans, EmptyFan}
OneBranch == {Branch}
Symmetry == Permutations(Passes)
===================================================================================
