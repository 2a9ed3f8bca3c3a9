------------------------------- MODULE MCPlan -------------------------------
(* Plans for TLC: the compiled drafts an Orchestrator proposes in turn.    *)
EXTENDS Plan

Once(paths) == {<<p, 1>> : p \in paths}
RevisedNodes == Once({"a", "b", "c", "j"}) \cup {<<"a", 2>>}

Single == [kind |-> "pattern", steps |-> 1, tolerant |-> FALSE, any |-> FALSE, choices |-> {"done"}]
Chain == [Single EXCEPT !.steps = 2]
Tolerant(def) == [def EXCEPT !.tolerant = TRUE]
Route == [Single EXCEPT !.choices = {"x", "y"}]
Any == [Single EXCEPT !.kind = "join", !.steps = 0, !.any = TRUE]

Seq2(a, b) == [from |-> a, to |-> b, type |-> "sequence", on |-> {"done"}]
Fan(a, b) == [from |-> a, to |-> b, type |-> "fan_in", on |-> {"done"}]

\* a is a route: branch x runs b, y is inline; then c, whichever was chosen, failures included.
Routed == [defs |-> [p \in {"a", "b", "c"} |->
                       CASE p = "a" -> Route [] p = "b" -> Single [] p = "c" -> Tolerant(Chain)],
           edges |-> {[from |-> "a", to |-> "b", type |-> "branch", on |-> {"x"}],
                      [from |-> "a", to |-> "c", type |-> "sequence", on |-> {"y"}],
                      Seq2("b", "c")}]

\* a, now a chain, and b fan in to a join whose aggregation is c; then the same without a.
Fanned == [defs |-> [p \in {"a", "b", "j", "c"} |->
                       CASE p = "a" -> Chain [] p = "b" -> Single [] p = "j" -> Any
                         [] p = "c" -> Tolerant(Chain)],
           edges |-> {Fan("a", "j"), Fan("b", "j"), Seq2("j", "c")}]
Fewer == [defs |-> [p \in {"b", "j", "c"} |-> Fanned.defs[p]],
          edges |-> {Fan("b", "j"), Seq2("j", "c")}]

Revised == <<Routed, Fanned, Fewer>>
=============================================================================
