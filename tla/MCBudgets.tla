----------------------------- MODULE MCBudgets -----------------------------
(* A Run for TLC: a node that fails when its allocation is exhausted, one  *)
(* that is extended, and the root, which always is.                        *)
EXTENDS Budgets, TLC

CONSTANTS root, final, a, b

\* a may be removed before or after it starts.
AddAndRemove == <<{a, b}, {b}>>
SomeItems == (root :> 2) @@ (final :> 2) @@ (a :> 2) @@ (b :> 1)
EachPolicy == (root :> "extend") @@ (a :> "fail") @@ (b :> "extend")
\* a covers its second item only when the first leaves something, b not even its only one.
SomeGrant == (root :> 1) @@ (a :> 1) @@ (b :> 1)
SomeNeed == (root :> 1) @@ (final :> 1) @@ (a :> 1) @@ (b :> 2)
\* An item of a and a final-reserve Invocation may overrun; the other turns spend nothing.
SomeOverrun == (root :> 0) @@ (final :> 2) @@ (a :> 2) @@ (b :> 0)

=============================================================================
