---------------------------- MODULE MCDecisions ----------------------------
(* Decisions for TLC: the root's position and a Worker's.                  *)
EXTENDS Decisions, TLC

CONSTANTS root, worker

\* The root asks for a waiver or under the default policy; the Worker asks under the default
\* policy and proposes a call, which a second Attempt may propose again after the first one died.
RootAndWorker == (root :> {"waiver", "default"}) @@ (worker :> {"default", "approval"})
TwoAndTwo == (root :> 2) @@ (worker :> 2)
OneAndTwo == (root :> 1) @@ (worker :> 2)

=============================================================================
