---------------------------- MODULE MCWorkLedger ----------------------------
(* Two independent tasks, one of them gated, and a third that needs both.    *)
EXTENDS WorkLedger, TLC

CONSTANTS draft, build, ship, w1, w2

MCTasks == {draft, build, ship}
MCWorkers == {w1, w2}
MCDeps == (draft :> {}) @@ (build :> {}) @@ (ship :> {draft, build})
MCCapable == [t \in MCTasks |-> MCWorkers]
MCPolicyGated == {ship}
MCRiskGated == {build}
MCAutoReviewable == {draft}
MCWorkerSymmetry == Permutations(MCWorkers)

=============================================================================
