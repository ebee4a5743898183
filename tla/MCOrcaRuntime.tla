---------------------------- MODULE MCOrcaRuntime ----------------------------
(* Two independent tasks and one that needs both, two terminals.             *)
EXTENDS OrcaRuntime, TLC

CONSTANTS draft, build, ship, w1, w2, c1, c2, c3

MCTasks == {draft, build, ship}
MCWorkers == {w1, w2}
MCContexts == {c1, c2, c3}
MCDeps == (draft :> {}) @@ (build :> {}) @@ (ship :> {draft, build})
MCSymmetry ==
  Permutations(MCWorkers) \cup Permutations(MCContexts) \cup Permutations({draft, build})

=============================================================================
