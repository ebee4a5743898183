---------------------------- MODULE MCDelegation ----------------------------
EXTENDS Delegation, TLC

CONSTANTS draft, build, w1, w2, s1, s2

MCTask == {draft}
MCTasks == {draft, build}
MCWorkers == {w1, w2}
MCSessions == {s1, s2}
MCSession == {s1}
MCNoSession == {}
MCIndependent == [t \in Tasks |-> {}]
MCChain == [t \in Tasks |-> IF t = build THEN {draft} ELSE {}]
MCCapable == [t \in Tasks |-> MCWorkers]
MCSymmetry == Permutations(MCWorkers) \cup Permutations(MCSessions)
MCWorkerSymmetry == Permutations(MCWorkers)

=============================================================================
