--------------------------- MODULE MCDecisionInbox ---------------------------
\* Requests for TLC, in the order of their creation.
EXTENDS DecisionInbox, TLC

CONSTANTS g, q, m, s

\* Neither the mounts nor the answers differ.
Symmetry == Permutations(Hooks) \cup Permutations(Answers)

MCCreatedAt == [r \in Requests |-> IF r = q THEN 1 ELSE IF r = m THEN 2 ELSE IF r = s THEN 3 ELSE 4]

=============================================================================
