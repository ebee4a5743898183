------------------------ MODULE MCSideEffectApproval ------------------------
\* Calls of one dispatch for TLC; c4 does something else than the others.
EXTENDS SideEffectApproval, TLC

CONSTANTS c1, c2, c3, c4, c5, c6, i1, i2

MCInputOf == [c \in Calls |-> IF c = c4 THEN i2 ELSE i1]

\* Calls of a kind differ in nothing.
Symmetry == Permutations(Paired \ {c4}) \cup Permutations(Calls \ (Paired \cup {c4}))

=============================================================================
