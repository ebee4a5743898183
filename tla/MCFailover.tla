----------------------------- MODULE MCFailover -----------------------------
(* Two accounts besides the one that runs out, two clicks on "recover".      *)
EXTENDS Failover, TLC

CONSTANTS work1, a0, a1, a2, r1, r2, t0, t1, t2, c0, c1, c2

MCTerminals == {t0, t1, t2}
MCContexts == {c0, c1, c2}
Symmetry ==
  Permutations({a1, a2}) \cup Permutations({r1, r2}) \cup Permutations({t1, t2})
    \cup Permutations({c1, c2})

=============================================================================
