---------------------------- MODULE MCRunMailbox ----------------------------
(***************************************************************************)
(* The Run's mailbox on a small instance: two panes, two checks and two    *)
(* messages, of any type, about one dispatch.                              *)
(***************************************************************************)
EXTENDS RunMailbox, TLC

\* Any pane may be the first coordinator, any check the first to ask, and any
\* message the first to be sent.
Symmetry == Permutations(Panes) \cup Permutations(Calls) \cup Permutations(Messages)

\* A second batch of messages, a new handle for a terminal, or mail about the
\* dispatch instead of other mail, but no two of them: a bound on what TLC
\* explores, which the theorems do without.
SecondBatch == issued > 1
NewHandle == \E p \in Panes : mints[p] > 0
AboutDispatch ==
    \/ \E d \in Dispatches : dispatch[d] # "dispatched"
    \/ \E i \in DOMAIN mail : mail[i].type # "status"

OneComplication ==
    /\ ~(SecondBatch /\ NewHandle)
    /\ AboutDispatch =>
        ~SecondBatch /\ ~NewHandle /\ \A i \in DOMAIN mail : mail[i].type # "status"

=============================================================================
