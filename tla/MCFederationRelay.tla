------------------------ MODULE MCFederationRelay ------------------------
(* Instances of FederationRelay.                                           *)
EXTENDS FederationRelay

Finished == [outcome |-> "succeeded", genuine |-> TRUE]
GaveUp == [outcome |-> "failed", genuine |-> TRUE]
OtherTask == [outcome |-> "succeeded", genuine |-> FALSE]

AllReports == {Finished, GaveUp, OtherTask}
GenuineReports == {Finished, GaveUp}

AllFaults == {"request lost", "answer lost", "died", "home restart", "worker restart", "reset"}
Recoverable == {"request lost", "home restart", "worker restart"}
AnswerLost == {"answer lost"}
LossAndReset == {"request lost", "reset"}
=============================================================================
