------------------------------ MODULE WorkLedger ------------------------------
(***************************************************************************)
(* The delegation ledger as every reader of it may imagine it: one ledger,  *)
(* to which the operations of LedgerOperations are applied one at a time.   *)
(* Delegation implements this specification.                                *)
(***************************************************************************)
EXTENDS LedgerOperations

VARIABLE ledger

Init == ledger = Materialized

\* nextBarkosLedgerRevision: an invalid next ledger is thrown away.
Advance(next) == Valid(next) /\ ledger' = next

AssignReadyTask ==
  \E t \in Tasks, w \in Workers, a \in AsgIds :
    CanAssign(ledger, t, w, a) /\ Advance(Assign(ledger, t, w, a))

DecideDispatchGate ==
  \E a \in AsgIds, decision \in {"approved", "rejected"} :
    CanDecideGate(ledger, a) /\ Advance(DecideGate(ledger, a, decision))

ReassignStoppedTask ==
  \E d \in DspIds, w \in Workers, a \in AsgIds :
    CanReassign(ledger, d, w, a) /\ Advance(Reassign(ledger, d, w, a))

PrepareDispatch ==
  \E d \in DspIds : CanPrepare(ledger, d) /\ Advance(Prepare(ledger, d))

SettlePrepared ==
  \E d \in DspIds :
    /\ ledger.dsp[d].state = "prepared"
    /\ Advance(Commit(ledger, d)) \/ Advance(FailPrepared(ledger, d))

RequestStop ==
  \E d \in DspIds :
    CanPrepareStop(ledger, d) /\ Advance(SetStop(ledger, d, "requested"))

SettleStop ==
  \E d \in DspIds :
    \/ /\ ledger.dsp[d].stop = "requested"
       /\ Advance(SetStop(ledger, d, "dispatch-stopped"))
    \/ /\ ledger.dsp[d].stop \in {"requested", "dispatch-stopped"}
       /\ Advance(SetStop(ledger, d, "uncertain"))
    \/ /\ ledger.dsp[d].stop = "dispatch-stopped"
       /\ Advance(CompleteStop(ledger, d))

SubmitEvidence ==
  \E d \in DspIds : CanSubmit(ledger, d) /\ Advance(Submit(ledger, d))

ReviewEvidence ==
  \E d \in DspIds :
    /\ CanReview(ledger, d)
    /\ Advance(Accept(ledger, d)) \/ Advance(Reject(ledger, d))

\* reconcileBarkosWorkerReport on the running dispatch of the reported task.
ReconcileReport ==
  \E d \in DspIds :
    /\ ledger.dsp[d].state = "running"
    /\ \/ Advance(FailDispatch(ledger, d))
       \/ CanSubmit(ledger, d) /\ Advance(Submit(ledger, d))
       \/ /\ CanSubmit(ledger, d)
          /\ Valid(Submit(ledger, d))
          /\ TaskOf(ledger, d) \in AutoReviewable
          /\ Advance(ReportAccepted(ledger, d))

Next ==
  \/ AssignReadyTask
  \/ DecideDispatchGate
  \/ ReassignStoppedTask
  \/ PrepareDispatch
  \/ SettlePrepared
  \/ RequestStop
  \/ SettleStop
  \/ SubmitEvidence
  \/ ReviewEvidence
  \/ ReconcileReport

Spec == Init /\ [][Next]_ledger

-----------------------------------------------------------------------------
(* Properties.                                                              *)

TypeOK == ledger \in Ledger

\* Two attempts for one task are never in flight together, whichever
\* assignments they belong to: the schema only forbids two active assignments.
OneAuthorityPerTask ==
  \A d, e \in InFlight(ledger) : TaskOf(ledger, d) = TaskOf(ledger, e) => d = e

\* No attempt is ever recorded for a protected task without its approved gate;
\* the schema checks the approval policy alone, requireApprovedBarkosDispatch
\* the risk as well.
NoUnapprovedAttempt ==
  \A d \in Dispatched(ledger) :
    NeedsApproval(TaskOf(ledger, d)) => ledger.asg[d[1]].gate = "approved"

\* An attempt moves in step with its assignment.  At most one attempt of an
\* assignment is live: in flight, or succeeded with its evidence under review.
\* A prepared one belongs to an approved assignment, any other live one to a
\* dispatched assignment, and none was made before the gate was approved.
Live(L, d) == L.dsp[d].state \in Unsettled \/ L.dsp[d].evidence = "submitted"

NoAttemptBeforeAssignment(L) ==
  \A d \in DspIds : L.asg[d[1]].status = "absent" => L.dsp[d].state = "absent"

AttemptMatchesAssignment(L) ==
  \A d \in DspIds :
    /\ L.dsp[d].state = "prepared" => L.asg[d[1]].status = "approved"
    /\ L.dsp[d].state = "running" => L.asg[d[1]].status = "dispatched"
    /\ L.dsp[d].evidence = "submitted" => L.asg[d[1]].status = "dispatched"

OneLiveAttempt(L) ==
  \A d, e \in DspIds : Live(L, d) /\ Live(L, e) /\ d[1] = e[1] => d = e

AttemptAfterApproval(L) ==
  /\ \A a \in AsgIds : L.asg[a].gate # "none" => NeedsApproval(L.asg[a].task)
  /\ \A d \in DspIds : L.dsp[d].state # "absent" /\ NeedsApproval(TaskOf(L, d)) =>
       L.asg[d[1]].gate = "approved"

Lifecycle(L) ==
  /\ NoAttemptBeforeAssignment(L)
  /\ AttemptMatchesAssignment(L)
  /\ OneLiveAttempt(L)
  /\ AttemptAfterApproval(L)

AttemptFollowsAssignment == Lifecycle(ledger)

\* A dispatched assignment has an attempt that runs or whose evidence waits for
\* review: no settlement path leaves a worker's capacity taken by nothing.
DispatchedHasOwner ==
  \A a \in AsgIds : ledger.asg[a].status = "dispatched" =>
    \E n \in Attempts :
      \/ ledger.dsp[<<a, n>>].state = "running"
      \/ ledger.dsp[<<a, n>>].evidence = "submitted"

\* A completed objective has nothing under way: no active assignment, no attempt
\* in flight, no evidence still to review.
ClosedObjectiveIsQuiet ==
  ledger.objective = "completed" =>
    /\ ledger.plan = "completed"
    /\ \A a \in AsgIds : ledger.asg[a].status \notin Active
    /\ \A d \in DspIds :
         /\ ledger.dsp[d].state \notin Unsettled
         /\ ledger.dsp[d].evidence # "submitted"

\* A task is completed by exactly one accepted attempt, that of a completed
\* assignment, and no other task has one.
EarnedCompletion ==
  \A t \in Tasks :
    LET accepted == {d \in DspIds : TaskOf(ledger, d) = t
                                  /\ ledger.dsp[d].evidence = "accepted"}
    IN IF ledger.task[t] = "completed"
       THEN \E d \in accepted : accepted = {d} /\ ledger.asg[d[1]].status = "completed"
       ELSE accepted = {}

\* The assignment that takes over from a reassigned one is the next of its task
\* and goes to another worker.
ReassignmentMovesWork ==
  \A a \in AsgIds : ledger.asg[a].status = "reassigned" =>
    \E b \in AsgIds :
      /\ b > a
      /\ ledger.asg[b].task = ledger.asg[a].task
      /\ ledger.asg[b].worker # ledger.asg[a].worker
      /\ \A c \in (a + 1) .. (b - 1) : ledger.asg[c].task # ledger.asg[a].task

\* The limits of the control policy hold of the ledger, not only of each
\* decision that consulted them.
CapacityRespected ==
  /\ \A w \in Workers : Load(ledger, w) <= MaxActive
  /\ Cardinality(InFlight(ledger)) <= MaxConcurrent
  /\ Cardinality(Dispatched(ledger)) <= MaxDispatches

\* What must be recorded after an effect on the runtime is never refused by the
\* schema: the outcome of a prepared attempt, each outcome of a requested stop,
\* either decision on submitted evidence.
SettlementIsNeverRefused ==
  \A d \in DspIds :
    /\ ledger.dsp[d].state = "prepared" =>
         Valid(Commit(ledger, d)) /\ Valid(FailPrepared(ledger, d))
    /\ ledger.dsp[d].stop \in {"requested", "dispatch-stopped"} =>
         /\ Valid(SetStop(ledger, d, "dispatch-stopped"))
         /\ Valid(SetStop(ledger, d, "uncertain"))
         /\ Valid(CompleteStop(ledger, d))
    /\ ledger.dsp[d].evidence = "submitted" =>
         Valid(Accept(ledger, d)) /\ Valid(Reject(ledger, d))

\* While a stop is pending or in doubt nothing but its completion moves the
\* dispatch, its assignment or its task: no report, evidence or review does.
PendingStopFreezes ==
  [][\A d \in DspIds :
       ledger.dsp[d].stop \in PendingStop =>
         \/ ledger'.dsp[d].stop = "completed"
         \/ /\ ledger'.dsp[d].state = ledger.dsp[d].state
            /\ ledger'.dsp[d].evidence = ledger.dsp[d].evidence
            /\ ledger'.asg[d[1]] = ledger.asg[d[1]]
            /\ ledger'.task[TaskOf(ledger, d)] = ledger.task[TaskOf(ledger, d)]]_ledger

\* The audit record is append-only: what is settled is never settled otherwise.
SettledIsFinal ==
  [][/\ \A d \in DspIds :
          /\ ledger.dsp[d].state \in {"succeeded", "failed", "cancelled"} =>
               ledger'.dsp[d].state = ledger.dsp[d].state
          /\ ledger.dsp[d].evidence \in {"accepted", "rejected"} =>
               ledger'.dsp[d].evidence = ledger.dsp[d].evidence
     /\ \A a \in AsgIds :
          /\ ledger.asg[a].status \in {"completed", "reassigned"} =>
               ledger'.asg[a] = ledger.asg[a]
          /\ ledger.asg[a].gate \in {"approved", "rejected"} =>
               ledger'.asg[a].gate = ledger.asg[a].gate
     /\ \A t \in Tasks :
          ledger.task[t] \in {"completed", "failed"} =>
            ledger'.task[t] = ledger.task[t]]_ledger

\* Completed work was earned, and nothing is under way once the objective closed,
\* however many reviews, reports and promotions led there.
CompletionIsSound == EarnedCompletion /\ ClosedObjectiveIsQuiet

\* Workers' places are neither leaked, oversubscribed nor handed back: each
\* dispatched assignment has an owner, each reassigned one a successor elsewhere.
AssignmentsAreSound == DispatchedHasOwner /\ ReassignmentMovesWork /\ CapacityRespected

\* What a pending stop freezes and what is settled stays as it is, whatever else
\* is reported, reviewed or decided meanwhile.
RecordsAreFinal == PendingStopFreezes /\ SettledIsFinal

-----------------------------------------------------------------------------
\* The architecture document's "only an explicit user review can accept": no
\* evidence is accepted in the step that submits it.  The code does not keep it.
OnlyReviewAccepts ==
  [][\A d \in DspIds :
       ledger.dsp[d].evidence = "none" => ledger'.dsp[d].evidence # "accepted"]_ledger

=============================================================================
