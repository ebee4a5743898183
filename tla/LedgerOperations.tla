--------------------------- MODULE LedgerOperations ---------------------------
(***************************************************************************)
(* The BarkOS delegation ledger: one objective with a materialised plan,   *)
(* the assignments of its tasks to workers, the approval gates in front of *)
(* them, the dispatch attempts made for them, the stop settlement of an    *)
(* attempt and the evidence reviewed before a task counts as completed.    *)
(*                                                                         *)
(* A ledger is a value.  Every operation of the code takes a ledger,       *)
(* checks its preconditions, builds the next ledger and parses it with the *)
(* ledger schema, which throws when a cross-record rule is broken.  Here   *)
(* CanX(L, ..) is what operation X checks, X(L, ..) the ledger it builds,  *)
(* Valid what the schema's rules demand of it.  WorkLedger applies the     *)
(* operations one at a time to one ledger; Delegation runs them from       *)
(* concurrent sessions that hold stale copies.                             *)
(***************************************************************************)
EXTENDS Integers, FiniteSets

CONSTANTS
  Tasks,           \* the tasks of the objective's active plan
  Workers,         \* the company's workers
  None,            \* the task or worker of an assignment not yet made
  Deps,            \* Deps[t]: the tasks t depends on
  Capable,         \* Capable[t]: the workers whose role covers t
  PolicyGated,     \* tasks with approvalPolicy "before-dispatch"
  RiskGated,       \* tasks with risk "high" or "critical"
  AutoReviewable,  \* tasks whose successful report policy may accept
  MaxAssignments,  \* BARKOS_MAX_ASSIGNMENTS
  MaxAttempts,     \* BARKOS_MAX_DISPATCH_ATTEMPTS
  MaxActive,       \* policy: active assignments per worker
  MaxConcurrent,   \* policy: dispatches in flight
  MaxDispatches    \* policy: dispatches per objective

ASSUME PlanAssumption ==
  /\ None \notin Tasks \cup Workers
  /\ Deps \in [Tasks -> SUBSET Tasks]
  /\ Capable \in [Tasks -> SUBSET Workers]
  /\ PolicyGated \subseteq Tasks
  /\ RiskGated \subseteq Tasks
  /\ AutoReviewable \subseteq Tasks

\* findDependencyCycle rejects any other plan.
ASSUME AcyclicAssumption ==
  \A S \in SUBSET Tasks : S # {} => \E t \in S : Deps[t] \cap S = {}

ASSUME LimitAssumption ==
  /\ MaxAssignments \in Nat
  /\ MaxAttempts \in Nat
  /\ MaxActive \in Nat
  /\ MaxConcurrent \in Nat
  /\ MaxDispatches \in Nat

AsgIds == 1 .. MaxAssignments
Attempts == 1 .. MaxAttempts
DspIds == AsgIds \X Attempts

-----------------------------------------------------------------------------
(* Records.  The values the schema allows and no code ever writes ("draft", *)
(* "assigned", "proposed", "requested", "circuit-broken", "expired") are    *)
(* left out.                                                                *)

TaskStatus ==
  {"blocked", "ready", "running", "review", "completed", "failed", "cancelled"}

Assignment ==
  [status : {"absent", "approved", "dispatched", "completed", "rejected", "reassigned"},
   task   : Tasks \cup {None},
   worker : Workers \cup {None},
   gate   : {"none", "pending", "approved", "rejected"}]

Dispatch ==
  [state    : {"absent", "prepared", "running", "succeeded", "failed", "cancelled"},
   stop     : {"none", "requested", "dispatch-stopped", "uncertain", "completed"},
   evidence : {"none", "submitted", "accepted", "rejected"}]

Ledger ==
  [revision  : Nat,
   objective : {"active", "completed", "failed"},
   plan      : {"active", "completed"},
   task      : [Tasks -> TaskStatus],
   asg       : [AsgIds -> Assignment],
   dsp       : [DspIds -> Dispatch]]

NoAssignment == [status |-> "absent", task |-> None, worker |-> None, gate |-> "none"]
NoDispatch == [state |-> "absent", stop |-> "none", evidence |-> "none"]

\* The ledger once materializeBarkosPlanInOrca has bound the run and every task.
Materialized ==
  [revision  |-> 0,
   objective |-> "active",
   plan      |-> "active",
   task      |-> [t \in Tasks |-> IF Deps[t] = {} THEN "ready" ELSE "blocked"],
   asg       |-> [a \in AsgIds |-> NoAssignment],
   dsp       |-> [d \in DspIds |-> NoDispatch]]

Active == {"approved", "dispatched"}
Unsettled == {"prepared", "running"}
PendingStop == {"requested", "dispatch-stopped", "uncertain"}

NeedsApproval(t) == t \in PolicyGated \/ t \in RiskGated
TaskOf(L, d) == L.asg[d[1]].task
ActiveOn(L, t) == {a \in AsgIds : L.asg[a].task = t /\ L.asg[a].status \in Active}
Load(L, w) == Cardinality({a \in AsgIds : L.asg[a].worker = w /\ L.asg[a].status \in Active})
InFlight(L) == {d \in DspIds : L.dsp[d].state \in Unsettled}
Dispatched(L) == {d \in DspIds : L.dsp[d].state # "absent"}

-----------------------------------------------------------------------------
(* The schema's cross-record rules.                                         *)

ValidPlan(L) ==
  \A t \in Tasks :
    L.task[t] \in {"ready", "running", "review", "completed"} =>
      \A u \in Deps[t] : L.task[u] = "completed"

ValidEvidence(L) ==
  \A d \in DspIds : L.dsp[d].evidence # "none" => L.dsp[d].state = "succeeded"

\* The code compares assignedAt with settledAt; ids are handed out in order.
HasReplacement(L, a) ==
  \E b \in AsgIds : b > a /\ L.asg[b].task = L.asg[a].task

\* Defect: the rule for stops still pending is missing.
CompletedStopsOnly(L) ==
  \A d \in DspIds :
    L.dsp[d].stop = "completed" =>
      /\ L.dsp[d].state = "cancelled"
      /\ L.asg[d[1]].status \in {"rejected", "reassigned"}

ValidStops(L) ==
  \A d \in DspIds :
    /\ L.dsp[d].stop = "completed" =>
         /\ L.dsp[d].state = "cancelled"
         /\ \/ /\ L.asg[d[1]].status = "rejected"
               /\ L.task[TaskOf(L, d)] = "cancelled"
            \/ /\ L.asg[d[1]].status = "reassigned"
               /\ HasReplacement(L, d[1])
    /\ L.dsp[d].stop \in PendingStop =>
         /\ L.dsp[d].state = "running"
         /\ L.asg[d[1]].status = "dispatched"
         /\ L.task[TaskOf(L, d)] = "running"

HasAccepted(L, a) == \E n \in Attempts : L.dsp[<<a, n>>].evidence = "accepted"

ValidCompletion(L) ==
  /\ \A a \in AsgIds : L.asg[a].status = "completed" => HasAccepted(L, a)
  /\ \A a, b \in AsgIds :
       /\ L.asg[a].status \in Active
       /\ L.asg[b].status \in Active
       /\ L.asg[a].task = L.asg[b].task
       => a = b
  /\ \A t \in Tasks : L.task[t] = "completed" =>
       \E a \in AsgIds : L.asg[a].task = t /\ HasAccepted(L, a)
  /\ \A a \in AsgIds :
       /\ L.asg[a].task \in PolicyGated
       /\ L.asg[a].status \in {"dispatched", "completed"}
       => L.asg[a].gate = "approved"
  /\ L.objective = "completed" => \A t \in Tasks : L.task[t] = "completed"

Valid(L) ==
  /\ ValidPlan(L)
  /\ ValidEvidence(L)
  /\ ValidStops(L)
  /\ ValidCompletion(L)

-----------------------------------------------------------------------------
(* Assignment, approval and reassignment.                                   *)

NextAssignmentId(L, a) ==
  /\ L.asg[a].status = "absent"
  /\ \A b \in AsgIds : b < a => L.asg[b].status # "absent"

\* selectBarkosWorkerForTask; which of the candidates it prefers depends on the
\* availability and environment of the workers, which the ledger does not hold.
\* Defect: the stopped worker is not excluded.
SelectableAnyone(L, t, w, excluded) ==
  /\ ActiveOn(L, t) = {}
  /\ w \in Capable[t]
  /\ Load(L, w) < MaxActive

Selectable(L, t, w, excluded) ==
  /\ ActiveOn(L, t) = {}
  /\ w \in Capable[t] \ excluded
  /\ Load(L, w) < MaxActive

NewAssignment(t, w) ==
  [status |-> "approved", task |-> t, worker |-> w,
   gate   |-> IF NeedsApproval(t) THEN "pending" ELSE "none"]

CanAssign(L, t, w, a) ==
  /\ L.task[t] = "ready"
  /\ Selectable(L, t, w, {})
  /\ NextAssignmentId(L, a)

Assign(L, t, w, a) ==
  [L EXCEPT !.revision = @ + 1, !.asg[a] = NewAssignment(t, w)]

CanDecideGate(L, a) ==
  /\ L.asg[a].status = "approved"
  /\ L.asg[a].gate = "pending"

DecideGate(L, a, decision) ==
  [L EXCEPT !.revision = @ + 1,
            !.asg[a].gate = decision,
            !.asg[a].status = IF decision = "rejected" THEN "rejected" ELSE @]

CanReassign(L, d, w, a) ==
  /\ L.dsp[d].state = "cancelled"
  /\ L.dsp[d].stop = "completed"
  /\ L.asg[d[1]].status = "rejected"
  /\ L.task[TaskOf(L, d)] = "cancelled"
  /\ Selectable(L, TaskOf(L, d), w, {L.asg[d[1]].worker})
  /\ NextAssignmentId(L, a)

Reassign(L, d, w, a) ==
  [L EXCEPT !.revision = @ + 1,
            !.asg = [@ EXCEPT ![d[1]].status = "reassigned",
                              ![a] = NewAssignment(TaskOf(L, d), w)],
            !.task[TaskOf(L, d)] = "ready"]

-----------------------------------------------------------------------------
(* Dispatch: a durable "prepared" attempt, then its commit or its failure.  *)

NextAttempt(L, d) ==
  /\ d[2] > 1 => L.dsp[<<d[1], d[2] - 1>>].state # "absent"
  /\ \A n \in Attempts : n >= d[2] => L.dsp[<<d[1], n>>].state = "absent"

\* Defects: an attempt in flight, or a gate not approved, does not block the next.
CanPrepareTwice(L, d) ==
  /\ L.asg[d[1]].status = "approved"
  /\ L.task[TaskOf(L, d)] = "ready"
  /\ Cardinality(InFlight(L)) < MaxConcurrent
  /\ Cardinality(Dispatched(L)) < MaxDispatches
  /\ NeedsApproval(TaskOf(L, d)) => L.asg[d[1]].gate = "approved"
  /\ NextAttempt(L, d)

CanPrepareUngated(L, d) ==
  /\ L.asg[d[1]].status = "approved"
  /\ L.task[TaskOf(L, d)] = "ready"
  /\ Cardinality(InFlight(L)) < MaxConcurrent
  /\ Cardinality(Dispatched(L)) < MaxDispatches
  /\ \A n \in Attempts : L.dsp[<<d[1], n>>].state \notin Unsettled
  /\ NextAttempt(L, d)

CanPrepare(L, d) ==
  /\ L.asg[d[1]].status = "approved"
  /\ L.task[TaskOf(L, d)] = "ready"
  /\ Cardinality(InFlight(L)) < MaxConcurrent
  /\ Cardinality(Dispatched(L)) < MaxDispatches
  /\ NeedsApproval(TaskOf(L, d)) => L.asg[d[1]].gate = "approved"
  /\ \A n \in Attempts : L.dsp[<<d[1], n>>].state \notin Unsettled
  /\ NextAttempt(L, d)

Prepare(L, d) == [L EXCEPT !.revision = @ + 1, !.dsp[d].state = "prepared"]

FailPrepared(L, d) == [L EXCEPT !.revision = @ + 1, !.dsp[d].state = "failed"]

Commit(L, d) ==
  [L EXCEPT !.revision = @ + 1,
            !.asg[d[1]].status = "dispatched",
            !.task[TaskOf(L, d)] = "running",
            !.dsp[d].state = "running"]

-----------------------------------------------------------------------------
(* Stop: request, proof of the stopped authority, completion or doubt.      *)

CanPrepareStop(L, d) ==
  /\ L.dsp[d].state = "running"
  /\ L.dsp[d].stop = "none"

SetStop(L, d, state) == [L EXCEPT !.revision = @ + 1, !.dsp[d].stop = state]

\* Defect: the task of a stopped dispatch is not cancelled.
CompleteStopKeepingTask(L, d) ==
  [L EXCEPT !.revision = @ + 1,
            !.asg[d[1]].status = "rejected",
            !.dsp[d].state = "cancelled",
            !.dsp[d].stop = "completed"]

CompleteStop(L, d) ==
  [L EXCEPT !.revision = @ + 1,
            !.asg[d[1]].status = "rejected",
            !.task[TaskOf(L, d)] = "cancelled",
            !.dsp[d].state = "cancelled",
            !.dsp[d].stop = "completed"]

-----------------------------------------------------------------------------
(* Evidence and review.                                                     *)

CanSubmit(L, d) ==
  /\ L.dsp[d].state = "running"
  /\ L.task[TaskOf(L, d)] = "running"
  /\ L.asg[d[1]].status = "dispatched"
  /\ L.dsp[d].evidence = "none"

Submit(L, d) ==
  [L EXCEPT !.revision = @ + 1,
            !.task[TaskOf(L, d)] = "review",
            !.dsp[d].state = "succeeded",
            !.dsp[d].evidence = "submitted"]

\* Defect: evidence already decided can be reviewed again.
CanReviewAgain(L, d) == L.dsp[d].evidence # "none"

CanReview(L, d) == L.dsp[d].evidence = "submitted"

CompleteAndUnlock(status, t) ==
  LET done == [status EXCEPT ![t] = "completed"] IN
  [u \in Tasks |->
     IF done[u] = "blocked" /\ \A v \in Deps[u] : done[v] = "completed"
     THEN "ready" ELSE done[u]]

Accept(L, d) ==
  LET status == CompleteAndUnlock(L.task, TaskOf(L, d))
      closed == \A t \in Tasks : status[t] = "completed"
  IN [L EXCEPT !.revision = @ + 1,
               !.objective = IF closed THEN "completed" ELSE @,
               !.plan = IF closed THEN "completed" ELSE @,
               !.task = status,
               !.asg[d[1]].status = "completed",
               !.dsp[d].evidence = "accepted"]

\* A rejection returns the task to the queue and the objective to "active".
\* Defect: the task takes the status of its evidence.
RejectTask(L, d) ==
  [L EXCEPT !.revision = @ + 1,
            !.objective = "active",
            !.task[TaskOf(L, d)] = "rejected",
            !.asg[d[1]].status = "rejected",
            !.dsp[d].evidence = "rejected"]

Reject(L, d) ==
  [L EXCEPT !.revision = @ + 1,
            !.objective = "active",
            !.task[TaskOf(L, d)] = "ready",
            !.asg[d[1]].status = "rejected",
            !.dsp[d].evidence = "rejected"]

FailDispatch(L, d) ==
  [L EXCEPT !.revision = @ + 1,
            !.objective = "failed",
            !.task[TaskOf(L, d)] = "failed",
            !.asg[d[1]].status = "rejected",
            !.dsp[d].state = "failed"]

\* A report that policy accepts is submitted and accepted in one ledger revision.
ReportAccepted(L, d) ==
  [Accept(Submit(L, d), d) EXCEPT !.revision = L.revision + 1]

=============================================================================
