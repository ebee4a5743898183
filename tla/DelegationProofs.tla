--------------------------- MODULE DelegationProofs ---------------------------
(***************************************************************************)
(* Proofs about Delegation, for any number of sessions, tasks, workers and  *)
(* attempts: its types, the agreement of the store with the runtime, the    *)
(* proof behind every recorded stop, and that the sessions together         *)
(* implement WorkLedger.                                                    *)
(*                                                                         *)
(* The invariants of the stored ledger and of the runtime are not proved    *)
(* again: W and O are the proofs about WorkLedger and OrcaRuntime, read of   *)
(* the variables of Delegation.  What is new is why the sessions' steps are  *)
(* steps of those two, whatever copy they are taken on.                     *)
(***************************************************************************)
EXTENDS Delegation, TLAPS

W == INSTANCE WorkLedgerProofs WITH ledger <- stored
O == INSTANCE OrcaRuntimeProofs WITH Contexts <- DspIds

-----------------------------------------------------------------------------
(* The instances spell the definitions of this module with names of their   *)
(* own.                                                                     *)

\* The ledger, its initial value and its schema.
LEMMA SameLedger ==
  /\ W!AsgIds = AsgIds /\ W!Attempts = Attempts /\ W!DspIds = DspIds
  /\ W!Ledger = Ledger /\ W!Materialized = Materialized
  /\ \A L : W!Valid(L) <=> Valid(L)
<1>1. W!AsgIds = AsgIds /\ W!Attempts = Attempts /\ W!DspIds = DspIds
  BY DEF W!AsgIds, AsgIds, W!Attempts, Attempts, W!DspIds, DspIds
<1>2. W!Ledger = Ledger
  BY <1>1 DEF W!Ledger, Ledger, W!TaskStatus, TaskStatus, W!Assignment, Assignment,
              W!Dispatch, Dispatch
<1>3. W!Materialized = Materialized
  BY <1>1 DEF W!Materialized, Materialized, W!NoAssignment, NoAssignment,
              W!NoDispatch, NoDispatch
<1>4. \A L : W!Valid(L) <=> Valid(L)
  BY DEF W!Valid, Valid, W!ValidPlan, ValidPlan, W!ValidEvidence, ValidEvidence,
         W!ValidStops, ValidStops, W!HasReplacement, HasReplacement,
         W!ValidCompletion, ValidCompletion, W!HasAccepted, HasAccepted,
         W!AsgIds, AsgIds, W!Attempts, Attempts, W!DspIds, DspIds,
         W!Active, Active, W!PendingStop, PendingStop, W!TaskOf, TaskOf
<1> QED BY <1>1, <1>2, <1>3, <1>4

\* What each operation of the ledger checks.
LEMMA SameGuards ==
  ASSUME NEW L
  PROVE  /\ \A t, w, a : W!CanAssign(L, t, w, a) <=> CanAssign(L, t, w, a)
         /\ \A a : W!CanDecideGate(L, a) <=> CanDecideGate(L, a)
         /\ \A d, w, a : W!CanReassign(L, d, w, a) <=> CanReassign(L, d, w, a)
         /\ \A d : W!CanPrepare(L, d) <=> CanPrepare(L, d)
         /\ \A d : W!CanPrepareStop(L, d) <=> CanPrepareStop(L, d)
         /\ \A d : W!CanSubmit(L, d) <=> CanSubmit(L, d)
         /\ \A d : W!CanReview(L, d) <=> CanReview(L, d)
<1>1. \A a : W!NextAssignmentId(L, a) <=> NextAssignmentId(L, a)
  BY DEF W!NextAssignmentId, NextAssignmentId, W!AsgIds, AsgIds
<1>2. \A t, w, X : W!Selectable(L, t, w, X) <=> Selectable(L, t, w, X)
  BY DEF W!Selectable, Selectable, W!ActiveOn, ActiveOn, W!Load, Load, W!Active, Active,
         W!AsgIds, AsgIds, W!Cardinality, Cardinality
<1>3. \A t, w, a : W!CanAssign(L, t, w, a) <=> CanAssign(L, t, w, a)
  BY <1>1, <1>2 DEF W!CanAssign, CanAssign
<1>4. \A d, w, a : W!CanReassign(L, d, w, a) <=> CanReassign(L, d, w, a)
  BY <1>1, <1>2 DEF W!CanReassign, CanReassign, W!TaskOf, TaskOf
<1>5. \A d : W!NextAttempt(L, d) <=> NextAttempt(L, d)
  BY DEF W!NextAttempt, NextAttempt, W!Attempts, Attempts
<1>6. /\ W!Cardinality(W!InFlight(L)) = Cardinality(InFlight(L))
      /\ W!Cardinality(W!Dispatched(L)) = Cardinality(Dispatched(L))
  BY DEF W!InFlight, InFlight, W!Dispatched, Dispatched, W!DspIds, DspIds, W!AsgIds, AsgIds,
         W!Attempts, Attempts, W!Unsettled, Unsettled, W!Cardinality, Cardinality
<1>7. \A d : W!CanPrepare(L, d) <=> CanPrepare(L, d)
  BY <1>5, <1>6 DEF W!CanPrepare, CanPrepare, W!TaskOf, TaskOf, W!NeedsApproval, NeedsApproval,
                    W!Attempts, Attempts, W!Unsettled, Unsettled
<1>8. /\ \A a : W!CanDecideGate(L, a) <=> CanDecideGate(L, a)
      /\ \A d : W!CanPrepareStop(L, d) <=> CanPrepareStop(L, d)
      /\ \A d : W!CanSubmit(L, d) <=> CanSubmit(L, d)
      /\ \A d : W!CanReview(L, d) <=> CanReview(L, d)
  BY DEF W!CanDecideGate, CanDecideGate, W!CanPrepareStop, CanPrepareStop,
         W!CanSubmit, CanSubmit, W!CanReview, CanReview, W!TaskOf, TaskOf
<1> QED BY <1>3, <1>4, <1>7, <1>8

\* The ledger each operation builds.
LEMMA SameOperations ==
  ASSUME NEW L
  PROVE  /\ \A t, w, a : W!Assign(L, t, w, a) = Assign(L, t, w, a)
         /\ \A a, c : W!DecideGate(L, a, c) = DecideGate(L, a, c)
         /\ \A d, w, a : W!Reassign(L, d, w, a) = Reassign(L, d, w, a)
         /\ \A d : W!Prepare(L, d) = Prepare(L, d)
         /\ \A d : W!Commit(L, d) = Commit(L, d)
         /\ \A d : W!FailPrepared(L, d) = FailPrepared(L, d)
         /\ \A d, x : W!SetStop(L, d, x) = SetStop(L, d, x)
         /\ \A d : W!CompleteStop(L, d) = CompleteStop(L, d)
         /\ \A d : W!Submit(L, d) = Submit(L, d)
         /\ \A d : W!Accept(L, d) = Accept(L, d)
         /\ \A d : W!Reject(L, d) = Reject(L, d)
         /\ \A d : W!FailDispatch(L, d) = FailDispatch(L, d)
         /\ \A d : W!ReportAccepted(L, d) = ReportAccepted(L, d)
<1>1. \A d : W!TaskOf(L, d) = TaskOf(L, d)
  BY DEF W!TaskOf, TaskOf
<1>2. \A t, w : W!NewAssignment(t, w) = NewAssignment(t, w)
  BY DEF W!NewAssignment, NewAssignment, W!NeedsApproval, NeedsApproval
<1>3. \A t, w, a : W!Assign(L, t, w, a) = Assign(L, t, w, a)
  BY <1>2 DEF W!Assign, Assign
<1>4. \A a, c : W!DecideGate(L, a, c) = DecideGate(L, a, c)
  BY DEF W!DecideGate, DecideGate
<1>5. \A d, w, a : W!Reassign(L, d, w, a) = Reassign(L, d, w, a)
  BY <1>1, <1>2 DEF W!Reassign, Reassign
<1>6. /\ \A d : W!Prepare(L, d) = Prepare(L, d)
      /\ \A d : W!FailPrepared(L, d) = FailPrepared(L, d)
      /\ \A d, x : W!SetStop(L, d, x) = SetStop(L, d, x)
  BY DEF W!Prepare, Prepare, W!FailPrepared, FailPrepared, W!SetStop, SetStop
<1>7. \A d : W!Commit(L, d) = Commit(L, d)
  BY <1>1 DEF W!Commit, Commit
<1>8. \A d : W!CompleteStop(L, d) = CompleteStop(L, d)
  BY <1>1 DEF W!CompleteStop, CompleteStop
<1>9. \A d : W!Submit(L, d) = Submit(L, d)
  BY <1>1 DEF W!Submit, Submit
<1>10. \A d : W!Reject(L, d) = Reject(L, d)
  BY <1>1 DEF W!Reject, Reject
<1>11. \A d : W!FailDispatch(L, d) = FailDispatch(L, d)
  BY <1>1 DEF W!FailDispatch, FailDispatch
<1>12. \A M, d : W!Accept(M, d) = Accept(M, d)
  BY DEF W!Accept, Accept, W!CompleteAndUnlock, CompleteAndUnlock, W!TaskOf, TaskOf
<1>13. \A d : W!ReportAccepted(L, d) = ReportAccepted(L, d)
  BY <1>9, <1>12 DEF W!ReportAccepted, ReportAccepted
<1> QED BY <1>3, <1>4, <1>5, <1>6, <1>7, <1>8, <1>9, <1>10, <1>11, <1>12, <1>13

\* The transactions of the runtime.
LEMMA SameRuntime ==
  /\ O!RuntimeInit <=> Orca!RuntimeInit
  /\ O!RuntimeTypeOK <=> Orca!RuntimeTypeOK
  /\ O!NoResult = Orca!NoResult
  /\ \A c, t, w : O!Claim(c, t, w) <=> Orca!Claim(c, t, w)
  /\ \A c : O!Fail(c) <=> Orca!Fail(c)
  /\ \A c, x : O!Report(c, x) <=> Orca!Report(c, x)
  /\ \A c : O!Release(c) <=> Orca!Release(c)
  /\ \A t, x : O!Update(t, x) <=> Orca!Update(t, x)
<1>1. O!RuntimeInit <=> Orca!RuntimeInit
  BY DEF O!RuntimeInit, Orca!RuntimeInit, O!NoResult, Orca!NoResult, O!NoContext, Orca!NoContext
<1>2. O!RuntimeTypeOK <=> Orca!RuntimeTypeOK
  BY DEF O!RuntimeTypeOK, Orca!RuntimeTypeOK, O!RuntimeTaskStatus, Orca!RuntimeTaskStatus,
         O!Result, Orca!Result, O!Context, Orca!Context
<1>3. \A c, t, w : O!Claim(c, t, w) <=> Orca!Claim(c, t, w)
  BY DEF O!Claim, Orca!Claim, O!LiveAt, Orca!LiveAt, O!NoContext, Orca!NoContext
<1>4. \A c : O!Fail(c) <=> Orca!Fail(c)
  BY DEF O!Fail, Orca!Fail, O!LiveOn, Orca!LiveOn
<1>5. \A c, x : O!Report(c, x) <=> Orca!Report(c, x)
  BY DEF O!Report, Orca!Report, O!LiveOn, Orca!LiveOn, O!Settled, Orca!Settled,
         O!Promote, Orca!Promote
<1>6. \A c : O!Release(c) <=> Orca!Release(c)
  BY DEF O!Release, Orca!Release, O!LiveOn, Orca!LiveOn
<1>7. \A t, x : O!Update(t, x) <=> Orca!Update(t, x)
  BY DEF O!Update, Orca!Update, O!Updatable, Orca!Updatable, O!LiveOn, Orca!LiveOn,
         O!Settled, Orca!Settled, O!Promote, Orca!Promote, O!PushedResult, Orca!PushedResult
<1>8. O!NoResult = Orca!NoResult
  BY DEF O!NoResult, Orca!NoResult
<1> QED BY <1>1, <1>2, <1>3, <1>4, <1>5, <1>6, <1>7, <1>8

-----------------------------------------------------------------------------
(* The inductive invariant.                                                 *)

\* The phases in which a session has a call to the runtime under way.
Flow == {"calling", "stopping", "closing"}

\* The body of RevisionsIdentifyLedgers.
Current(L, x) ==
  x.phase # "closed" =>
    /\ x.copy.revision <= L.revision
    /\ x.copy.revision = L.revision => x.copy = L

\* A session has a target exactly while its call is under way, and the stored
\* ledger L says of that attempt what the session is about to settle.
Recorded(L, x) ==
  /\ x.target # None <=> x.phase \in Flow
  /\ x.phase = "calling" => L.dsp[x.target].state = "prepared"
  /\ x.phase = "stopping" => L.dsp[x.target].stop = "requested"
  /\ x.phase = "closing" => L.dsp[x.target].stop = "dispatch-stopped"

\* An update visits the tasks it has a status for.
Visits(x) == x.phase = "updating" => \A t \in x.left : DesiredStatus(x.copy, t) # "none"

SessionsAgree == \A s \in Sessions : Current(stored, sess[s]) /\ Recorded(stored, sess[s]) /\ Visits(sess[s])

TargetsDiffer ==
  \A r, s \in Sessions : r # s /\ sess[r].target # None => sess[r].target # sess[s].target

\* The states of an attempt that was committed.
Ran == {"running", "succeeded", "cancelled"}

Claimed(d) ==
  /\ runtime.ctx[d].status # "unused"
  /\ runtime.ctx[d].task = TaskOf(stored, d)
  /\ runtime.ctx[d].worker = stored.asg[d[1]].worker

\* A call is made for an attempt on record; what the call claimed, and what the
\* ledger calls run, has a context of its own task and worker.
CallsAgree ==
  \A d \in DspIds :
    /\ call[d] # "none" => stored.dsp[d].state # "absent"
    /\ call[d] \in {"claimed", "answered"} => Claimed(d)
    /\ stored.dsp[d].state \in Ran => Claimed(d)

DelegationInv ==
  /\ DelegationTypeOK
  /\ W!SafeInv
  /\ O!RuntimeInv
  /\ SessionsAgree
  /\ TargetsDiffer
  /\ CallsAgree
  /\ StopWasProven

-----------------------------------------------------------------------------
(* What the operations of the ledger leave alone.                           *)

\* An operation of a session whose target is x: the other attempts keep what a
\* flow of another session relies on and what the runtime answers for, and an
\* assignment once made keeps its task and worker.
Keeps(L, N, x) ==
  /\ \A e \in DspIds : e # x =>
       /\ L.dsp[e].state = "prepared" => N.dsp[e].state = "prepared"
       /\ L.dsp[e].stop \in {"requested", "dispatch-stopped"} => N.dsp[e].stop = L.dsp[e].stop
       /\ N.dsp[e].state \in Ran => L.dsp[e].state \in Ran
       /\ N.dsp[e].stop \in {"dispatch-stopped", "completed"} =>
            L.dsp[e].stop \in {"dispatch-stopped", "completed"}
  /\ \A e \in DspIds : L.dsp[e].state # "absent" => N.dsp[e].state # "absent"
  /\ \A a \in AsgIds : L.asg[a].status # "absent" =>
       N.asg[a].task = L.asg[a].task /\ N.asg[a].worker = L.asg[a].worker

\* The fields of a ledger.
LEMMA LedgerParts ==
  ASSUME NEW L \in Ledger
  PROVE  /\ L = [revision |-> L.revision, objective |-> L.objective, plan |-> L.plan,
                 task |-> L.task, asg |-> L.asg, dsp |-> L.dsp]
         /\ L.revision \in Nat
         /\ L.asg \in [AsgIds -> Assignment]
         /\ L.dsp \in [DspIds -> Dispatch]
         /\ L.task \in [Tasks -> TaskStatus]
  BY DEF Ledger

\* Assigning and deciding a gate.
LEMMA AssignmentKeeps ==
  ASSUME NEW L \in Ledger
  PROVE  /\ \A t, w : \A a \in AsgIds : CanAssign(L, t, w, a) =>
              /\ Keeps(L, Assign(L, t, w, a), None)
              /\ Assign(L, t, w, a).revision = L.revision + 1
         /\ \A d, w : \A a \in AsgIds : CanReassign(L, d, w, a) =>
              /\ Keeps(L, Reassign(L, d, w, a), None)
              /\ Reassign(L, d, w, a).revision = L.revision + 1
         /\ \A c : \A a \in AsgIds :
              /\ Keeps(L, DecideGate(L, a, c), None)
              /\ DecideGate(L, a, c).revision = L.revision + 1
<1> USE LedgerParts DEF Keeps, Assignment, Ran
<1>1. ASSUME NEW t, NEW w, NEW a \in AsgIds, CanAssign(L, t, w, a)
      PROVE  /\ Keeps(L, Assign(L, t, w, a), None)
             /\ Assign(L, t, w, a).revision = L.revision + 1
  BY <1>1 DEF CanAssign, NextAssignmentId, Assign
<1>2. ASSUME NEW d, NEW w, NEW a \in AsgIds, CanReassign(L, d, w, a)
      PROVE  /\ Keeps(L, Reassign(L, d, w, a), None)
             /\ Reassign(L, d, w, a).revision = L.revision + 1
  BY <1>2 DEF CanReassign, NextAssignmentId, Reassign
<1>3. ASSUME NEW c, NEW a \in AsgIds
      PROVE  /\ Keeps(L, DecideGate(L, a, c), None)
             /\ DecideGate(L, a, c).revision = L.revision + 1
  BY <1>3 DEF DecideGate
<1> QED BY <1>1, <1>2, <1>3

\* Beginning a flow, and settling one.
LEMMA FlowKeeps ==
  ASSUME NEW L \in Ledger, NEW d \in DspIds
  PROVE  /\ CanPrepare(L, d) => Keeps(L, Prepare(L, d), None)
         /\ Prepare(L, d).revision = L.revision + 1
         /\ Prepare(L, d).dsp[d].state = "prepared"
         /\ Keeps(L, Commit(L, d), d)
         /\ Commit(L, d).revision = L.revision + 1
         /\ Commit(L, d).dsp[d].stop = L.dsp[d].stop
         /\ Keeps(L, FailPrepared(L, d), d)
         /\ FailPrepared(L, d).revision = L.revision + 1
         /\ FailPrepared(L, d).dsp[d].state = "failed"
         /\ FailPrepared(L, d).dsp[d].stop = L.dsp[d].stop
         /\ CanPrepareStop(L, d) => Keeps(L, SetStop(L, d, "requested"), None)
         /\ \A x : /\ Keeps(L, SetStop(L, d, x), d)
                   /\ SetStop(L, d, x).revision = L.revision + 1
                   /\ SetStop(L, d, x).dsp[d].stop = x
                   /\ SetStop(L, d, x).dsp[d].state = L.dsp[d].state
         /\ Keeps(L, CompleteStop(L, d), d)
         /\ CompleteStop(L, d).revision = L.revision + 1
         /\ CompleteStop(L, d).dsp[d].stop = "completed"
<1> USE LedgerParts DEF Keeps, Dispatch, Assignment, Ran
<1>0. d[1] \in AsgIds /\ d[2] \in Attempts /\ d = <<d[1], d[2]>>
  BY DEF DspIds
<1>1. CanPrepare(L, d) => L.dsp[d].state = "absent"
  BY <1>0 DEF CanPrepare, NextAttempt, Attempts
<1>2. CanPrepare(L, d) => Keeps(L, Prepare(L, d), None)
  BY <1>1 DEF Prepare
<1>3. Prepare(L, d).revision = L.revision + 1 /\ Prepare(L, d).dsp[d].state = "prepared"
  BY DEF Prepare
<1>4. /\ Keeps(L, Commit(L, d), d)
      /\ Commit(L, d).revision = L.revision + 1
      /\ Commit(L, d).dsp[d].stop = L.dsp[d].stop
  BY <1>0 DEF Commit
<1>5. /\ Keeps(L, FailPrepared(L, d), d)
      /\ FailPrepared(L, d).revision = L.revision + 1
      /\ FailPrepared(L, d).dsp[d].state = "failed"
      /\ FailPrepared(L, d).dsp[d].stop = L.dsp[d].stop
  BY DEF FailPrepared
<1>6. CanPrepareStop(L, d) => Keeps(L, SetStop(L, d, "requested"), None)
  BY DEF SetStop, CanPrepareStop
<1>7. ASSUME NEW x
      PROVE  /\ Keeps(L, SetStop(L, d, x), d)
             /\ SetStop(L, d, x).revision = L.revision + 1
             /\ SetStop(L, d, x).dsp[d].stop = x
             /\ SetStop(L, d, x).dsp[d].state = L.dsp[d].state
  BY DEF SetStop
<1>8. /\ Keeps(L, CompleteStop(L, d), d)
      /\ CompleteStop(L, d).revision = L.revision + 1
      /\ CompleteStop(L, d).dsp[d].stop = "completed"
  BY <1>0 DEF CompleteStop
<1> QED BY <1>2, <1>3, <1>4, <1>5, <1>6, <1>7, <1>8

\* A report accepted at once is a submission and its acceptance.
LEMMA ReportAcceptedParts ==
  ASSUME NEW L \in Ledger, NEW d \in DspIds
  PROVE  LET N == ReportAccepted(L, d) IN
         /\ N.revision = L.revision + 1
         /\ \A a \in AsgIds : N.asg[a].task = L.asg[a].task /\ N.asg[a].worker = L.asg[a].worker
         /\ \A e \in DspIds : N.dsp[e].stop = L.dsp[e].stop
         /\ \A e \in DspIds : e # d => N.dsp[e].state = L.dsp[e].state
         /\ N.dsp[d].state = "succeeded"
<1> DEFINE S == Submit(L, d)
           A == Accept(S, d)
           N == ReportAccepted(L, d)
<1>1. S \in Ledger
  <2>1. L \in W!Ledger /\ d \in W!DspIds
    BY SameLedger
  <2>2. W!Submit(L, d) \in W!Ledger
    BY <2>1, W!SubmitType, PlanAssumption, AcyclicAssumption, LimitAssumption
  <2> QED BY <2>2, SameLedger, SameOperations
<1>2. /\ S.asg = L.asg
      /\ \A e \in DspIds : e # d => S.dsp[e] = L.dsp[e]
      /\ S.dsp[d].state = "succeeded"
      /\ S.dsp[d].stop = L.dsp[d].stop
  BY LedgerParts DEF Submit, Dispatch
<1> HIDE DEF S
<1>3. /\ A = [revision |-> A.revision, objective |-> A.objective, plan |-> A.plan,
              task |-> A.task, asg |-> A.asg, dsp |-> A.dsp]
      /\ A.asg = [S.asg EXCEPT ![d[1]].status = "completed"]
      /\ A.dsp = [S.dsp EXCEPT ![d].evidence = "accepted"]
  <2>1. S \in W!Ledger /\ A = W!Accept(S, d)
    BY <1>1, SameLedger, SameOperations
  <2> HIDE DEF A
  <2> QED BY <2>1, W!AcceptFields, PlanAssumption, AcyclicAssumption, LimitAssumption
<1>4. N = [A EXCEPT !.revision = L.revision + 1]
  BY DEF ReportAccepted, S
<1> HIDE DEF A, N
<1>5. N.asg = A.asg /\ N.dsp = A.dsp /\ N.revision = L.revision + 1
  BY <1>3, <1>4
<1>6. \A a \in AsgIds : A.asg[a].task = S.asg[a].task /\ A.asg[a].worker = S.asg[a].worker
  BY <1>1, <1>3, LedgerParts DEF Assignment
<1>7. \A e \in DspIds : A.dsp[e].state = S.dsp[e].state /\ A.dsp[e].stop = S.dsp[e].stop
  BY <1>1, <1>3, LedgerParts DEF Dispatch
<1> QED BY <1>2, <1>5, <1>6, <1>7 DEF N

\* Evidence, its review and a report on a running attempt.
LEMMA ReviewKeeps ==
  ASSUME NEW L \in Ledger, NEW d \in DspIds
  PROVE  /\ L.dsp[d].state = "running" =>
              /\ Keeps(L, Submit(L, d), None)
              /\ Keeps(L, FailDispatch(L, d), None)
              /\ Keeps(L, ReportAccepted(L, d), None)
         /\ Keeps(L, Accept(L, d), None)
         /\ Keeps(L, Reject(L, d), None)
         /\ Submit(L, d).revision = L.revision + 1
         /\ FailDispatch(L, d).revision = L.revision + 1
         /\ ReportAccepted(L, d).revision = L.revision + 1
         /\ Accept(L, d).revision = L.revision + 1
         /\ Reject(L, d).revision = L.revision + 1
<1> USE LedgerParts DEF Keeps, Dispatch, Assignment, Ran
<1>0. d[1] \in AsgIds
  BY DEF DspIds
<1>1. /\ L.dsp[d].state = "running" => Keeps(L, Submit(L, d), None)
      /\ Submit(L, d).revision = L.revision + 1
  BY <1>0 DEF Submit
<1>2. /\ L.dsp[d].state = "running" => Keeps(L, FailDispatch(L, d), None)
      /\ FailDispatch(L, d).revision = L.revision + 1
  BY <1>0 DEF FailDispatch
<1>3. /\ Keeps(L, Reject(L, d), None)
      /\ Reject(L, d).revision = L.revision + 1
  BY <1>0 DEF Reject
<1>4. /\ Keeps(L, Accept(L, d), None)
      /\ Accept(L, d).revision = L.revision + 1
  BY <1>0 DEF Accept
<1>5. /\ L.dsp[d].state = "running" => Keeps(L, ReportAccepted(L, d), None)
      /\ ReportAccepted(L, d).revision = L.revision + 1
  <2>1. PICK N : N = ReportAccepted(L, d)
    OBVIOUS
  <2>2. /\ N.revision = L.revision + 1
        /\ \A a \in AsgIds : N.asg[a].task = L.asg[a].task /\ N.asg[a].worker = L.asg[a].worker
        /\ \A e \in DspIds : N.dsp[e].stop = L.dsp[e].stop
        /\ \A e \in DspIds : e # d => N.dsp[e].state = L.dsp[e].state
        /\ N.dsp[d].state = "succeeded"
    BY <2>1, ReportAcceptedParts
  <2>3. L.dsp[d].state = "running" => Keeps(L, N, None)
    BY <2>2
  <2> QED BY <2>1, <2>2, <2>3
<1> QED BY <1>1, <1>2, <1>3, <1>4, <1>5

-----------------------------------------------------------------------------
(* What a step of one session needs to keep the invariant.                  *)

SessionRecord ==
  [phase : Phases, copy : Ledger, target : DspIds \cup {None}, left : SUBSET Tasks,
   seen : [Tasks -> Orca!Result]]

\* The sessions' records a flow makes.
LEMMA ClosedRecord ==
  /\ Closed \in SessionRecord
  /\ Closed.phase = "closed" /\ Closed.target = None
<1>1. Materialized \in Ledger
  BY W!MaterializedType, SameLedger, PlanAssumption, AcyclicAssumption, LimitAssumption
<1>2. Orca!NoResult \in Orca!Result
  BY DEF Orca!NoResult, Orca!Result
<1> QED BY <1>1, <1>2 DEF Closed, SessionRecord, Phases

\* The record of a session with ledger L and no flow under way.
LEMMA ReadyRecord ==
  ASSUME NEW L \in Ledger
  PROVE  /\ Ready(L) \in SessionRecord
         /\ Ready(L).phase = "ready" /\ Ready(L).copy = L /\ Ready(L).target = None
<1>1. Closed \in SessionRecord /\ Closed.target = None
  BY ClosedRecord
<1>2. LET x == [Closed EXCEPT !.phase = "ready", !.copy = L] IN
      /\ x \in SessionRecord
      /\ x.phase = "ready" /\ x.copy = L /\ x.target = None
  BY <1>1 DEF SessionRecord, Phases
<1> QED BY <1>2 DEF Ready

\* The record of a session that goes on from ledger L in the middle of a flow.
InFlow(L, p, d) == [Ready(L) EXCEPT !.phase = p, !.target = d]

\* ... and of one in the middle of a flow.
LEMMA FlowRecord ==
  ASSUME NEW L \in Ledger, NEW p \in Flow, NEW d \in DspIds
  PROVE  /\ InFlow(L, p, d) \in SessionRecord
         /\ InFlow(L, p, d).phase = p
         /\ InFlow(L, p, d).copy = L
         /\ InFlow(L, p, d).target = d
<1> DEFINE x == Ready(L)
<1>1. x \in SessionRecord /\ x.copy = L
  BY ReadyRecord
<1>2. p \in Phases
  BY DEF Flow, Phases
<1> HIDE DEF x
<1>3. LET y == [x EXCEPT !.phase = p, !.target = d] IN
      /\ y \in SessionRecord
      /\ y.phase = p /\ y.copy = L /\ y.target = d
  BY <1>1, <1>2 DEF SessionRecord
<1> QED BY <1>3 DEF x, InFlow

\* What the invariant says of one session.
LEMMA SessionFacts ==
  ASSUME DelegationInv, NEW s \in Sessions
  PROVE  /\ sess \in [Sessions -> SessionRecord]
         /\ sess[s] \in SessionRecord
         /\ sess[s].phase \in Phases /\ sess[s].copy \in Ledger
         /\ sess[s].target \in DspIds \cup {None} /\ sess[s].left \subseteq Tasks
         /\ Current(stored, sess[s]) /\ Recorded(stored, sess[s]) /\ Visits(sess[s])
         /\ sess[s].phase \in Flow => sess[s].target \in DspIds
<1>1. sess \in [Sessions -> SessionRecord]
  BY DEF DelegationInv, DelegationTypeOK, SessionTypeOK, SessionRecord
<1>2. sess[s] \in SessionRecord
  BY <1>1
<1>3. Current(stored, sess[s]) /\ Recorded(stored, sess[s]) /\ Visits(sess[s])
  BY DEF DelegationInv, SessionsAgree
<1>4. sess[s].target # None <=> sess[s].phase \in Flow
  BY <1>3 DEF Recorded
<1> QED BY <1>1, <1>2, <1>3, <1>4 DEF SessionRecord

\* What the ledger's invariant says of an attempt on record.
LEMMA StoredFacts ==
  ASSUME W!SafeInv
  PROVE  /\ stored \in Ledger
         /\ Valid(stored)
         /\ \A d \in DspIds : stored.dsp[d].state # "absent" =>
              /\ d[1] \in AsgIds
              /\ stored.asg[d[1]].status # "absent"
              /\ TaskOf(stored, d) \in Tasks
              /\ stored.asg[d[1]].worker \in Workers
         /\ \A d \in DspIds : stored.dsp[d].stop \in PendingStop =>
              stored.dsp[d].state = "running"
<1>1. stored \in Ledger /\ Valid(stored)
  BY SameLedger DEF W!SafeInv, W!Inv, W!TypeOK
<1>2. /\ \A d \in DspIds : stored.asg[d[1]].status = "absent" => stored.dsp[d].state = "absent"
      /\ \A a \in AsgIds : stored.asg[a].status # "absent" =>
           stored.asg[a].task \in Tasks /\ stored.asg[a].worker \in Workers
  BY SameLedger DEF W!SafeInv, W!Inv, W!Lifecycle, W!NoAttemptBeforeAssignment, W!Progress, W!Used
<1>3. \A d \in DspIds : d[1] \in AsgIds
  BY DEF DspIds
<1>4. \A d \in DspIds : stored.dsp[d].stop \in PendingStop => stored.dsp[d].state = "running"
  BY <1>1 DEF Valid, ValidStops
<1> QED BY <1>1, <1>2, <1>3, <1>4 DEF TaskOf

\* A save takes effect only on the ledger it was made from.
LEMMA SaveIsCurrent ==
  ASSUME DelegationInv, NEW s \in Sessions, sess[s].phase # "closed",
         NEW next, next.revision = sess[s].copy.revision + 1,
         NEW after, Save(s, next, after)
  PROVE  \/ stored' = stored /\ sess' = [sess EXCEPT ![s] = Closed]
         \/ /\ sess[s].copy = stored
            /\ Valid(next)
            /\ stored' = next
            /\ sess' = [sess EXCEPT ![s] = after]
<1>1. CASE ~Accepts(next)
  BY <1>1 DEF Save
<1>2. CASE Accepts(next)
  <2>1. next.revision = stored.revision + 1
    BY <1>2 DEF Accepts
  <2>2. sess[s].copy.revision \in Nat /\ stored.revision \in Nat
    BY SessionFacts, StoredFacts, LedgerParts DEF DelegationInv
  <2>3. sess[s].copy = stored
    BY <2>1, <2>2, SessionFacts DEF Current
  <2> QED BY <1>2, <2>3 DEF Save, Accepts
<1> QED BY <1>1, <1>2

\* Contexts keep what a record relies on.
LEMMA ContextFacts ==
  ASSUME O!RuntimeInv, [O!RuntimeNext]_runtime
  PROVE  /\ O!RuntimeInv'
         /\ \A c \in DspIds : runtime.ctx[c].status # "unused" =>
              /\ runtime'.ctx[c].status # "unused"
              /\ runtime'.ctx[c].task = runtime.ctx[c].task
              /\ runtime'.ctx[c].worker = runtime.ctx[c].worker
              /\ runtime.ctx[c].status # "dispatched" => runtime'.ctx[c] = runtime.ctx[c]
<1>1. /\ Deps \in [Tasks -> SUBSET Tasks]
      /\ None \notin Tasks \cup Workers \cup DspIds
      /\ BreakerLimit \in Nat \ {0}
  BY PlanAssumption, SessionAssumption
<1> QED BY <1>1, O!RuntimeNextInv, O!ContextKept

\* A step of the runtime and of one session that leaves the ledger alone.
LEMMA QuietStep ==
  ASSUME DelegationInv, stored' = stored, [O!RuntimeNext]_runtime, call' = call,
         NEW s \in Sessions, NEW x \in SessionRecord, sess' = [sess EXCEPT ![s] = x],
         Current(stored, x), Recorded(stored, x), Visits(x), x.target \in {None, sess[s].target}
  PROVE  DelegationInv'
<1>1. /\ sess \in [Sessions -> SessionRecord]
      /\ \A r \in Sessions : sess'[r] = IF r = s THEN x ELSE sess[r]
  BY SessionFacts
<1>2. W!SafeInv'
  <2>1. W!SafeInv /\ [W!Next]_stored
    BY DEF DelegationInv
  <2> QED BY <2>1, W!NextSafe, PlanAssumption, AcyclicAssumption, LimitAssumption
<1>3. O!RuntimeInv'
  BY ContextFacts DEF DelegationInv
<1>4. DelegationTypeOK'
  <2>1. O!RuntimeTypeOK'
    BY <1>3 DEF O!RuntimeInv
  <2>2. Orca!RuntimeTypeOK'
    BY <2>1, SameRuntime, PTL
  <2>3. SessionTypeOK'
    BY <1>1 DEF SessionTypeOK, SessionRecord
  <2> QED BY <2>2, <2>3 DEF DelegationInv, DelegationTypeOK
<1>5. SessionsAgree'
  BY <1>1 DEF DelegationInv, SessionsAgree, Current, Recorded, Visits
<1>6. TargetsDiffer'
  BY <1>1 DEF DelegationInv, TargetsDiffer
<1>7. CallsAgree'
  BY ContextFacts DEF DelegationInv, CallsAgree, Claimed, TaskOf
<1>8. StopWasProven'
  BY ContextFacts DEF DelegationInv, StopWasProven
<1> QED BY <1>2, <1>3, <1>4, <1>5, <1>6, <1>7, <1>8 DEF DelegationInv

\* A step of the runtime alone, with the calls it serves.
LEMMA RuntimeMove ==
  ASSUME DelegationInv, stored' = stored, sess' = sess, [O!RuntimeNext]_runtime,
         call' \in [DspIds -> {"none", "sent", "claimed", "answered", "refused"}],
         \A d \in DspIds :
           /\ call'[d] # "none" => call[d] # "none"
           /\ call'[d] \in {"claimed", "answered"} =>
                call[d] \in {"claimed", "answered"} \/ Claimed(d)'
  PROVE  DelegationInv'
<1>2. W!SafeInv'
  <2>1. W!SafeInv /\ [W!Next]_stored
    BY DEF DelegationInv
  <2> QED BY <2>1, W!NextSafe, PlanAssumption, AcyclicAssumption, LimitAssumption
<1>3. O!RuntimeInv'
  BY ContextFacts DEF DelegationInv
<1>4. DelegationTypeOK'
  <2>1. O!RuntimeTypeOK'
    BY <1>3 DEF O!RuntimeInv
  <2>2. Orca!RuntimeTypeOK'
    BY <2>1, SameRuntime, PTL
  <2> QED BY <2>2 DEF DelegationInv, DelegationTypeOK, SessionTypeOK
<1>5. SessionsAgree'
  BY DEF DelegationInv, SessionsAgree, Current, Recorded, Visits
<1>6. TargetsDiffer'
  BY DEF DelegationInv, TargetsDiffer
<1>7. CallsAgree'
  BY ContextFacts DEF DelegationInv, CallsAgree, Claimed, TaskOf
<1>8. StopWasProven'
  BY ContextFacts DEF DelegationInv, StopWasProven
<1> QED BY <1>2, <1>3, <1>4, <1>5, <1>6, <1>7, <1>8 DEF DelegationInv

\* A save: the session's next record, and the attempt it settles if any.
LEMMA SavedStep ==
  ASSUME DelegationInv, runtime' = runtime,
         NEW s \in Sessions, NEW x \in SessionRecord, sess' = [sess EXCEPT ![s] = x],
         NEW d \in DspIds \cup {None},
         W!Next, Keeps(stored, stored', d), stored'.revision = stored.revision + 1,
         x.phase # "closed" => x.copy = stored',
         Recorded(stored', x), Visits(x),
         x.target # None => \A r \in Sessions : r # s => sess[r].target # x.target,
         d # None =>
           /\ sess[s].target = d
           /\ stored.dsp[d].state # "absent"
           /\ stored'.dsp[d].state \in Ran => Claimed(d)
           /\ stored'.dsp[d].stop \in {"dispatch-stopped", "completed"} =>
                runtime.ctx[d].status = "stopped",
         call' \in [DspIds -> {"none", "sent", "claimed", "answered", "refused"}],
         \A e \in DspIds :
           call'[e] = call[e] \/ (call'[e] = "sent" /\ stored'.dsp[e].state # "absent")
  PROVE  DelegationInv'
<1>1. /\ sess \in [Sessions -> SessionRecord]
      /\ \A r \in Sessions : sess'[r] = IF r = s THEN x ELSE sess[r]
  BY SessionFacts
<1>2. W!SafeInv'
  <2>1. W!SafeInv /\ [W!Next]_stored
    BY DEF DelegationInv
  <2> QED BY <2>1, W!NextSafe, PlanAssumption, AcyclicAssumption, LimitAssumption
<1>3. O!RuntimeInv'
  <2>1. O!RuntimeInv /\ [O!RuntimeNext]_runtime
    BY DEF DelegationInv
  <2> QED BY <2>1, ContextFacts
<1>4. DelegationTypeOK'
  <2>1. O!RuntimeTypeOK'
    BY <1>3 DEF O!RuntimeInv
  <2>2. Orca!RuntimeTypeOK'
    BY <2>1, SameRuntime, PTL
  <2>3. stored' \in Ledger
    BY <1>2, SameLedger DEF W!SafeInv, W!Inv, W!TypeOK
  <2>4. SessionTypeOK'
    BY <1>1 DEF SessionTypeOK, SessionRecord
  <2> QED BY <2>2, <2>3, <2>4 DEF DelegationInv, DelegationTypeOK
<1>5. stored.revision \in Nat
  BY StoredFacts, LedgerParts DEF DelegationInv
<1>6. ASSUME NEW r \in Sessions
      PROVE  Current(stored', sess'[r]) /\ Recorded(stored', sess'[r]) /\ Visits(sess'[r])
  <2>1. CASE r = s
    BY <1>1, <1>5, <2>1 DEF Current
  <2>2. CASE r # s
    <3>1. /\ sess'[r] = sess[r]
          /\ Current(stored, sess[r]) /\ Recorded(stored, sess[r]) /\ Visits(sess[r])
          /\ sess[r].copy.revision \in Nat
          /\ sess[r].phase \in Flow => sess[r].target \in DspIds
      BY <1>1, <2>2, SessionFacts, LedgerParts
    <3>2. Current(stored', sess[r])
      BY <3>1, <1>1, <1>5, <2>2 DEF Current
    <3>3. sess[r].phase \in Flow => sess[r].target # d
      <4>1. d # None /\ sess[r].target = d => sess[s].target # sess[r].target
        BY <2>2 DEF DelegationInv, TargetsDiffer
      <4> QED BY <4>1, <3>1, SessionAssumption
    <3>4. Recorded(stored', sess[r])
      BY <3>1, <3>3, <1>1, <2>2 DEF Recorded, Keeps, Flow
    <3> QED BY <3>1, <3>2, <3>4, <1>1, <2>2
  <2> QED BY <2>1, <2>2
<1>7. SessionsAgree'
  BY <1>6 DEF SessionsAgree, Visits
<1>8. TargetsDiffer'
  BY <1>1 DEF DelegationInv, TargetsDiffer
<1>9. ASSUME NEW e \in DspIds PROVE (call'[e] # "none" => stored'.dsp[e].state # "absent")
  BY <1>9 DEF DelegationInv, CallsAgree, Keeps
<1>10. ASSUME NEW e \in DspIds, stored.dsp[e].state # "absent", Claimed(e) PROVE Claimed(e)'
  BY <1>10, StoredFacts DEF Claimed, TaskOf, Keeps, DelegationInv
<1>11. ASSUME NEW e \in DspIds, call'[e] \in {"claimed", "answered"} PROVE Claimed(e)'
  BY <1>10, <1>11 DEF DelegationInv, CallsAgree
<1>12. ASSUME NEW e \in DspIds, stored'.dsp[e].state \in Ran PROVE Claimed(e)'
  <2>1. CASE e = d
    BY <1>10, <1>12, <2>1, SessionAssumption
  <2>2. CASE e # d
    BY <1>10, <1>12, <2>2 DEF DelegationInv, CallsAgree, Keeps, Ran
  <2> QED BY <2>1, <2>2
<1>13. CallsAgree'
  BY <1>9, <1>11, <1>12 DEF CallsAgree
<1>14. StopWasProven'
  <2> SUFFICES ASSUME NEW e \in DspIds, stored'.dsp[e].stop \in {"dispatch-stopped", "completed"}
               PROVE  runtime'.ctx[e].status = "stopped"
    BY DEF StopWasProven
  <2>1. CASE e = d
    BY <2>1, SessionAssumption
  <2>2. CASE e # d
    BY <2>2 DEF DelegationInv, StopWasProven, Keeps
  <2> QED BY <2>1, <2>2
<1> QED BY <1>2, <1>3, <1>4, <1>7, <1>8, <1>13, <1>14 DEF DelegationInv

-----------------------------------------------------------------------------
(* Saving what an operation built from the stored ledger is a step of       *)
(* WorkLedger.                                                              *)

\* Assignments and gates.
LEMMA AssignmentIsStep ==
  ASSUME Valid(stored')
  PROVE  /\ \A t \in Tasks, w \in Workers, a \in AsgIds :
              CanAssign(stored, t, w, a) /\ stored' = Assign(stored, t, w, a) => W!Next
         /\ \A a \in AsgIds, c \in {"approved", "rejected"} :
              CanDecideGate(stored, a) /\ stored' = DecideGate(stored, a, c) => W!Next
         /\ \A d \in DspIds, w \in Workers, a \in AsgIds :
              CanReassign(stored, d, w, a) /\ stored' = Reassign(stored, d, w, a) => W!Next
<1>1. /\ W!AsgIds = AsgIds /\ W!DspIds = DspIds
      /\ W!Valid(stored')
  BY SameLedger
<1>2. ASSUME NEW t \in Tasks, NEW w \in Workers, NEW a \in AsgIds,
             CanAssign(stored, t, w, a), stored' = Assign(stored, t, w, a)
      PROVE  W!Next
  <2>1. W!CanAssign(stored, t, w, a) /\ W!Advance(W!Assign(stored, t, w, a))
    BY <1>1, <1>2, SameGuards, SameOperations DEF W!Advance
  <2> QED BY <1>1, <2>1 DEF W!Next, W!AssignReadyTask
<1>3. ASSUME NEW a \in AsgIds, NEW c \in {"approved", "rejected"},
             CanDecideGate(stored, a), stored' = DecideGate(stored, a, c)
      PROVE  W!Next
  <2>1. W!CanDecideGate(stored, a) /\ W!Advance(W!DecideGate(stored, a, c))
    BY <1>1, <1>3, SameGuards, SameOperations DEF W!Advance
  <2> QED BY <1>1, <2>1 DEF W!Next, W!DecideDispatchGate
<1>4. ASSUME NEW d \in DspIds, NEW w \in Workers, NEW a \in AsgIds,
             CanReassign(stored, d, w, a), stored' = Reassign(stored, d, w, a)
      PROVE  W!Next
  <2>1. W!CanReassign(stored, d, w, a) /\ W!Advance(W!Reassign(stored, d, w, a))
    BY <1>1, <1>4, SameGuards, SameOperations DEF W!Advance
  <2> QED BY <1>1, <2>1 DEF W!Next, W!ReassignStoppedTask
<1> QED BY <1>2, <1>3, <1>4

\* The steps of a dispatch or stop flow.
LEMMA FlowIsStep ==
  ASSUME Valid(stored'), NEW d \in DspIds
  PROVE  /\ CanPrepare(stored, d) /\ stored' = Prepare(stored, d) => W!Next
         /\ stored.dsp[d].state = "prepared" /\ stored' = Commit(stored, d) => W!Next
         /\ stored.dsp[d].state = "prepared" /\ stored' = FailPrepared(stored, d) => W!Next
         /\ CanPrepareStop(stored, d) /\ stored' = SetStop(stored, d, "requested") => W!Next
         /\ /\ stored.dsp[d].stop = "requested"
            /\ stored' = SetStop(stored, d, "dispatch-stopped")
            => W!Next
         /\ /\ stored.dsp[d].stop \in {"requested", "dispatch-stopped"}
            /\ stored' = SetStop(stored, d, "uncertain")
            => W!Next
         /\ stored.dsp[d].stop = "dispatch-stopped" /\ stored' = CompleteStop(stored, d) => W!Next
<1>1. d \in W!DspIds /\ W!Valid(stored')
  BY SameLedger
<1>2. CanPrepare(stored, d) /\ stored' = Prepare(stored, d) => W!PrepareDispatch
  BY <1>1, SameGuards, SameOperations DEF W!PrepareDispatch, W!Advance
<1>3. /\ stored.dsp[d].state = "prepared" /\ stored' = Commit(stored, d) => W!SettlePrepared
      /\ stored.dsp[d].state = "prepared" /\ stored' = FailPrepared(stored, d) => W!SettlePrepared
  BY <1>1, SameOperations DEF W!SettlePrepared, W!Advance
<1>4. CanPrepareStop(stored, d) /\ stored' = SetStop(stored, d, "requested") => W!RequestStop
  BY <1>1, SameGuards, SameOperations DEF W!RequestStop, W!Advance
<1>5. /\ /\ stored.dsp[d].stop = "requested"
         /\ stored' = SetStop(stored, d, "dispatch-stopped")
         => W!SettleStop
      /\ /\ stored.dsp[d].stop \in {"requested", "dispatch-stopped"}
         /\ stored' = SetStop(stored, d, "uncertain")
         => W!SettleStop
      /\ stored.dsp[d].stop = "dispatch-stopped" /\ stored' = CompleteStop(stored, d)
         => W!SettleStop
  BY <1>1, SameOperations DEF W!SettleStop, W!Advance
<1> QED BY <1>2, <1>3, <1>4, <1>5 DEF W!Next

\* Evidence, its review and reports.
LEMMA ReviewIsStep ==
  ASSUME Valid(stored'), NEW d \in DspIds
  PROVE  /\ CanSubmit(stored, d) /\ stored' = Submit(stored, d) => W!Next
         /\ CanReview(stored, d) /\ stored' = Accept(stored, d) => W!Next
         /\ CanReview(stored, d) /\ stored' = Reject(stored, d) => W!Next
         /\ stored.dsp[d].state = "running" /\ stored' = FailDispatch(stored, d) => W!Next
         /\ /\ CanSubmit(stored, d)
            /\ Valid(Submit(stored, d))
            /\ TaskOf(stored, d) \in AutoReviewable
            /\ stored' = ReportAccepted(stored, d)
            => W!Next
<1>1. d \in W!DspIds /\ W!Valid(stored') /\ W!TaskOf(stored, d) = TaskOf(stored, d)
  BY SameLedger DEF W!TaskOf, TaskOf
<1>2. CanSubmit(stored, d) /\ stored' = Submit(stored, d) => W!SubmitEvidence
  BY <1>1, SameGuards, SameOperations DEF W!SubmitEvidence, W!Advance
<1>3. /\ CanReview(stored, d) /\ stored' = Accept(stored, d) => W!ReviewEvidence
      /\ CanReview(stored, d) /\ stored' = Reject(stored, d) => W!ReviewEvidence
  BY <1>1, SameGuards, SameOperations DEF W!ReviewEvidence, W!Advance
<1>4. stored.dsp[d].state = "running" /\ stored' = FailDispatch(stored, d) => W!ReconcileReport
  BY <1>1, SameOperations DEF W!ReconcileReport, W!Advance
<1>5. ASSUME CanSubmit(stored, d), Valid(Submit(stored, d)),
             TaskOf(stored, d) \in AutoReviewable, stored' = ReportAccepted(stored, d)
      PROVE  W!ReconcileReport
  <2>1. /\ W!CanSubmit(stored, d)
        /\ W!Valid(W!Submit(stored, d))
        /\ W!TaskOf(stored, d) \in AutoReviewable
        /\ W!Advance(W!ReportAccepted(stored, d))
    BY <1>1, <1>5, SameLedger, SameGuards, SameOperations DEF W!Advance
  <2>2. stored.dsp[d].state = "running"
    BY <1>5 DEF CanSubmit
  <2> QED BY <1>1, <2>1, <2>2 DEF W!ReconcileReport
<1> QED BY <1>2, <1>3, <1>4, <1>5 DEF W!Next

-----------------------------------------------------------------------------
(* Each action keeps the invariant, and is a step of WorkLedger or none.    *)

Kept == DelegationInv' /\ [W!Next]_stored

\* A flow that ends leaves nothing behind in the session.
LEMMA ClosedIsKept ==
  ASSUME DelegationInv, stored' = stored, runtime' = runtime, call' = call,
         NEW s \in Sessions, sess' = [sess EXCEPT ![s] = Closed]
  PROVE  Kept
<1>1. PICK x \in SessionRecord : x = Closed
  BY ClosedRecord
<1>2. /\ Current(stored, x) /\ Recorded(stored, x) /\ Visits(x)
      /\ x.target = None
  BY <1>1, ClosedRecord DEF Current, Recorded, Visits, Flow
<1>3. sess' = [sess EXCEPT ![s] = x] /\ [O!RuntimeNext]_runtime
  BY <1>1
<1> QED BY <1>2, <1>3, QuietStep DEF Kept

\* The operations of the ledger slice save once and go on from what they saved.
LEMMA MutateIsKept ==
  ASSUME DelegationInv, NEW s \in Sessions, NEW next, Mutate(s, next),
         next.revision = sess[s].copy.revision + 1,
         sess[s].copy = stored /\ Valid(next) /\ stored' = next =>
           W!Next /\ Keeps(stored, next, None)
  PROVE  Kept
<1>1. /\ sess[s].phase = "ready"
      /\ Save(s, next, Ready(next))
      /\ runtime' = runtime /\ call' = call
  BY DEF Mutate
<1>2. CASE stored' = stored /\ sess' = [sess EXCEPT ![s] = Closed]
  BY <1>1, <1>2, ClosedIsKept
<1>3. CASE /\ sess[s].copy = stored
           /\ Valid(next)
           /\ stored' = next
           /\ sess' = [sess EXCEPT ![s] = Ready(next)]
  <2>1. W!Next /\ Keeps(stored, stored', None) /\ stored'.revision = stored.revision + 1
    BY <1>3
  <2>2. next \in Ledger
    <3>1. W!SafeInv'
      BY <2>1, W!NextSafe, PlanAssumption, AcyclicAssumption, LimitAssumption DEF DelegationInv
    <3> QED BY <3>1, <1>3, SameLedger DEF W!SafeInv, W!Inv, W!TypeOK
  <2>3. PICK x \in SessionRecord : x = Ready(next)
    BY <2>2, ReadyRecord
  <2>4. /\ x.phase = "ready" /\ x.copy = stored' /\ x.target = None
        /\ Recorded(stored', x) /\ Visits(x)
    BY <1>3, <2>2, <2>3, ReadyRecord DEF Recorded, Visits, Flow
  <2>5. sess' = [sess EXCEPT ![s] = x]
    BY <1>3, <2>3
  <2>6. call' \in [DspIds -> {"none", "sent", "claimed", "answered", "refused"}]
    BY <1>1 DEF DelegationInv, DelegationTypeOK
  <2>7. DelegationInv'
    BY <1>1, <2>1, <2>4, <2>5, <2>6, SavedStep
  <2> QED BY <2>1, <2>7 DEF Kept
<1> QED BY <1>1, <1>2, <1>3, SaveIsCurrent

\* Loading takes the stored ledger, a crash forgets the flow.
LEMMA LoadIsKept ==
  ASSUME DelegationInv, NEW s \in Sessions, LoadLedger(s) \/ Crash(s)
  PROVE  Kept
<1>1. stored' = stored /\ runtime' = runtime /\ call' = call
  BY DEF LoadLedger, Crash
<1>2. CASE Crash(s)
  BY <1>1, <1>2, ClosedIsKept DEF Crash
<1>3. CASE LoadLedger(s)
  <2>1. stored \in Ledger
    BY StoredFacts DEF DelegationInv
  <2>2. PICK x \in SessionRecord : x = Ready(stored)
    BY <2>1, ReadyRecord
  <2>3. x.phase = "ready" /\ x.copy = stored /\ x.target = None
    BY <2>1, <2>2, ReadyRecord
  <2>4. stored.revision \in Nat
    BY <2>1, LedgerParts
  <2>5. Current(stored, x) /\ Recorded(stored, x) /\ Visits(x)
    BY <2>3, <2>4 DEF Current, Recorded, Visits, Flow
  <2>6. sess' = [sess EXCEPT ![s] = x] /\ [O!RuntimeNext]_runtime
    BY <1>1, <1>3, <2>2 DEF LoadLedger
  <2> QED BY <1>1, <2>3, <2>5, <2>6, QuietStep DEF Kept
<1> QED BY <1>2, <1>3

\* Assigning, deciding a gate and reassigning save once.
LEMMA AssignmentIsKept ==
  ASSUME DelegationInv, NEW s \in Sessions,
         AssignReadyTask(s) \/ DecideDispatchGate(s) \/ ReassignStoppedTask(s)
  PROVE  Kept
<1> DEFINE L == sess[s].copy
<1>1. L \in Ledger
  BY SessionFacts
<1>2. CASE AssignReadyTask(s)
  <2>1. PICK t \in Tasks, w \in Workers, a \in AsgIds :
          CanAssign(L, t, w, a) /\ Mutate(s, Assign(L, t, w, a))
    BY <1>2 DEF AssignReadyTask
  <2>2. Assign(L, t, w, a).revision = L.revision + 1 /\ Keeps(L, Assign(L, t, w, a), None)
    BY <1>1, <2>1, AssignmentKeeps
  <2> QED BY <2>1, <2>2, AssignmentIsStep, MutateIsKept
<1>3. CASE DecideDispatchGate(s)
  <2>1. PICK a \in AsgIds, c \in {"approved", "rejected"} :
          CanDecideGate(L, a) /\ Mutate(s, DecideGate(L, a, c))
    BY <1>3 DEF DecideDispatchGate
  <2>2. DecideGate(L, a, c).revision = L.revision + 1 /\ Keeps(L, DecideGate(L, a, c), None)
    BY <1>1, <2>1, AssignmentKeeps
  <2> QED BY <2>1, <2>2, AssignmentIsStep, MutateIsKept
<1>4. CASE ReassignStoppedTask(s)
  <2>1. PICK d \in DspIds, w \in Workers, a \in AsgIds :
          CanReassign(L, d, w, a) /\ Mutate(s, Reassign(L, d, w, a))
    BY <1>4 DEF ReassignStoppedTask
  <2>2. Reassign(L, d, w, a).revision = L.revision + 1 /\ Keeps(L, Reassign(L, d, w, a), None)
    BY <1>1, <2>1, AssignmentKeeps
  <2> QED BY <2>1, <2>2, AssignmentIsStep, MutateIsKept
<1> QED BY <1>2, <1>3, <1>4

\* So do submitting evidence and reviewing it.
LEMMA EvidenceIsKept ==
  ASSUME DelegationInv, NEW s \in Sessions, SubmitEvidence(s) \/ ReviewEvidence(s)
  PROVE  Kept
<1> DEFINE L == sess[s].copy
<1>1. L \in Ledger
  BY SessionFacts
<1>2. CASE SubmitEvidence(s)
  <2>1. PICK d \in DspIds : CanSubmit(L, d) /\ Mutate(s, Submit(L, d))
    BY <1>2 DEF SubmitEvidence
  <2>2. L.dsp[d].state = "running"
    BY <2>1 DEF CanSubmit
  <2>3. Submit(L, d).revision = L.revision + 1 /\ Keeps(L, Submit(L, d), None)
    BY <1>1, <2>2, ReviewKeeps
  <2> QED BY <2>1, <2>3, ReviewIsStep, MutateIsKept
<1>3. CASE ReviewEvidence(s)
  <2>1. PICK d \in DspIds : CanReview(L, d) /\ (Mutate(s, Accept(L, d)) \/ Mutate(s, Reject(L, d)))
    BY <1>3 DEF ReviewEvidence
  <2>2. /\ Accept(L, d).revision = L.revision + 1 /\ Keeps(L, Accept(L, d), None)
        /\ Reject(L, d).revision = L.revision + 1 /\ Keeps(L, Reject(L, d), None)
    BY <1>1, ReviewKeeps
  <2>3. CASE Mutate(s, Accept(L, d))
    BY <2>1, <2>2, <2>3, ReviewIsStep, MutateIsKept
  <2>4. CASE Mutate(s, Reject(L, d))
    BY <2>1, <2>2, <2>4, ReviewIsStep, MutateIsKept
  <2> QED BY <2>1, <2>3, <2>4
<1> QED BY <1>2, <1>3

\* A save of a flow: what the session goes on from, and what is asked of the
\* attempt d it settles.
LEMMA SaveIsKept ==
  ASSUME DelegationInv, NEW s \in Sessions, NEW next, NEW x \in SessionRecord,
         NEW d \in DspIds \cup {None},
         Save(s, next, x), sess[s].phase # "closed", runtime' = runtime,
         next.revision = sess[s].copy.revision + 1,
         ~Accepts(next) => call' = call,
         sess[s].copy = stored /\ Valid(next) /\ stored' = next =>
           /\ W!Next
           /\ Keeps(stored, stored', d)
           /\ x.phase # "closed" => x.copy = stored'
           /\ Recorded(stored', x)
           /\ Visits(x)
           /\ x.target # None => \A r \in Sessions : r # s => sess[r].target # x.target
           /\ d # None =>
                /\ sess[s].target = d
                /\ stored.dsp[d].state # "absent"
                /\ stored'.dsp[d].state \in Ran => Claimed(d)
                /\ stored'.dsp[d].stop \in {"dispatch-stopped", "completed"} =>
                     runtime.ctx[d].status = "stopped"
           /\ call' \in [DspIds -> {"none", "sent", "claimed", "answered", "refused"}]
           /\ \A e \in DspIds :
                call'[e] = call[e] \/ (call'[e] = "sent" /\ stored'.dsp[e].state # "absent")
  PROVE  Kept
<1>1. CASE ~Accepts(next)
  <2>1. stored' = stored /\ sess' = [sess EXCEPT ![s] = Closed]
    BY <1>1 DEF Save
  <2> QED BY <1>1, <2>1, ClosedIsKept
<1>2. CASE Accepts(next)
  <2>1. stored' = next /\ sess' = [sess EXCEPT ![s] = x] /\ Valid(next)
    BY <1>2 DEF Save, Accepts
  <2>2. sess[s].copy = stored
    <3>1. next.revision = stored.revision + 1
      BY <1>2 DEF Accepts
    <3>2. sess[s].copy.revision \in Nat /\ stored.revision \in Nat
      BY SessionFacts, StoredFacts, LedgerParts DEF DelegationInv
    <3> QED BY <3>1, <3>2, SessionFacts DEF Current
  <2>3. stored'.revision = stored.revision + 1
    BY <2>1, <2>2
  <2>4. DelegationInv'
    BY <2>1, <2>2, <2>3, SavedStep
  <2> QED BY <2>1, <2>2, <2>4 DEF Kept
<1> QED BY <1>1, <1>2

\* The ledgers a flow goes on from have their type.
LEMMA FlowTypes ==
  ASSUME NEW L \in Ledger, NEW d \in DspIds
  PROVE  /\ Prepare(L, d) \in Ledger
         /\ SetStop(L, d, "requested") \in Ledger
         /\ SetStop(L, d, "dispatch-stopped") \in Ledger
         /\ Submit(L, d) \in Ledger
         /\ FailDispatch(L, d) \in Ledger
         /\ ReportAccepted(L, d) \in Ledger
<1> USE PlanAssumption, AcyclicAssumption, LimitAssumption
<1>1. L \in W!Ledger /\ d \in W!DspIds
  BY SameLedger
<1>2. "requested" \in W!PendingStop /\ "dispatch-stopped" \in W!PendingStop
  BY DEF W!PendingStop
<1>3. W!Prepare(L, d) \in W!Ledger
  BY <1>1, W!PrepareType
<1>4. W!SetStop(L, d, "requested") \in W!Ledger /\ W!SetStop(L, d, "dispatch-stopped") \in W!Ledger
  BY <1>1, <1>2, W!SetStopType
<1>5. W!Submit(L, d) \in W!Ledger
  BY <1>1, W!SubmitType
<1>6. W!FailDispatch(L, d) \in W!Ledger
  BY <1>1, W!FailDispatchType
<1>7. W!ReportAccepted(L, d) \in W!Ledger
  BY <1>1, W!ReportAcceptedType
<1> QED BY <1>3, <1>4, <1>5, <1>6, <1>7, SameLedger, SameOperations

\* No session is about an attempt that is neither prepared nor being stopped.
LEMMA NobodysTarget ==
  ASSUME DelegationInv, NEW r \in Sessions, NEW d \in DspIds,
         stored.dsp[d].state # "prepared",
         stored.dsp[d].stop \notin {"requested", "dispatch-stopped"}
  PROVE  sess[r].target # d
<1>1. Recorded(stored, sess[r])
  BY SessionFacts
<1>2. d # None
  BY SessionAssumption
<1> QED BY <1>1, <1>2 DEF Recorded, Flow

\* A dispatch is sent only after its attempt was saved as prepared, and the attempt is
\* new: no other session is about it.
LEMMA BeginDispatchIsKept ==
  ASSUME DelegationInv, NEW s \in Sessions, BeginDispatch(s)
  PROVE  Kept
<1> DEFINE L == sess[s].copy
<1>1. L \in Ledger /\ stored \in Ledger
  BY SessionFacts, StoredFacts DEF DelegationInv
<1>2. PICK d \in DspIds :
        /\ CanPrepare(L, d)
        /\ Valid(Prepare(L, d))
        /\ Save(s, Prepare(L, d), [Ready(Prepare(L, d)) EXCEPT !.phase = "calling", !.target = d])
        /\ call' = IF Accepts(Prepare(L, d)) THEN [call EXCEPT ![d] = "sent"] ELSE call
  BY DEF BeginDispatch
<1>3. sess[s].phase = "ready" /\ runtime' = runtime
  BY DEF BeginDispatch
<1> DEFINE next == Prepare(L, d)
<1>4. next \in Ledger /\ next.revision = L.revision + 1
  <2>1. Prepare(L, d) \in Ledger
    BY <1>1, FlowTypes
  <2>2. Prepare(L, d).revision = L.revision + 1
    BY <1>1, FlowKeeps
  <2> QED BY <2>1, <2>2
<1>5. PICK x : x = InFlow(next, "calling", d)
  OBVIOUS
<1>6. /\ x \in SessionRecord
      /\ x.phase = "calling" /\ x.copy = next /\ x.target = d
  <2> HIDE DEF next
  <2>1. "calling" \in Flow
    BY DEF Flow
  <2> QED BY <1>4, <1>5, <2>1, FlowRecord
<1>7. None \in DspIds \cup {None} /\ Save(s, next, x)
  BY <1>2, <1>5 DEF InFlow
<1>8. ASSUME L = stored, Valid(next), stored' = next
      PROVE  /\ W!Next
             /\ Keeps(stored, stored', None)
             /\ x.phase # "closed" => x.copy = stored'
             /\ Recorded(stored', x)
             /\ Visits(x)
             /\ \A r \in Sessions : r # s => sess[r].target # x.target
             /\ call' \in [DspIds -> {"none", "sent", "claimed", "answered", "refused"}]
             /\ \A e \in DspIds :
                  call'[e] = call[e] \/ (call'[e] = "sent" /\ stored'.dsp[e].state # "absent")
  <2>1. CanPrepare(stored, d) /\ stored' = Prepare(stored, d)
    BY <1>2, <1>8
  <2>2. W!Next
    BY <1>8, <2>1, FlowIsStep
  <2>3. Keeps(stored, stored', None) /\ stored'.dsp[d].state = "prepared"
    BY <1>1, <2>1, FlowKeeps
  <2>4. Recorded(stored', x) /\ Visits(x)
    BY <1>6, <2>3, SessionAssumption DEF Recorded, Visits, Flow
  <2>5. stored.dsp[d].state = "absent"
    BY <2>1 DEF CanPrepare, NextAttempt, DspIds, Attempts
  <2>6. stored.dsp[d].stop \notin {"requested", "dispatch-stopped"}
    BY <2>5, StoredFacts DEF DelegationInv, PendingStop
  <2>7. \A r \in Sessions : r # s => sess[r].target # x.target
    BY <1>6, <2>5, <2>6, NobodysTarget
  <2>8. Accepts(next)
    BY <1>4, <1>8 DEF Accepts
  <2>9. call' = [call EXCEPT ![d] = "sent"]
    BY <1>2, <2>8
  <2>10. call \in [DspIds -> {"none", "sent", "claimed", "answered", "refused"}]
    BY DEF DelegationInv, DelegationTypeOK
  <2>11. /\ call' \in [DspIds -> {"none", "sent", "claimed", "answered", "refused"}]
         /\ \A e \in DspIds :
              call'[e] = call[e] \/ (call'[e] = "sent" /\ stored'.dsp[e].state # "absent")
    BY <2>3, <2>9, <2>10
  <2> QED BY <1>6, <1>8, <2>2, <2>3, <2>4, <2>7, <2>11
<1>9. ~Accepts(next) => call' = call
  BY <1>2
<1> HIDE DEF next, L
<1> QED BY <1>3, <1>4, <1>6, <1>7, <1>8, <1>9, SaveIsKept DEF L

\* A stop flow begins with the record of its request on an attempt nobody else stops.
LEMMA BeginStopIsKept ==
  ASSUME DelegationInv, NEW s \in Sessions, BeginStop(s)
  PROVE  Kept
<1> DEFINE L == sess[s].copy
<1>1. L \in Ledger /\ stored \in Ledger
  BY SessionFacts, StoredFacts DEF DelegationInv
<1>2. PICK d \in DspIds :
        /\ CanPrepareStop(L, d)
        /\ Save(s, SetStop(L, d, "requested"),
                [Ready(SetStop(L, d, "requested")) EXCEPT !.phase = "stopping", !.target = d])
  BY DEF BeginStop
<1>3. sess[s].phase = "ready" /\ runtime' = runtime /\ call' = call
  BY DEF BeginStop
<1> DEFINE next == SetStop(L, d, "requested")
<1>4. next \in Ledger /\ next.revision = L.revision + 1
  <2>1. SetStop(L, d, "requested") \in Ledger
    BY <1>1, FlowTypes
  <2>2. SetStop(L, d, "requested").revision = L.revision + 1
    BY <1>1, FlowKeeps
  <2> QED BY <2>1, <2>2
<1>5. PICK x : x = InFlow(next, "stopping", d)
  OBVIOUS
<1>6. /\ x \in SessionRecord
      /\ x.phase = "stopping" /\ x.copy = next /\ x.target = d
  <2> HIDE DEF next
  <2>1. "stopping" \in Flow
    BY DEF Flow
  <2> QED BY <1>4, <1>5, <2>1, FlowRecord
<1>7. None \in DspIds \cup {None} /\ Save(s, next, x)
  BY <1>2, <1>5 DEF InFlow
<1>8. ASSUME L = stored, Valid(next), stored' = next
      PROVE  /\ W!Next
             /\ Keeps(stored, stored', None)
             /\ x.phase # "closed" => x.copy = stored'
             /\ Recorded(stored', x)
             /\ Visits(x)
             /\ \A r \in Sessions : r # s => sess[r].target # x.target
  <2>1. CanPrepareStop(stored, d) /\ stored' = SetStop(stored, d, "requested")
    BY <1>2, <1>8
  <2>2. W!Next
    BY <1>8, <2>1, FlowIsStep
  <2>3. Keeps(stored, stored', None) /\ stored'.dsp[d].stop = "requested"
    BY <1>1, <2>1, FlowKeeps
  <2>4. Recorded(stored', x) /\ Visits(x)
    BY <1>6, <2>3, SessionAssumption DEF Recorded, Visits, Flow
  <2>5. stored.dsp[d].state = "running" /\ stored.dsp[d].stop = "none"
    BY <2>1 DEF CanPrepareStop
  <2>6. \A r \in Sessions : r # s => sess[r].target # x.target
    BY <1>6, <2>5, NobodysTarget
  <2> QED BY <1>6, <1>8, <2>2, <2>3, <2>4, <2>6
<1>9. call' \in [DspIds -> {"none", "sent", "claimed", "answered", "refused"}]
  BY <1>3 DEF DelegationInv, DelegationTypeOK
<1> HIDE DEF next, L
<1> QED BY <1>3, <1>4, <1>6, <1>7, <1>8, <1>9, SaveIsKept DEF L

\* A dispatch flow ends with the outcome of the attempt it prepared.
LEMMA SettleDispatchIsKept ==
  ASSUME DelegationInv, NEW s \in Sessions, SettleDispatch(s)
  PROVE  Kept
<1> DEFINE L == sess[s].copy
           d == sess[s].target
<1>1. L \in Ledger /\ stored \in Ledger
  BY SessionFacts, StoredFacts DEF DelegationInv
<1>2. /\ sess[s].phase = "calling" /\ runtime' = runtime /\ call' = call
      /\ \/ call[d] = "answered" /\ Save(s, Commit(L, d), Closed)
         \/ Save(s, FailPrepared(L, d), Closed)
  BY DEF SettleDispatch
<1>3. /\ d \in DspIds /\ d # None
      /\ stored.dsp[d].state = "prepared"
      /\ stored.dsp[d].stop \in {"dispatch-stopped", "completed"} =>
           runtime.ctx[d].status = "stopped"
  BY <1>2, SessionFacts, SessionAssumption DEF Flow, Recorded, DelegationInv, StopWasProven
<1>4. PICK x \in SessionRecord : x = Closed
  BY ClosedRecord
<1>5. /\ x.phase = "closed" /\ x.target = None
      /\ \A N : Recorded(N, x)
      /\ Visits(x)
  BY <1>4, ClosedRecord DEF Recorded, Visits, Flow
<1>6. call' \in [DspIds -> {"none", "sent", "claimed", "answered", "refused"}]
  BY <1>2 DEF DelegationInv, DelegationTypeOK
<1>7. call[d] = "answered" => Claimed(d)
  BY <1>3 DEF DelegationInv, CallsAgree
<1>8. CASE call[d] = "answered" /\ Save(s, Commit(L, d), Closed)
  <2> DEFINE next == Commit(L, d)
  <2>1. next.revision = L.revision + 1
    BY <1>1, <1>3, FlowKeeps
  <2>2. ASSUME L = stored, Valid(next), stored' = next
        PROVE  /\ W!Next
               /\ Keeps(stored, stored', d)
               /\ stored'.dsp[d].stop \in {"dispatch-stopped", "completed"} =>
                    runtime.ctx[d].status = "stopped"
    <3>1. stored' = Commit(stored, d)
      BY <2>2
    <3>2. W!Next
      BY <1>3, <2>2, <3>1, FlowIsStep
    <3>3. Keeps(stored, stored', d) /\ stored'.dsp[d].stop = stored.dsp[d].stop
      BY <1>1, <1>3, <3>1, FlowKeeps
    <3> QED BY <1>3, <3>2, <3>3
  <2>3. Save(s, next, x) /\ d \in DspIds \cup {None}
    BY <1>3, <1>4, <1>8
  <2> HIDE DEF next, L, d
  <2> QED BY <1>2, <1>3, <1>5, <1>6, <1>7, <1>8, <2>1, <2>2, <2>3, SaveIsKept DEF L, d
<1>9. CASE Save(s, FailPrepared(L, d), Closed)
  <2> DEFINE next == FailPrepared(L, d)
  <2>1. next.revision = L.revision + 1
    BY <1>1, <1>3, FlowKeeps
  <2>2. ASSUME L = stored, Valid(next), stored' = next
        PROVE  /\ W!Next
               /\ Keeps(stored, stored', d)
               /\ stored'.dsp[d].state \notin Ran
               /\ stored'.dsp[d].stop \in {"dispatch-stopped", "completed"} =>
                    runtime.ctx[d].status = "stopped"
    <3>1. stored' = FailPrepared(stored, d)
      BY <2>2
    <3>2. W!Next
      BY <1>3, <2>2, <3>1, FlowIsStep
    <3>3. /\ Keeps(stored, stored', d) /\ stored'.dsp[d].stop = stored.dsp[d].stop
          /\ stored'.dsp[d].state = "failed"
      BY <1>1, <1>3, <3>1, FlowKeeps
    <3> QED BY <1>3, <3>2, <3>3 DEF Ran
  <2>3. Save(s, next, x) /\ d \in DspIds \cup {None}
    BY <1>3, <1>4, <1>9
  <2> HIDE DEF next, L, d
  <2> QED BY <1>2, <1>3, <1>5, <1>6, <1>9, <2>1, <2>2, <2>3, SaveIsKept DEF L, d
<1> QED BY <1>2, <1>8, <1>9

\* The attempt a stop flow is about runs, in the context claimed for it.
LEMMA StopTarget ==
  ASSUME DelegationInv, NEW s \in Sessions, sess[s].phase \in {"stopping", "closing"}
  PROVE  LET d == sess[s].target IN
         /\ d \in DspIds /\ d # None
         /\ stored.dsp[d].state = "running" /\ Claimed(d)
         /\ sess[s].phase = "stopping" => stored.dsp[d].stop = "requested"
         /\ sess[s].phase = "closing" => stored.dsp[d].stop = "dispatch-stopped"
         /\ \A r \in Sessions : r # s => sess[r].target # d
<1> DEFINE d == sess[s].target
<1>1. /\ d \in DspIds /\ d # None
      /\ sess[s].phase = "stopping" => stored.dsp[d].stop = "requested"
      /\ sess[s].phase = "closing" => stored.dsp[d].stop = "dispatch-stopped"
  BY SessionFacts, SessionAssumption DEF Flow, Recorded
<1>2. stored.dsp[d].state = "running"
  BY <1>1, StoredFacts DEF DelegationInv, PendingStop
<1>3. Claimed(d)
  BY <1>1, <1>2 DEF DelegationInv, CallsAgree, Ran
<1>4. \A r \in Sessions : r # s => sess[r].target # d
  BY <1>1 DEF DelegationInv, TargetsDiffer
<1> QED BY <1>1, <1>2, <1>3, <1>4

\* A stop is recorded as proven only on the receipt of a stopped context.
LEMMA ProveStopIsKept ==
  ASSUME DelegationInv, NEW s \in Sessions, ProveStop(s)
  PROVE  Kept
<1> DEFINE L == sess[s].copy
           d == sess[s].target
           next == SetStop(L, d, "dispatch-stopped")
<1>1. L \in Ledger /\ stored \in Ledger
  BY SessionFacts, StoredFacts DEF DelegationInv
<1>2. /\ sess[s].phase = "stopping" /\ runtime' = runtime /\ call' = call
      /\ runtime.ctx[d].status = "stopped"
      /\ Save(s, next, InFlow(next, "closing", d))
  BY DEF ProveStop, StoppedReceipt, InFlow
<1>3. /\ d \in DspIds /\ d # None
      /\ stored.dsp[d].state = "running" /\ Claimed(d)
      /\ stored.dsp[d].stop = "requested"
      /\ \A r \in Sessions : r # s => sess[r].target # d
  BY <1>2, StopTarget
<1>4. next \in Ledger /\ next.revision = L.revision + 1
  <2>1. SetStop(L, d, "dispatch-stopped") \in Ledger
    BY <1>1, <1>3, FlowTypes
  <2>2. SetStop(L, d, "dispatch-stopped").revision = L.revision + 1
    BY <1>1, <1>3, FlowKeeps
  <2> QED BY <2>1, <2>2
<1>5. PICK x : x = InFlow(next, "closing", d)
  OBVIOUS
<1>6. /\ x \in SessionRecord
      /\ x.phase = "closing" /\ x.copy = next /\ x.target = d
  <2> HIDE DEF next, d
  <2>1. "closing" \in Flow
    BY DEF Flow
  <2> QED BY <1>3, <1>4, <1>5, <2>1, FlowRecord
<1>7. d \in DspIds \cup {None} /\ Save(s, next, x)
  BY <1>2, <1>3, <1>5
<1>8. ASSUME L = stored, Valid(next), stored' = next
      PROVE  /\ W!Next
             /\ Keeps(stored, stored', d)
             /\ x.phase # "closed" => x.copy = stored'
             /\ Recorded(stored', x)
             /\ Visits(x)
             /\ \A r \in Sessions : r # s => sess[r].target # x.target
  <2>1. stored' = SetStop(stored, d, "dispatch-stopped")
    BY <1>8
  <2>2. W!Next
    BY <1>3, <1>8, <2>1, FlowIsStep
  <2>3. Keeps(stored, stored', d) /\ stored'.dsp[d].stop = "dispatch-stopped"
    BY <1>1, <1>3, <2>1, FlowKeeps
  <2>4. Recorded(stored', x) /\ Visits(x)
    BY <1>3, <1>6, <2>3 DEF Recorded, Visits, Flow
  <2> QED BY <1>3, <1>6, <1>8, <2>2, <2>3, <2>4
<1>9. call' \in [DspIds -> {"none", "sent", "claimed", "answered", "refused"}]
  BY <1>2 DEF DelegationInv, DelegationTypeOK
<1> HIDE DEF next, L, d
<1> QED BY <1>2, <1>3, <1>4, <1>6, <1>7, <1>8, <1>9, SaveIsKept DEF L, d

\* The end of a stop flow: the stop is confirmed, or in doubt.
LEMMA EndStopIsKept ==
  ASSUME DelegationInv, NEW s \in Sessions, SettleStop(s) \/ DoubtStop(s)
  PROVE  Kept
<1> DEFINE L == sess[s].copy
           d == sess[s].target
<1>1. L \in Ledger /\ stored \in Ledger
  BY SessionFacts, StoredFacts DEF DelegationInv
<1>2. sess[s].phase \in {"stopping", "closing"} /\ runtime' = runtime /\ call' = call
  BY DEF SettleStop, DoubtStop
<1>3. /\ d \in DspIds /\ d # None
      /\ stored.dsp[d].state = "running" /\ Claimed(d)
      /\ sess[s].phase = "stopping" => stored.dsp[d].stop = "requested"
      /\ sess[s].phase = "closing" => stored.dsp[d].stop = "dispatch-stopped"
  BY <1>2, StopTarget
<1>4. PICK x \in SessionRecord : x = Closed
  BY ClosedRecord
<1>5. /\ x.phase = "closed" /\ x.target = None
      /\ \A N : Recorded(N, x)
      /\ Visits(x)
  BY <1>4, ClosedRecord DEF Recorded, Visits, Flow
<1>6. call' \in [DspIds -> {"none", "sent", "claimed", "answered", "refused"}]
  BY <1>2 DEF DelegationInv, DelegationTypeOK
<1>7. CASE SettleStop(s)
  <2> DEFINE next == CompleteStop(L, d)
  <2>1. sess[s].phase = "closing" /\ Save(s, next, x)
    BY <1>4, <1>7 DEF SettleStop
  <2>2. next.revision = L.revision + 1
    BY <1>1, <1>3, FlowKeeps
  <2>3. stored.dsp[d].stop = "dispatch-stopped" /\ runtime.ctx[d].status = "stopped"
    BY <1>3, <2>1 DEF DelegationInv, StopWasProven
  <2>4. ASSUME L = stored, Valid(next), stored' = next
        PROVE  W!Next /\ Keeps(stored, stored', d)
    <3>1. stored' = CompleteStop(stored, d)
      BY <2>4
    <3>2. W!Next
      BY <1>3, <2>3, <2>4, <3>1, FlowIsStep
    <3>3. Keeps(stored, stored', d)
      BY <1>1, <1>3, <3>1, FlowKeeps
    <3> QED BY <3>2, <3>3
  <2>5. d \in DspIds \cup {None}
    BY <1>3
  <2> HIDE DEF next, L, d
  <2> QED BY <1>2, <1>3, <1>5, <1>6, <2>1, <2>2, <2>3, <2>4, <2>5, SaveIsKept DEF L, d
<1>8. CASE DoubtStop(s)
  <2> DEFINE next == SetStop(L, d, "uncertain")
  <2>1. Save(s, next, x)
    BY <1>4, <1>8 DEF DoubtStop
  <2>2. next.revision = L.revision + 1
    BY <1>1, <1>3, FlowKeeps
  <2>3. ASSUME L = stored, Valid(next), stored' = next
        PROVE  /\ W!Next /\ Keeps(stored, stored', d)
               /\ stored'.dsp[d].stop \notin {"dispatch-stopped", "completed"}
    <3>1. stored' = SetStop(stored, d, "uncertain")
      BY <2>3
    <3>2. stored.dsp[d].stop \in {"requested", "dispatch-stopped"}
      BY <1>2, <1>3
    <3>3. W!Next
      BY <1>3, <2>3, <3>1, <3>2, FlowIsStep
    <3>4. Keeps(stored, stored', d) /\ stored'.dsp[d].stop = "uncertain"
      BY <1>1, <1>3, <3>1, FlowKeeps
    <3> QED BY <3>3, <3>4
  <2>4. d \in DspIds \cup {None}
    BY <1>3
  <2> HIDE DEF next, L, d
  <2> QED BY <1>2, <1>3, <1>5, <1>6, <2>1, <2>2, <2>3, <2>4, SaveIsKept DEF L, d
<1> QED BY <1>7, <1>8

\* A sync starts with the stored results.
LEMMA BeginSyncIsKept ==
  ASSUME DelegationInv, NEW s \in Sessions, BeginSync(s)
  PROVE  Kept
<1> DEFINE L == sess[s].copy
           found == {t \in Tasks : RunningOn(L, t) # {} /\ Reported(t)}
           seen == [t \in Tasks |-> IF t \in found THEN runtime.result[t] ELSE Orca!NoResult]
           y == [Ready(L) EXCEPT !.phase = "syncing", !.left = found, !.seen = seen]
<1>1. L \in Ledger /\ Current(stored, sess[s])
  BY SessionFacts
<1>2. /\ sess[s].phase = "ready"
      /\ stored' = stored /\ runtime' = runtime /\ call' = call
      /\ sess' = [sess EXCEPT ![s] = y]
  BY DEF BeginSync
<1>3. seen \in [Tasks -> Orca!Result]
  <2>1. runtime.result \in [Tasks -> Orca!Result]
    BY DEF DelegationInv, DelegationTypeOK, Orca!RuntimeTypeOK
  <2>2. Orca!NoResult \in Orca!Result
    BY DEF Orca!NoResult, Orca!Result
  <2> HIDE DEF found
  <2> QED BY <2>1, <2>2
<1>4. found \subseteq Tasks
  OBVIOUS
<1>5. /\ y \in SessionRecord
      /\ y.phase = "syncing" /\ y.copy = L /\ y.target = None
  <2>1. PICK z \in SessionRecord : z = Ready(L)
    BY <1>1, ReadyRecord
  <2>2. z.copy = L /\ z.target = None
    BY <1>1, <2>1, ReadyRecord
  <2> HIDE DEF found, seen
  <2>3. LET v == [z EXCEPT !.phase = "syncing", !.left = found, !.seen = seen] IN
        /\ v \in SessionRecord
        /\ v.phase = "syncing" /\ v.copy = L /\ v.target = None
    BY <1>3, <1>4, <2>1, <2>2 DEF SessionRecord, Phases
  <2> QED BY <2>1, <2>3
<1>6. PICK x \in SessionRecord : x = y
  BY <1>5
<1>7. x.phase = "syncing" /\ x.copy = L /\ x.target = None
  BY <1>5, <1>6
<1>8. sess' = [sess EXCEPT ![s] = x] /\ [O!RuntimeNext]_runtime
  BY <1>2, <1>6
<1>9. Current(stored, x) /\ Recorded(stored, x) /\ Visits(x)
  BY <1>1, <1>2, <1>7 DEF Current, Recorded, Visits, Flow
<1> HIDE DEF y
<1> QED BY <1>2, <1>7, <1>8, <1>9, QuietStep DEF Kept

\* The record of a session that visited task t and goes on to the next.
LEMMA VisitRecord ==
  ASSUME DelegationInv, NEW s \in Sessions, sess[s].phase \in {"syncing", "updating"},
         NEW L \in Ledger, NEW t \in Tasks
  PROVE  /\ AfterVisit(s, L, t) \in SessionRecord
         /\ AfterVisit(s, L, t).target = None
         /\ AfterVisit(s, L, t).phase \in {"closed", sess[s].phase}
         /\ AfterVisit(s, L, t).phase # "closed" =>
              AfterVisit(s, L, t).copy = L /\ AfterVisit(s, L, t).left = sess[s].left \ {t}
<1>1. sess[s] \in SessionRecord /\ sess[s].target = None
  BY SessionFacts DEF Recorded, Flow
<1>2. Orca!NoResult \in Orca!Result
  BY DEF Orca!NoResult, Orca!Result
<1>3. PICK x \in SessionRecord : x = sess[s]
  BY <1>1
<1>4. LET y == [x EXCEPT !.copy = L, !.left = x.left \ {t}, !.seen[t] = Orca!NoResult] IN
      /\ y \in SessionRecord
      /\ y.target = x.target /\ y.phase = x.phase
      /\ y.copy = L /\ y.left = x.left \ {t}
  BY <1>2, <1>3 DEF SessionRecord
<1>5. CASE sess[s].left \ {t} = {}
  BY <1>5, ClosedRecord DEF AfterVisit
<1>6. CASE sess[s].left \ {t} # {}
  BY <1>1, <1>3, <1>4, <1>6 DEF AfterVisit
<1> QED BY <1>5, <1>6

\* A save of a sync: the session goes on from what it saved.
LEMMA VisitIsKept ==
  ASSUME DelegationInv, NEW s \in Sessions, sess[s].phase = "syncing",
         NEW t \in Tasks, NEW next \in Ledger, next.revision = sess[s].copy.revision + 1,
         Save(s, next, AfterVisit(s, next, t)), runtime' = runtime, call' = call,
         sess[s].copy = stored /\ Valid(next) /\ stored' = next =>
           W!Next /\ Keeps(stored, next, None)
  PROVE  Kept
<1>1. PICK x : x = AfterVisit(s, next, t)
  OBVIOUS
<1>2. /\ x \in SessionRecord /\ x.target = None
      /\ x.phase \in {"closed", "syncing"}
      /\ x.phase # "closed" => x.copy = next
  BY <1>1, VisitRecord
<1>3. Visits(x) /\ \A N : Recorded(N, x)
  BY <1>2 DEF Visits, Recorded, Flow
<1>4. Save(s, next, x) /\ None \in DspIds \cup {None}
  BY <1>1
<1>5. call' \in [DspIds -> {"none", "sent", "claimed", "answered", "refused"}]
  BY DEF DelegationInv, DelegationTypeOK
<1> QED BY <1>2, <1>3, <1>4, <1>5, SaveIsKept

\* A report moves the attempt of its task that runs in the session's copy.
LEMMA SyncTaskIsKept ==
  ASSUME DelegationInv, NEW s \in Sessions, SyncTask(s)
  PROVE  Kept
<1> DEFINE L == sess[s].copy
<1>1. L \in Ledger /\ sess[s].left \subseteq Tasks
  BY SessionFacts
<1>2. sess[s].phase = "syncing" /\ runtime' = runtime /\ call' = call
  BY DEF SyncTask
<1>3. PICK t \in sess[s].left : \E d \in RunningOn(L, t) :
        \/ Save(s, FailDispatch(L, d), AfterVisit(s, FailDispatch(L, d), t))
        \/ /\ CanSubmit(L, d) /\ Valid(Submit(L, d))
           /\ \/ Save(s, Submit(L, d), AfterVisit(s, Submit(L, d), t))
              \/ /\ t \in AutoReviewable
                 /\ Save(s, ReportAccepted(L, d), AfterVisit(s, ReportAccepted(L, d), t))
        \/ stored' = stored /\ sess' = [sess EXCEPT ![s] = Closed]
  BY Zenon DEF SyncTask
<1>4. PICK d \in RunningOn(L, t) :
        \/ Save(s, FailDispatch(L, d), AfterVisit(s, FailDispatch(L, d), t))
        \/ /\ CanSubmit(L, d) /\ Valid(Submit(L, d))
           /\ \/ Save(s, Submit(L, d), AfterVisit(s, Submit(L, d), t))
              \/ /\ t \in AutoReviewable
                 /\ Save(s, ReportAccepted(L, d), AfterVisit(s, ReportAccepted(L, d), t))
        \/ stored' = stored /\ sess' = [sess EXCEPT ![s] = Closed]
  BY <1>3
<1>5. /\ t \in Tasks /\ d \in DspIds
      /\ L.dsp[d].state = "running" /\ TaskOf(L, d) = t
  BY <1>1 DEF RunningOn
<1>6. CASE Save(s, FailDispatch(L, d), AfterVisit(s, FailDispatch(L, d), t))
  <2>1. FailDispatch(L, d) \in Ledger
    BY <1>1, <1>5, FlowTypes
  <2>2. FailDispatch(L, d).revision = L.revision + 1 /\ Keeps(L, FailDispatch(L, d), None)
    BY <1>1, <1>5, ReviewKeeps
  <2>3. ASSUME L = stored, Valid(FailDispatch(L, d)), stored' = FailDispatch(L, d) PROVE W!Next
    BY <1>5, <2>3, ReviewIsStep
  <2> QED BY <1>2, <1>5, <1>6, <2>1, <2>2, <2>3, VisitIsKept
<1>7. CASE /\ CanSubmit(L, d) /\ Valid(Submit(L, d))
           /\ Save(s, Submit(L, d), AfterVisit(s, Submit(L, d), t))
  <2>1. Submit(L, d) \in Ledger
    BY <1>1, <1>5, FlowTypes
  <2>2. Submit(L, d).revision = L.revision + 1 /\ Keeps(L, Submit(L, d), None)
    BY <1>1, <1>5, ReviewKeeps
  <2>3. ASSUME L = stored, Valid(Submit(L, d)), stored' = Submit(L, d) PROVE W!Next
    BY <1>5, <1>7, <2>3, ReviewIsStep
  <2> QED BY <1>2, <1>5, <1>7, <2>1, <2>2, <2>3, VisitIsKept
<1>8. CASE /\ CanSubmit(L, d) /\ Valid(Submit(L, d)) /\ t \in AutoReviewable
           /\ Save(s, ReportAccepted(L, d), AfterVisit(s, ReportAccepted(L, d), t))
  <2>1. ReportAccepted(L, d) \in Ledger
    BY <1>1, <1>5, FlowTypes
  <2>2. ReportAccepted(L, d).revision = L.revision + 1 /\ Keeps(L, ReportAccepted(L, d), None)
    BY <1>1, <1>5, ReviewKeeps
  <2>3. ASSUME L = stored, Valid(ReportAccepted(L, d)), stored' = ReportAccepted(L, d)
        PROVE  W!Next
    BY <1>5, <1>8, <2>3, ReviewIsStep
  <2> QED BY <1>2, <1>5, <1>8, <2>1, <2>2, <2>3, VisitIsKept
<1>9. CASE stored' = stored /\ sess' = [sess EXCEPT ![s] = Closed]
  BY <1>2, <1>9, ClosedIsKept
<1> QED BY <1>4, <1>6, <1>7, <1>8, <1>9

\* An update starts with the tasks the copy has a status for.
LEMMA BeginUpdateIsKept ==
  ASSUME DelegationInv, NEW s \in Sessions, BeginUpdate(s)
  PROVE  Kept
<1> DEFINE L == sess[s].copy
           pushed == {t \in Tasks : DesiredStatus(L, t) # "none"}
           y == [Ready(L) EXCEPT !.phase = "updating", !.left = pushed]
<1>1. L \in Ledger /\ Current(stored, sess[s])
  BY SessionFacts
<1>2. /\ sess[s].phase = "ready"
      /\ stored' = stored /\ runtime' = runtime /\ call' = call
      /\ sess' = [sess EXCEPT ![s] = y]
  BY DEF BeginUpdate
<1>3. /\ y \in SessionRecord
      /\ y.phase = "updating" /\ y.copy = L /\ y.target = None /\ y.left = pushed
  <2>1. PICK z \in SessionRecord : z = Ready(L)
    BY <1>1, ReadyRecord
  <2>2. z.copy = L /\ z.target = None
    BY <1>1, <2>1, ReadyRecord
  <2>3. pushed \subseteq Tasks
    OBVIOUS
  <2> HIDE DEF pushed
  <2>4. LET v == [z EXCEPT !.phase = "updating", !.left = pushed] IN
        /\ v \in SessionRecord
        /\ v.phase = "updating" /\ v.copy = L /\ v.target = None /\ v.left = pushed
    BY <2>1, <2>2, <2>3 DEF SessionRecord, Phases
  <2> QED BY <2>1, <2>4
<1>4. PICK x \in SessionRecord : x = y
  BY <1>3
<1>5. x.phase = "updating" /\ x.copy = L /\ x.target = None /\ x.left = pushed
  BY <1>3, <1>4
<1>6. sess' = [sess EXCEPT ![s] = x] /\ [O!RuntimeNext]_runtime
  BY <1>2, <1>4
<1> HIDE DEF y
<1>7. Current(stored, x) /\ Recorded(stored, x) /\ Visits(x)
  BY <1>1, <1>2, <1>5 DEF Current, Recorded, Visits, Flow
<1> QED BY <1>2, <1>5, <1>6, <1>7, QuietStep DEF Kept

\* An update writes the status the copy has for the task, or is refused.
LEMMA UpdateTaskIsKept ==
  ASSUME DelegationInv, NEW s \in Sessions, UpdateTask(s)
  PROVE  Kept
<1> DEFINE L == sess[s].copy
<1>1. /\ L \in Ledger /\ sess[s].left \subseteq Tasks
      /\ Current(stored, sess[s]) /\ Visits(sess[s])
  BY SessionFacts
<1>2. sess[s].phase = "updating" /\ stored' = stored /\ call' = call
  BY DEF UpdateTask
<1>3. PICK t \in sess[s].left :
        \/ /\ Orca!Update(t, DesiredStatus(L, t))
           /\ sess' = [sess EXCEPT ![s] = AfterVisit(s, L, t)]
        \/ runtime' = runtime /\ sess' = [sess EXCEPT ![s] = Closed]
  BY DEF UpdateTask
<1>4. CASE runtime' = runtime /\ sess' = [sess EXCEPT ![s] = Closed]
  BY <1>2, <1>4, ClosedIsKept
<1>5. CASE /\ Orca!Update(t, DesiredStatus(L, t))
           /\ sess' = [sess EXCEPT ![s] = AfterVisit(s, L, t)]
  <2>1. t \in Tasks /\ DesiredStatus(L, t) # "none"
    BY <1>1, <1>2 DEF Visits
  <2>2. DesiredStatus(L, t) \in {"completed", "failed", "ready", "blocked"}
    BY <2>1 DEF DesiredStatus
  <2>3. O!RuntimeNext
    BY <1>5, <2>1, <2>2, SameRuntime DEF O!RuntimeNext
  <2>4. PICK x : x = AfterVisit(s, L, t)
    OBVIOUS
  <2>5. /\ x \in SessionRecord /\ x.target = None
        /\ x.phase \in {"closed", "updating"}
        /\ x.phase # "closed" => x.copy = L /\ x.left = sess[s].left \ {t}
    BY <1>1, <1>2, <2>1, <2>4, VisitRecord
  <2>6. Current(stored, x) /\ Recorded(stored, x) /\ Visits(x)
    BY <1>1, <1>2, <2>5 DEF Current, Recorded, Visits, Flow
  <2>7. sess' = [sess EXCEPT ![s] = x] /\ [O!RuntimeNext]_runtime
    BY <1>5, <2>3, <2>4
  <2> HIDE DEF L
  <2> QED BY <1>2, <2>5, <2>6, <2>7, QuietStep DEF Kept
<1> QED BY <1>3, <1>4, <1>5

-----------------------------------------------------------------------------
(* The runtime moves.                                                       *)

\* A context claimed for an attempt is that of its task and worker.
LEMMA ClaimDispatchIsKept ==
  ASSUME DelegationInv, ClaimDispatch
  PROVE  Kept
<1>1. PICK d \in DspIds :
        /\ call[d] = "sent"
        /\ \/ /\ Orca!Claim(d, TaskOf(stored, d), stored.asg[d[1]].worker)
              /\ call' = [call EXCEPT ![d] = "claimed"]
           \/ /\ call' = [call EXCEPT ![d] = "refused"]
              /\ runtime' = runtime
        /\ stored' = stored /\ sess' = sess
  BY DEF ClaimDispatch
<1>2. call \in [DspIds -> {"none", "sent", "claimed", "answered", "refused"}]
  BY DEF DelegationInv, DelegationTypeOK
<1>3. TaskOf(stored, d) \in Tasks /\ stored.asg[d[1]].worker \in Workers
  BY <1>1, StoredFacts DEF DelegationInv, CallsAgree
<1>4. CASE /\ Orca!Claim(d, TaskOf(stored, d), stored.asg[d[1]].worker)
           /\ call' = [call EXCEPT ![d] = "claimed"]
  <2>1. O!RuntimeNext
    BY <1>3, <1>4, SameRuntime DEF O!RuntimeNext
  <2>2. PICK new : new = [status |-> "dispatched", task |-> TaskOf(stored, d),
                          worker |-> stored.asg[d[1]].worker]
    OBVIOUS
  <2>3. runtime' = [runtime EXCEPT !.task[TaskOf(stored, d)] = "dispatched", !.ctx[d] = new]
    BY <1>4, <2>2 DEF Orca!Claim
  <2>4. runtime'.ctx[d] = new
    BY <2>3 DEF DelegationInv, DelegationTypeOK, Orca!RuntimeTypeOK
  <2>5. Claimed(d)'
    BY <1>1, <2>2, <2>4 DEF Claimed, TaskOf
  <2>6. call' \in [DspIds -> {"none", "sent", "claimed", "answered", "refused"}]
    BY <1>2, <1>4
  <2>7. \A e \in DspIds :
          /\ call'[e] # "none" => call[e] # "none"
          /\ call'[e] \in {"claimed", "answered"} =>
               call[e] \in {"claimed", "answered"} \/ Claimed(e)'
    BY <1>1, <1>2, <1>4, <2>5
  <2> QED BY <1>1, <2>1, <2>6, <2>7, RuntimeMove DEF Kept
<1>5. CASE /\ call' = [call EXCEPT ![d] = "refused"]
           /\ runtime' = runtime
  <2>1. call' \in [DspIds -> {"none", "sent", "claimed", "answered", "refused"}]
    BY <1>2, <1>5
  <2>2. \A e \in DspIds :
          /\ call'[e] # "none" => call[e] # "none"
          /\ call'[e] \in {"claimed", "answered"} =>
               call[e] \in {"claimed", "answered"} \/ Claimed(e)'
    BY <1>1, <1>2, <1>5
  <2> QED BY <1>1, <1>5, <2>1, <2>2, RuntimeMove DEF Kept
<1> QED BY <1>1, <1>4, <1>5

\* Only a claimed call is answered.
LEMMA InjectPromptIsKept ==
  ASSUME DelegationInv, InjectPrompt
  PROVE  Kept
<1>1. PICK d \in DspIds :
        /\ call[d] = "claimed"
        /\ call' = [call EXCEPT ![d] = "answered"] \/ call' = [call EXCEPT ![d] = "refused"]
        /\ runtime' = runtime \/ Orca!Fail(d)
        /\ stored' = stored /\ sess' = sess
  BY DEF InjectPrompt
<1>2. call \in [DspIds -> {"none", "sent", "claimed", "answered", "refused"}]
  BY DEF DelegationInv, DelegationTypeOK
<1>3. [O!RuntimeNext]_runtime
  BY <1>1, SameRuntime DEF O!RuntimeNext
<1>4. call' \in [DspIds -> {"none", "sent", "claimed", "answered", "refused"}]
  BY <1>1, <1>2
<1>5. \A e \in DspIds :
        /\ call'[e] # "none" => call[e] # "none"
        /\ call'[e] \in {"claimed", "answered"} =>
             call[e] \in {"claimed", "answered"} \/ Claimed(e)'
  BY <1>1, <1>2
<1> QED BY <1>1, <1>3, <1>4, <1>5, RuntimeMove DEF Kept

\* Stops, reports and exits touch the runtime alone.
LEMMA WorkersAreKept ==
  ASSUME DelegationInv, ServeStop \/ WorkerReports \/ WorkerExits
  PROVE  Kept
<1>1. stored' = stored /\ sess' = sess /\ call' = call
  BY DEF ServeStop, WorkerReports, WorkerExits
<1>2. O!RuntimeNext
  <2>1. CASE ServeStop
    BY <2>1, SameRuntime DEF ServeStop, O!RuntimeNext
  <2>2. CASE WorkerReports
    BY <2>2, SameRuntime DEF WorkerReports, O!RuntimeNext
  <2>3. CASE WorkerExits
    BY <2>3, SameRuntime DEF WorkerExits, O!RuntimeNext
  <2> QED BY <2>1, <2>2, <2>3
<1>3. call' \in [DspIds -> {"none", "sent", "claimed", "answered", "refused"}]
  BY <1>1 DEF DelegationInv, DelegationTypeOK
<1>4. \A e \in DspIds :
        /\ call'[e] # "none" => call[e] # "none"
        /\ call'[e] \in {"claimed", "answered"} =>
             call[e] \in {"claimed", "answered"} \/ Claimed(e)'
  BY <1>1
<1> QED BY <1>1, <1>2, <1>3, <1>4, RuntimeMove DEF Kept

-----------------------------------------------------------------------------
(* The theorems.                                                            *)

\* Nothing is assigned, claimed or under way at first.
LEMMA DelegationInitInv == Init => DelegationInv /\ W!Init
<1> SUFFICES ASSUME Init PROVE DelegationInv /\ W!Init
  OBVIOUS
<1>1. W!Init /\ W!SafeInv
  <2>1. W!Init
    BY SameLedger DEF Init, W!Init
  <2> QED BY <2>1, W!InitSafe, PlanAssumption, AcyclicAssumption, LimitAssumption
<1>2. O!RuntimeInv
  <2>1. O!RuntimeInit
    BY SameRuntime DEF Init
  <2>2. /\ Deps \in [Tasks -> SUBSET Tasks]
        /\ None \notin Tasks \cup Workers \cup DspIds
        /\ BreakerLimit \in Nat \ {0}
    BY PlanAssumption, SessionAssumption
  <2> QED BY <2>1, <2>2, O!RuntimeInitInv
<1>3. /\ \A s \in Sessions : sess[s] = Closed
      /\ sess \in [Sessions -> SessionRecord]
  BY ClosedRecord DEF Init
<1>4. DelegationTypeOK
  <2>1. stored \in Ledger
    BY <1>1, StoredFacts
  <2>2. Orca!RuntimeTypeOK
    BY <1>2, SameRuntime DEF O!RuntimeInv
  <2>3. call \in [DspIds -> {"none", "sent", "claimed", "answered", "refused"}]
    BY DEF Init
  <2> QED BY <1>3, <2>1, <2>2, <2>3 DEF DelegationTypeOK, SessionTypeOK, SessionRecord
<1>5. SessionsAgree /\ TargetsDiffer
  BY <1>3, ClosedRecord DEF SessionsAgree, TargetsDiffer, Current, Recorded, Visits, Flow
<1>6. CallsAgree /\ StopWasProven
  <2>1. \A d \in DspIds : stored.dsp[d].state = "absent" /\ stored.dsp[d].stop = "none"
    BY DEF Init, Materialized, NoDispatch
  <2> QED BY <2>1 DEF Init, CallsAgree, StopWasProven, Ran
<1> QED BY <1>1, <1>2, <1>4, <1>5, <1>6 DEF DelegationInv

\* Every step keeps the invariant and moves the stored ledger as WorkLedger does.
LEMMA DelegationNextKept == DelegationInv /\ [Next]_vars => Kept
<1> SUFFICES ASSUME DelegationInv, [Next]_vars PROVE Kept
  OBVIOUS
<1>1. ASSUME NEW s \in Sessions, SessionStep(s) PROVE Kept
  <2>1. CASE LoadLedger(s) \/ Crash(s)
    BY <2>1, LoadIsKept
  <2>2. CASE AssignReadyTask(s) \/ DecideDispatchGate(s) \/ ReassignStoppedTask(s)
    BY <2>2, AssignmentIsKept
  <2>3. CASE SubmitEvidence(s) \/ ReviewEvidence(s)
    BY <2>3, EvidenceIsKept
  <2>4. CASE BeginDispatch(s)
    BY <2>4, BeginDispatchIsKept
  <2>5. CASE SettleDispatch(s)
    BY <2>5, SettleDispatchIsKept
  <2>6. CASE BeginStop(s)
    BY <2>6, BeginStopIsKept
  <2>7. CASE ProveStop(s)
    BY <2>7, ProveStopIsKept
  <2>8. CASE SettleStop(s) \/ DoubtStop(s)
    BY <2>8, EndStopIsKept
  <2>9. CASE BeginSync(s)
    BY <2>9, BeginSyncIsKept
  <2>10. CASE SyncTask(s)
    BY <2>10, SyncTaskIsKept
  <2>11. CASE BeginUpdate(s)
    BY <2>11, BeginUpdateIsKept
  <2>12. CASE UpdateTask(s)
    BY <2>12, UpdateTaskIsKept
  <2> QED BY <1>1, <2>1, <2>2, <2>3, <2>4, <2>5, <2>6, <2>7, <2>8, <2>9, <2>10, <2>11, <2>12
          DEF SessionStep
<1>2. ASSUME RuntimeStep PROVE Kept
  BY <1>2, ClaimDispatchIsKept, InjectPromptIsKept, WorkersAreKept DEF RuntimeStep
<1>3. ASSUME UNCHANGED vars PROVE Kept
  <2>1. /\ stored' = stored /\ sess' = sess /\ call' = call /\ runtime' = runtime
    BY <1>3 DEF vars
  <2>2. call' \in [DspIds -> {"none", "sent", "claimed", "answered", "refused"}]
    BY <2>1 DEF DelegationInv, DelegationTypeOK
  <2>3. [O!RuntimeNext]_runtime
    BY <2>1
  <2>4. \A e \in DspIds :
          /\ call'[e] # "none" => call[e] # "none"
          /\ call'[e] \in {"claimed", "answered"} =>
               call[e] \in {"claimed", "answered"} \/ Claimed(e)'
    BY <2>1
  <2> QED BY <2>1, <2>2, <2>3, <2>4, RuntimeMove DEF Kept
<1> QED BY <1>1, <1>2, <1>3 DEF Next

\* The inductive invariant holds.
LEMMA DelegationInvHolds == Spec => []DelegationInv
<1>1. DelegationInv /\ [Next]_vars => DelegationInv'
  BY DelegationNextKept DEF Kept
<1> QED BY <1>1, DelegationInitInv, PTL DEF Spec

\* The ledger, the runtime, the calls and the sessions always have their types.
THEOREM DelegationTypeCorrect == Spec => []DelegationTypeOK
<1>1. DelegationInv => DelegationTypeOK
  BY DEF DelegationInv
<1> QED BY <1>1, DelegationInvHolds, PTL

\* Store and runtime answer for each other: what a session does in the runtime is
\* on record and nobody else's, what is on record as run was claimed by its own
\* task and worker, and a copy with the store's revision is the store's ledger.
THEOREM RecordsAlwaysMatchEffects == Spec => []RecordsMatchEffects
<1>1. ASSUME DelegationInv PROVE RecordsMatchEffects
  <2>1. RevisionsIdentifyLedgers
    BY <1>1 DEF DelegationInv, SessionsAgree, Current, RevisionsIdentifyLedgers
  <2>2. RunningWasClaimed
    BY <1>1 DEF DelegationInv, CallsAgree, Claimed, Ran, RunningWasClaimed
  <2>3. EffectsAreRecorded
    <3> SUFFICES ASSUME NEW s \in Sessions
                 PROVE  LET d == sess[s].target IN
                        /\ sess[s].phase = "calling" => stored.dsp[d].state = "prepared"
                        /\ sess[s].phase = "stopping" => stored.dsp[d].stop = "requested"
                        /\ sess[s].phase = "closing" => stored.dsp[d].stop = "dispatch-stopped"
                        /\ sess[s].phase \in {"calling", "stopping", "closing"} =>
                             \A r \in Sessions \ {s} : sess[r].target # d
      BY DEF EffectsAreRecorded
    <3>1. Recorded(stored, sess[s])
      BY <1>1, SessionFacts
    <3>2. sess[s].target # None => \A r \in Sessions \ {s} : sess[r].target # sess[s].target
      BY <1>1 DEF DelegationInv, TargetsDiffer
    <3> QED BY <3>1, <3>2 DEF Recorded, Flow
  <2> QED BY <2>1, <2>2, <2>3 DEF RecordsMatchEffects
<1> QED BY <1>1, DelegationInvHolds, PTL

\* The context of a dispatch on record as stopped or cancelled is stopped in the
\* runtime, and no late call revives it.
THEOREM StopsAreProven == Spec => []StopWasProven
<1>1. DelegationInv => StopWasProven
  BY DEF DelegationInv
<1> QED BY <1>1, DelegationInvHolds, PTL

\* The instance of WorkLedger in Delegation checks what this module checks, ...
LEMMA AbstractGuards ==
  ASSUME NEW L
  PROVE  /\ \A t, w, a : Abstract!CanAssign(L, t, w, a) <=> CanAssign(L, t, w, a)
         /\ \A a : Abstract!CanDecideGate(L, a) <=> CanDecideGate(L, a)
         /\ \A d, w, a : Abstract!CanReassign(L, d, w, a) <=> CanReassign(L, d, w, a)
         /\ \A d : Abstract!CanPrepare(L, d) <=> CanPrepare(L, d)
         /\ \A d : Abstract!CanPrepareStop(L, d) <=> CanPrepareStop(L, d)
         /\ \A d : Abstract!CanSubmit(L, d) <=> CanSubmit(L, d)
         /\ \A d : Abstract!CanReview(L, d) <=> CanReview(L, d)
<1>1. \A a : Abstract!NextAssignmentId(L, a) <=> NextAssignmentId(L, a)
  BY DEF Abstract!NextAssignmentId, NextAssignmentId, Abstract!AsgIds, AsgIds
<1>2. \A t, w, X : Abstract!Selectable(L, t, w, X) <=> Selectable(L, t, w, X)
  BY DEF Abstract!Selectable, Selectable, Abstract!ActiveOn, ActiveOn, Abstract!Load, Load, Abstract!Active, Active,
         Abstract!AsgIds, AsgIds, Abstract!Cardinality, Cardinality
<1>3. \A t, w, a : Abstract!CanAssign(L, t, w, a) <=> CanAssign(L, t, w, a)
  BY <1>1, <1>2 DEF Abstract!CanAssign, CanAssign
<1>4. \A d, w, a : Abstract!CanReassign(L, d, w, a) <=> CanReassign(L, d, w, a)
  BY <1>1, <1>2 DEF Abstract!CanReassign, CanReassign, Abstract!TaskOf, TaskOf
<1>5. \A d : Abstract!NextAttempt(L, d) <=> NextAttempt(L, d)
  BY DEF Abstract!NextAttempt, NextAttempt, Abstract!Attempts, Attempts
<1>6. /\ Abstract!Cardinality(Abstract!InFlight(L)) = Cardinality(InFlight(L))
      /\ Abstract!Cardinality(Abstract!Dispatched(L)) = Cardinality(Dispatched(L))
  BY DEF Abstract!InFlight, InFlight, Abstract!Dispatched, Dispatched, Abstract!DspIds, DspIds, Abstract!AsgIds, AsgIds,
         Abstract!Attempts, Attempts, Abstract!Unsettled, Unsettled, Abstract!Cardinality, Cardinality
<1>7. \A d : Abstract!CanPrepare(L, d) <=> CanPrepare(L, d)
  BY <1>5, <1>6 DEF Abstract!CanPrepare, CanPrepare, Abstract!TaskOf, TaskOf, Abstract!NeedsApproval, NeedsApproval,
                    Abstract!Attempts, Attempts, Abstract!Unsettled, Unsettled
<1>8. /\ \A a : Abstract!CanDecideGate(L, a) <=> CanDecideGate(L, a)
      /\ \A d : Abstract!CanPrepareStop(L, d) <=> CanPrepareStop(L, d)
      /\ \A d : Abstract!CanSubmit(L, d) <=> CanSubmit(L, d)
      /\ \A d : Abstract!CanReview(L, d) <=> CanReview(L, d)
  BY DEF Abstract!CanDecideGate, CanDecideGate, Abstract!CanPrepareStop, CanPrepareStop,
         Abstract!CanSubmit, CanSubmit, Abstract!CanReview, CanReview, Abstract!TaskOf, TaskOf
<1> QED BY <1>3, <1>4, <1>7, <1>8

\* ... builds the same ledgers ...
LEMMA AbstractOperations ==
  ASSUME NEW L
  PROVE  /\ \A t, w, a : Abstract!Assign(L, t, w, a) = Assign(L, t, w, a)
         /\ \A a, c : Abstract!DecideGate(L, a, c) = DecideGate(L, a, c)
         /\ \A d, w, a : Abstract!Reassign(L, d, w, a) = Reassign(L, d, w, a)
         /\ \A d : Abstract!Prepare(L, d) = Prepare(L, d)
         /\ \A d : Abstract!Commit(L, d) = Commit(L, d)
         /\ \A d : Abstract!FailPrepared(L, d) = FailPrepared(L, d)
         /\ \A d, x : Abstract!SetStop(L, d, x) = SetStop(L, d, x)
         /\ \A d : Abstract!CompleteStop(L, d) = CompleteStop(L, d)
         /\ \A d : Abstract!Submit(L, d) = Submit(L, d)
         /\ \A d : Abstract!Accept(L, d) = Accept(L, d)
         /\ \A d : Abstract!Reject(L, d) = Reject(L, d)
         /\ \A d : Abstract!FailDispatch(L, d) = FailDispatch(L, d)
         /\ \A d : Abstract!ReportAccepted(L, d) = ReportAccepted(L, d)
<1>1. \A d : Abstract!TaskOf(L, d) = TaskOf(L, d)
  BY DEF Abstract!TaskOf, TaskOf
<1>2. \A t, w : Abstract!NewAssignment(t, w) = NewAssignment(t, w)
  BY DEF Abstract!NewAssignment, NewAssignment, Abstract!NeedsApproval, NeedsApproval
<1>3. \A t, w, a : Abstract!Assign(L, t, w, a) = Assign(L, t, w, a)
  BY <1>2 DEF Abstract!Assign, Assign
<1>4. \A a, c : Abstract!DecideGate(L, a, c) = DecideGate(L, a, c)
  BY DEF Abstract!DecideGate, DecideGate
<1>5. \A d, w, a : Abstract!Reassign(L, d, w, a) = Reassign(L, d, w, a)
  BY <1>1, <1>2 DEF Abstract!Reassign, Reassign
<1>6. /\ \A d : Abstract!Prepare(L, d) = Prepare(L, d)
      /\ \A d : Abstract!FailPrepared(L, d) = FailPrepared(L, d)
      /\ \A d, x : Abstract!SetStop(L, d, x) = SetStop(L, d, x)
  BY DEF Abstract!Prepare, Prepare, Abstract!FailPrepared, FailPrepared, Abstract!SetStop, SetStop
<1>7. \A d : Abstract!Commit(L, d) = Commit(L, d)
  BY <1>1 DEF Abstract!Commit, Commit
<1>8. \A d : Abstract!CompleteStop(L, d) = CompleteStop(L, d)
  BY <1>1 DEF Abstract!CompleteStop, CompleteStop
<1>9. \A d : Abstract!Submit(L, d) = Submit(L, d)
  BY <1>1 DEF Abstract!Submit, Submit
<1>10. \A d : Abstract!Reject(L, d) = Reject(L, d)
  BY <1>1 DEF Abstract!Reject, Reject
<1>11. \A d : Abstract!FailDispatch(L, d) = FailDispatch(L, d)
  BY <1>1 DEF Abstract!FailDispatch, FailDispatch
<1>12. \A M, d : Abstract!Accept(M, d) = Accept(M, d)
  BY DEF Abstract!Accept, Accept, Abstract!CompleteAndUnlock, CompleteAndUnlock, Abstract!TaskOf, TaskOf
<1>13. \A d : Abstract!ReportAccepted(L, d) = ReportAccepted(L, d)
  BY <1>9, <1>12 DEF Abstract!ReportAccepted, ReportAccepted
<1> QED BY <1>3, <1>4, <1>5, <1>6, <1>7, <1>8, <1>9, <1>10, <1>11, <1>12, <1>13

\* ... and takes the same steps.
LEMMA SameSteps ==
  /\ W!Init <=> Abstract!Init
  /\ W!Next <=> Abstract!Next
<1>1. /\ Abstract!AsgIds = AsgIds /\ Abstract!DspIds = DspIds
      /\ Abstract!Materialized = Materialized
  BY DEF Abstract!AsgIds, AsgIds, Abstract!Attempts, Attempts, Abstract!DspIds, DspIds,
         Abstract!Materialized, Materialized, Abstract!NoAssignment, NoAssignment,
         Abstract!NoDispatch, NoDispatch
<1>2. \A L : Abstract!Valid(L) <=> Valid(L)
  BY DEF Abstract!Valid, Valid, Abstract!ValidPlan, ValidPlan,
         Abstract!ValidEvidence, ValidEvidence, Abstract!ValidStops, ValidStops,
         Abstract!HasReplacement, HasReplacement, Abstract!ValidCompletion, ValidCompletion,
         Abstract!HasAccepted, HasAccepted, Abstract!AsgIds, AsgIds,
         Abstract!Attempts, Attempts, Abstract!DspIds, DspIds, Abstract!Active, Active,
         Abstract!PendingStop, PendingStop, Abstract!TaskOf, TaskOf
<1>3. W!Init <=> Abstract!Init
  BY <1>1, SameLedger DEF W!Init, Abstract!Init
<1>4. \A L : W!Advance(L) <=> Abstract!Advance(L)
  BY <1>2, SameLedger DEF W!Advance, Abstract!Advance
<1>5. \A L, d : W!TaskOf(L, d) = Abstract!TaskOf(L, d)
  BY DEF W!TaskOf, Abstract!TaskOf
<1> USE <1>1, <1>4, SameLedger, SameGuards, SameOperations, AbstractGuards, AbstractOperations
<1>6. W!AssignReadyTask <=> Abstract!AssignReadyTask
  BY DEF W!AssignReadyTask, Abstract!AssignReadyTask
<1>7. W!DecideDispatchGate <=> Abstract!DecideDispatchGate
  BY DEF W!DecideDispatchGate, Abstract!DecideDispatchGate
<1>8. W!ReassignStoppedTask <=> Abstract!ReassignStoppedTask
  BY DEF W!ReassignStoppedTask, Abstract!ReassignStoppedTask
<1>9. W!PrepareDispatch <=> Abstract!PrepareDispatch
  BY DEF W!PrepareDispatch, Abstract!PrepareDispatch
<1>10. W!SettlePrepared <=> Abstract!SettlePrepared
  BY DEF W!SettlePrepared, Abstract!SettlePrepared
<1>11. W!RequestStop <=> Abstract!RequestStop
  BY DEF W!RequestStop, Abstract!RequestStop
<1>12. W!SettleStop <=> Abstract!SettleStop
  BY DEF W!SettleStop, Abstract!SettleStop
<1>13. W!SubmitEvidence <=> Abstract!SubmitEvidence
  BY DEF W!SubmitEvidence, Abstract!SubmitEvidence
<1>14. W!ReviewEvidence <=> Abstract!ReviewEvidence
  BY DEF W!ReviewEvidence, Abstract!ReviewEvidence
<1>15. W!ReconcileReport <=> Abstract!ReconcileReport
  BY <1>2, <1>5 DEF W!ReconcileReport, Abstract!ReconcileReport
<1> QED BY <1>3, <1>6, <1>7, <1>8, <1>9, <1>10, <1>11, <1>12, <1>13, <1>14, <1>15
       DEF W!Next, Abstract!Next

\* The sessions together are one user of the ledger: every step of the system is a
\* step of WorkLedger on the stored ledger, or leaves it alone.
THEOREM DelegationImplementsLedger == Spec => ImplementsLedger
<1>1. Init => Abstract!Init
  BY DelegationInitInv, SameSteps
<1>2. DelegationInv /\ [Next]_vars => [Abstract!Next]_stored
  BY DelegationNextKept, SameSteps DEF Kept
<1> QED BY <1>1, <1>2, DelegationInvHolds, PTL DEF Spec, ImplementsLedger, Abstract!Spec

\* What is proved of one user of the ledger holds of the ledger the sessions share:
\* no stale copy, crash or late answer makes two attempts hold a task, completes
\* what was not accepted, leaks a worker's place, takes back what is settled or
\* leaves an outcome that the schema refuses to record.
THEOREM SharedLedgerIsSound ==
  Spec => /\ [](W!OneAuthorityPerTask /\ W!NoUnapprovedAttempt)
          /\ [](W!AttemptFollowsAssignment /\ W!AssignmentsAreSound)
          /\ [](W!CompletionIsSound /\ W!SettlementIsNeverRefused)
          /\ W!RecordsAreFinal
<1> USE PlanAssumption, AcyclicAssumption, LimitAssumption
<1>1. Init => W!Init
  BY DelegationInitInv
<1>2. DelegationInv /\ [Next]_vars => [W!Next]_stored
  BY DelegationNextKept DEF Kept
<1>3. Spec => W!Spec
  BY <1>1, <1>2, DelegationInvHolds, PTL DEF Spec, W!Spec
<1>4. W!Spec => []W!OneAuthorityPerTask
  BY W!SingleAuthority
<1>5. W!Spec => []W!NoUnapprovedAttempt
  BY W!ApprovalComesFirst
<1>6. W!Spec => []W!CompletionIsSound
  BY W!CompletionSound
<1>7. W!Spec => []W!AssignmentsAreSound
  BY W!AssignmentsSound
<1>8. W!Spec => W!RecordsAreFinal
  BY W!RecordsStayFinal
<1>9. W!Spec => []W!AttemptFollowsAssignment
  BY W!AttemptsFollowAssignments
<1>10. W!Spec => []W!SettlementIsNeverRefused
  BY W!SettlementNeverRefused
<1> QED BY <1>3, <1>4, <1>5, <1>6, <1>7, <1>8, <1>9, <1>10, PTL

=============================================================================
