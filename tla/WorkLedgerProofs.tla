--------------------------- MODULE WorkLedgerProofs ---------------------------
(***************************************************************************)
(* What is proved of the delegation ledger, for any tasks, workers, plan   *)
(* and limits: it keeps its type, an attempt moves in step with its        *)
(* assignment, and from that the two promises made to the user: one        *)
(* authority per task, and no attempt without the approval it needs.       *)
(*                                                                         *)
(* Then, that tasks, attempts and assignments agree, so that completed     *)
(* work was earned, what is settled stays settled, a pending stop freezes  *)
(* what it is about, the outcome of an effect can always be recorded, and  *)
(* workers' places are neither leaked nor oversubscribed.                  *)
(*                                                                         *)
(* The first part gives the ledger each operation builds field by field.   *)
(***************************************************************************)
EXTENDS WorkLedger, FiniteSetTheorems, TLAPS

AsgStatus == {"absent", "approved", "dispatched", "completed", "rejected", "reassigned"}

\* A record with these fields, each of its type, is a ledger.
LEMMA LedgerShape ==
  ASSUME NEW r \in Nat,
         NEW o \in {"active", "completed", "failed"},
         NEW p \in {"active", "completed"},
         NEW T \in [Tasks -> TaskStatus],
         NEW A \in [AsgIds -> Assignment],
         NEW D \in [DspIds -> Dispatch]
  PROVE  [revision |-> r, objective |-> o, plan |-> p, task |-> T, asg |-> A, dsp |-> D]
           \in Ledger
  BY DEF Ledger

\* The fields of a ledger have their types.
LEMMA LedgerFields ==
  ASSUME NEW L \in Ledger
  PROVE  /\ L.revision \in Nat
         /\ L.revision + 1 \in Nat
         /\ L.objective \in {"active", "completed", "failed"}
         /\ L.plan \in {"active", "completed"}
         /\ L.task \in [Tasks -> TaskStatus]
         /\ L.asg \in [AsgIds -> Assignment]
         /\ L.dsp \in [DspIds -> Dispatch]
  BY DEF Ledger

\* An attempt is named by its assignment and its number.
LEMMA DspIdParts ==
  ASSUME NEW d \in DspIds
  PROVE  d[1] \in AsgIds /\ d[2] \in Attempts /\ d = <<d[1], d[2]>>
  BY DEF DspIds

\* assignReadyBarkosTask and reassignStoppedBarkosTask create well-typed assignments.
LEMMA NewAssignmentType ==
  ASSUME NEW t \in Tasks \cup {None}, NEW w \in Workers
  PROVE  NewAssignment(t, w) \in Assignment
  BY DEF NewAssignment, Assignment

\* The task of an attempt is that of its assignment.
LEMMA TaskOfType ==
  ASSUME NEW L \in Ledger, NEW d \in DspIds
  PROVE  TaskOf(L, d) \in Tasks \cup {None}
  BY LedgerFields, DspIdParts DEF TaskOf, Assignment

\* Setting one task's status keeps the type of the task map.
LEMMA SetTask ==
  ASSUME NEW T \in [Tasks -> TaskStatus], NEW t, NEW s \in TaskStatus
  PROVE  [T EXCEPT ![t] = s] \in [Tasks -> TaskStatus]
  OBVIOUS

\* Setting one assignment's status keeps the type of the assignment map.
LEMMA SetAssignmentStatus ==
  ASSUME NEW A \in [AsgIds -> Assignment], NEW a, NEW s \in AsgStatus
  PROVE  [A EXCEPT ![a].status = s] \in [AsgIds -> Assignment]
  BY DEF Assignment, AsgStatus

\* Setting one attempt's state keeps the type of the attempt map.
LEMMA SetDispatchState ==
  ASSUME NEW D \in [DspIds -> Dispatch], NEW d,
         NEW s \in {"absent", "prepared", "running", "succeeded", "failed", "cancelled"}
  PROVE  [D EXCEPT ![d].state = s] \in [DspIds -> Dispatch]
  BY DEF Dispatch

\* So does recording its evidence.
LEMMA SetEvidence ==
  ASSUME NEW D \in [DspIds -> Dispatch], NEW d,
         NEW s \in {"none", "submitted", "accepted", "rejected"}
  PROVE  [D EXCEPT ![d].evidence = s] \in [DspIds -> Dispatch]
  BY DEF Dispatch

-----------------------------------------------------------------------------
(* The ledger each operation builds.                                        *)

\* Assign writes one assignment.
LEMMA AssignFields ==
  ASSUME NEW L \in Ledger, NEW t, NEW w, NEW a, NEW N, N = Assign(L, t, w, a)
  PROVE  N = [revision |-> L.revision + 1, objective |-> L.objective, plan |-> L.plan,
              task |-> L.task,
              asg  |-> [L.asg EXCEPT ![a] = NewAssignment(t, w)],
              dsp  |-> L.dsp]
  BY DEF Assign, Ledger

\* DecideGate writes the gate of one assignment, and its status on a rejection.
LEMMA DecideGateFields ==
  ASSUME NEW L \in Ledger, NEW a, NEW c, NEW N, N = DecideGate(L, a, c)
  PROVE  N = [revision |-> L.revision + 1, objective |-> L.objective, plan |-> L.plan,
              task |-> L.task,
              asg  |-> [L.asg EXCEPT
                          ![a].gate = c,
                          ![a].status = IF c = "rejected" THEN "rejected" ELSE @],
              dsp  |-> L.dsp]
  BY DEF DecideGate, Ledger

\* Reassign retires one assignment, adds another and readies their task.
LEMMA ReassignFields ==
  ASSUME NEW L \in Ledger, NEW d, NEW w, NEW a, NEW N, N = Reassign(L, d, w, a)
  PROVE  N = [revision |-> L.revision + 1, objective |-> L.objective, plan |-> L.plan,
              task |-> [L.task EXCEPT ![TaskOf(L, d)] = "ready"],
              asg  |-> [L.asg EXCEPT ![d[1]].status = "reassigned",
                                     ![a] = NewAssignment(TaskOf(L, d), w)],
              dsp  |-> L.dsp]
  BY DEF Reassign, Ledger

\* Prepare writes the state of one attempt.
LEMMA PrepareFields ==
  ASSUME NEW L \in Ledger, NEW d, NEW N, N = Prepare(L, d)
  PROVE  N = [revision |-> L.revision + 1, objective |-> L.objective, plan |-> L.plan,
              task |-> L.task,
              asg  |-> L.asg,
              dsp  |-> [L.dsp EXCEPT ![d].state = "prepared"]]
  BY DEF Prepare, Ledger

\* FailPrepared writes the state of one attempt.
LEMMA FailPreparedFields ==
  ASSUME NEW L \in Ledger, NEW d, NEW N, N = FailPrepared(L, d)
  PROVE  N = [revision |-> L.revision + 1, objective |-> L.objective, plan |-> L.plan,
              task |-> L.task,
              asg  |-> L.asg,
              dsp  |-> [L.dsp EXCEPT ![d].state = "failed"]]
  BY DEF FailPrepared, Ledger

\* Commit moves the attempt, its assignment and its task together.
LEMMA CommitFields ==
  ASSUME NEW L \in Ledger, NEW d, NEW N, N = Commit(L, d)
  PROVE  N = [revision |-> L.revision + 1, objective |-> L.objective, plan |-> L.plan,
              task |-> [L.task EXCEPT ![TaskOf(L, d)] = "running"],
              asg  |-> [L.asg EXCEPT ![d[1]].status = "dispatched"],
              dsp  |-> [L.dsp EXCEPT ![d].state = "running"]]
  BY DEF Commit, Ledger

\* SetStop writes the stop of one attempt.
LEMMA SetStopFields ==
  ASSUME NEW L \in Ledger, NEW d, NEW s, NEW N, N = SetStop(L, d, s)
  PROVE  N = [revision |-> L.revision + 1, objective |-> L.objective, plan |-> L.plan,
              task |-> L.task,
              asg  |-> L.asg,
              dsp  |-> [L.dsp EXCEPT ![d].stop = s]]
  BY DEF SetStop, Ledger

\* CompleteStop settles the attempt, its assignment and its task together.
LEMMA CompleteStopFields ==
  ASSUME NEW L \in Ledger, NEW d, NEW N, N = CompleteStop(L, d)
  PROVE  N = [revision |-> L.revision + 1, objective |-> L.objective, plan |-> L.plan,
              task |-> [L.task EXCEPT ![TaskOf(L, d)] = "cancelled"],
              asg  |-> [L.asg EXCEPT ![d[1]].status = "rejected"],
              dsp  |-> [L.dsp EXCEPT ![d].state = "cancelled", ![d].stop = "completed"]]
  BY DEF CompleteStop, Ledger

\* Submit settles the attempt, records its evidence and moves its task to review.
LEMMA SubmitFields ==
  ASSUME NEW L \in Ledger, NEW d, NEW N, N = Submit(L, d)
  PROVE  N = [revision |-> L.revision + 1, objective |-> L.objective, plan |-> L.plan,
              task |-> [L.task EXCEPT ![TaskOf(L, d)] = "review"],
              asg  |-> L.asg,
              dsp  |-> [L.dsp EXCEPT ![d].state = "succeeded", ![d].evidence = "submitted"]]
  BY DEF Submit, Ledger

\* Accept completes the assignment and its task, which may ready other tasks and
\* close the objective.
LEMMA AcceptFields ==
  ASSUME NEW L \in Ledger, NEW d, NEW N, N = Accept(L, d)
  PROVE  \E o \in {"active", "completed", "failed"}, p \in {"active", "completed"} :
           N = [revision |-> L.revision + 1, objective |-> o, plan |-> p,
                task |-> CompleteAndUnlock(L.task, TaskOf(L, d)),
                asg  |-> [L.asg EXCEPT ![d[1]].status = "completed"],
                dsp  |-> [L.dsp EXCEPT ![d].evidence = "accepted"]]
<1> DEFINE T == CompleteAndUnlock(L.task, TaskOf(L, d))
           closed == \A t \in Tasks : T[t] = "completed"
<1> HIDE DEF T, closed
<1>1. N = [L EXCEPT !.revision = @ + 1,
                    !.objective = IF closed THEN "completed" ELSE @,
                    !.plan = IF closed THEN "completed" ELSE @,
                    !.task = T,
                    !.asg[d[1]].status = "completed",
                    !.dsp[d].evidence = "accepted"]
  BY DEF Accept, T, closed
<1>2. N = [revision |-> L.revision + 1,
           objective |-> IF closed THEN "completed" ELSE L.objective,
           plan |-> IF closed THEN "completed" ELSE L.plan,
           task |-> T,
           asg  |-> [L.asg EXCEPT ![d[1]].status = "completed"],
           dsp  |-> [L.dsp EXCEPT ![d].evidence = "accepted"]]
  BY <1>1 DEF Ledger
<1>3. /\ (IF closed THEN "completed" ELSE L.objective) \in {"active", "completed", "failed"}
      /\ (IF closed THEN "completed" ELSE L.plan) \in {"active", "completed"}
  BY LedgerFields
<1> QED
  BY <1>2, <1>3 DEF T

\* Reject returns the task to the queue and rejects the assignment and the evidence.
LEMMA RejectFields ==
  ASSUME NEW L \in Ledger, NEW d, NEW N, N = Reject(L, d)
  PROVE  N = [revision |-> L.revision + 1, objective |-> "active", plan |-> L.plan,
              task |-> [L.task EXCEPT ![TaskOf(L, d)] = "ready"],
              asg  |-> [L.asg EXCEPT ![d[1]].status = "rejected"],
              dsp  |-> [L.dsp EXCEPT ![d].evidence = "rejected"]]
  BY DEF Reject, Ledger

\* FailDispatch fails the attempt, its task and the objective and rejects the assignment.
LEMMA FailDispatchFields ==
  ASSUME NEW L \in Ledger, NEW d, NEW N, N = FailDispatch(L, d)
  PROVE  N = [revision |-> L.revision + 1, objective |-> "failed", plan |-> L.plan,
              task |-> [L.task EXCEPT ![TaskOf(L, d)] = "failed"],
              asg  |-> [L.asg EXCEPT ![d[1]].status = "rejected"],
              dsp  |-> [L.dsp EXCEPT ![d].state = "failed"]]
  BY DEF FailDispatch, Ledger

-----------------------------------------------------------------------------
(* Every operation builds a ledger.                                         *)

\* The materialised plan is a ledger.
LEMMA MaterializedType == Materialized \in Ledger
  BY DEF Materialized, Ledger, NoAssignment, NoDispatch, Assignment, Dispatch, TaskStatus

\* Assign turns a ledger into a ledger.
LEMMA AssignType ==
  ASSUME NEW L \in Ledger, NEW t \in Tasks, NEW w \in Workers, NEW a \in AsgIds
  PROVE  Assign(L, t, w, a) \in Ledger
<1>1. [L.asg EXCEPT ![a] = NewAssignment(t, w)] \in [AsgIds -> Assignment]
  BY NewAssignmentType, LedgerFields
<1> QED
  BY <1>1, AssignFields, LedgerFields, LedgerShape

\* DecideGate turns a ledger into a ledger.
LEMMA DecideGateType ==
  ASSUME NEW L \in Ledger, NEW a \in AsgIds, NEW c \in {"approved", "rejected"}
  PROVE  DecideGate(L, a, c) \in Ledger
<1> DEFINE A == [L.asg EXCEPT ![a].gate = c,
                              ![a].status = IF c = "rejected" THEN "rejected" ELSE @]
<1>1. A \in [AsgIds -> Assignment]
  BY LedgerFields DEF Assignment
<1> HIDE DEF A
<1>2. DecideGate(L, a, c) =
        [revision |-> L.revision + 1, objective |-> L.objective, plan |-> L.plan,
         task |-> L.task, asg |-> A, dsp |-> L.dsp]
  BY DecideGateFields DEF A
<1> QED
  BY <1>1, <1>2, LedgerFields, LedgerShape

\* Reassign turns a ledger into a ledger.
LEMMA ReassignType ==
  ASSUME NEW L \in Ledger, NEW d \in DspIds, NEW w \in Workers, NEW a \in AsgIds
  PROVE  Reassign(L, d, w, a) \in Ledger
<1> DEFINE T == [L.task EXCEPT ![TaskOf(L, d)] = "ready"]
           R == [L.asg EXCEPT ![d[1]].status = "reassigned"]
           A == [R EXCEPT ![a] = NewAssignment(TaskOf(L, d), w)]
<1>1. T \in [Tasks -> TaskStatus]
  BY LedgerFields, SetTask DEF TaskStatus
<1>2. R \in [AsgIds -> Assignment]
  BY LedgerFields, SetAssignmentStatus DEF AsgStatus
<1>3. A \in [AsgIds -> Assignment]
  BY <1>2, TaskOfType, NewAssignmentType
<1>4. Reassign(L, d, w, a) =
        [revision |-> L.revision + 1, objective |-> L.objective, plan |-> L.plan,
         task |-> T, asg |-> A, dsp |-> L.dsp]
  BY ReassignFields
<1> HIDE DEF T, R, A
<1> QED
  BY <1>1, <1>3, <1>4, LedgerFields, LedgerShape

\* Prepare turns a ledger into a ledger.
LEMMA PrepareType ==
  ASSUME NEW L \in Ledger, NEW d \in DspIds
  PROVE  Prepare(L, d) \in Ledger
<1> DEFINE D == [L.dsp EXCEPT ![d].state = "prepared"]
<1>1. D \in [DspIds -> Dispatch]
  BY LedgerFields, SetDispatchState
<1>2. Prepare(L, d) =
        [revision |-> L.revision + 1, objective |-> L.objective, plan |-> L.plan,
         task |-> L.task, asg |-> L.asg, dsp |-> D]
  BY PrepareFields
<1> HIDE DEF D
<1> QED
  BY <1>1, <1>2, LedgerFields, LedgerShape

\* FailPrepared turns a ledger into a ledger.
LEMMA FailPreparedType ==
  ASSUME NEW L \in Ledger, NEW d \in DspIds
  PROVE  FailPrepared(L, d) \in Ledger
<1> DEFINE D == [L.dsp EXCEPT ![d].state = "failed"]
<1>1. D \in [DspIds -> Dispatch]
  BY LedgerFields, SetDispatchState
<1>2. FailPrepared(L, d) =
        [revision |-> L.revision + 1, objective |-> L.objective, plan |-> L.plan,
         task |-> L.task, asg |-> L.asg, dsp |-> D]
  BY FailPreparedFields
<1> HIDE DEF D
<1> QED
  BY <1>1, <1>2, LedgerFields, LedgerShape

\* Commit turns a ledger into a ledger.
LEMMA CommitType ==
  ASSUME NEW L \in Ledger, NEW d \in DspIds
  PROVE  Commit(L, d) \in Ledger
<1> DEFINE T == [L.task EXCEPT ![TaskOf(L, d)] = "running"]
           A == [L.asg EXCEPT ![d[1]].status = "dispatched"]
           D == [L.dsp EXCEPT ![d].state = "running"]
<1>1. T \in [Tasks -> TaskStatus]
  BY LedgerFields, SetTask DEF TaskStatus
<1>2. A \in [AsgIds -> Assignment]
  BY LedgerFields, SetAssignmentStatus DEF AsgStatus
<1>3. D \in [DspIds -> Dispatch]
  BY LedgerFields, SetDispatchState
<1>4. Commit(L, d) =
        [revision |-> L.revision + 1, objective |-> L.objective, plan |-> L.plan,
         task |-> T, asg |-> A, dsp |-> D]
  BY CommitFields
<1> HIDE DEF T, A, D
<1> QED
  BY <1>1, <1>2, <1>3, <1>4, LedgerFields, LedgerShape

\* SetStop turns a ledger into a ledger.
LEMMA SetStopType ==
  ASSUME NEW L \in Ledger, NEW d \in DspIds, NEW s \in PendingStop
  PROVE  SetStop(L, d, s) \in Ledger
<1>1. [L.dsp EXCEPT ![d].stop = s] \in [DspIds -> Dispatch]
  BY LedgerFields DEF Dispatch, PendingStop
<1> QED
  BY <1>1, SetStopFields, LedgerFields, LedgerShape

\* CompleteStop turns a ledger into a ledger.
LEMMA CompleteStopType ==
  ASSUME NEW L \in Ledger, NEW d \in DspIds
  PROVE  CompleteStop(L, d) \in Ledger
<1> DEFINE T == [L.task EXCEPT ![TaskOf(L, d)] = "cancelled"]
           A == [L.asg EXCEPT ![d[1]].status = "rejected"]
           D == [L.dsp EXCEPT ![d].state = "cancelled", ![d].stop = "completed"]
<1>1. T \in [Tasks -> TaskStatus]
  BY LedgerFields, SetTask DEF TaskStatus
<1>2. A \in [AsgIds -> Assignment]
  BY LedgerFields, SetAssignmentStatus DEF AsgStatus
<1>3. D \in [DspIds -> Dispatch]
  BY LedgerFields DEF Dispatch
<1>4. CompleteStop(L, d) =
        [revision |-> L.revision + 1, objective |-> L.objective, plan |-> L.plan,
         task |-> T, asg |-> A, dsp |-> D]
  BY CompleteStopFields
<1> HIDE DEF T, A, D
<1> QED
  BY <1>1, <1>2, <1>3, <1>4, LedgerFields, LedgerShape

\* Submit turns a ledger into a ledger.
LEMMA SubmitType ==
  ASSUME NEW L \in Ledger, NEW d \in DspIds
  PROVE  Submit(L, d) \in Ledger
<1> DEFINE T == [L.task EXCEPT ![TaskOf(L, d)] = "review"]
           D == [L.dsp EXCEPT ![d].state = "succeeded", ![d].evidence = "submitted"]
<1>1. T \in [Tasks -> TaskStatus]
  BY LedgerFields, SetTask DEF TaskStatus
<1>2. D \in [DspIds -> Dispatch]
  BY LedgerFields DEF Dispatch
<1>3. Submit(L, d) =
        [revision |-> L.revision + 1, objective |-> L.objective, plan |-> L.plan,
         task |-> T, asg |-> L.asg, dsp |-> D]
  BY SubmitFields
<1> HIDE DEF T, D
<1> QED
  BY <1>1, <1>2, <1>3, LedgerFields, LedgerShape

\* Accept turns a ledger into a ledger.
LEMMA AcceptType ==
  ASSUME NEW L \in Ledger, NEW d \in DspIds
  PROVE  Accept(L, d) \in Ledger
<1> DEFINE done == [L.task EXCEPT ![TaskOf(L, d)] = "completed"]
           T == CompleteAndUnlock(L.task, TaskOf(L, d))
           A == [L.asg EXCEPT ![d[1]].status = "completed"]
           D == [L.dsp EXCEPT ![d].evidence = "accepted"]
<1>1. done \in [Tasks -> TaskStatus]
  BY LedgerFields, SetTask DEF TaskStatus
<1>2. T = [u \in Tasks |->
             IF done[u] = "blocked" /\ \A v \in Deps[u] : done[v] = "completed"
             THEN "ready" ELSE done[u]]
  BY DEF CompleteAndUnlock
<1>3. A \in [AsgIds -> Assignment]
  BY LedgerFields, SetAssignmentStatus DEF AsgStatus
<1>4. D \in [DspIds -> Dispatch]
  BY LedgerFields, SetEvidence
<1>5. PICK o \in {"active", "completed", "failed"}, p \in {"active", "completed"} :
        Accept(L, d) = [revision |-> L.revision + 1, objective |-> o, plan |-> p,
                        task |-> T, asg |-> A, dsp |-> D]
  BY AcceptFields
<1> HIDE DEF done, T, A, D
<1>6. T \in [Tasks -> TaskStatus]
  BY <1>1, <1>2 DEF TaskStatus
<1> QED
  BY <1>3, <1>4, <1>5, <1>6, LedgerFields, LedgerShape

\* Reject turns a ledger into a ledger.
LEMMA RejectType ==
  ASSUME NEW L \in Ledger, NEW d \in DspIds
  PROVE  Reject(L, d) \in Ledger
<1> DEFINE T == [L.task EXCEPT ![TaskOf(L, d)] = "ready"]
           A == [L.asg EXCEPT ![d[1]].status = "rejected"]
           D == [L.dsp EXCEPT ![d].evidence = "rejected"]
<1>1. T \in [Tasks -> TaskStatus]
  BY LedgerFields, SetTask DEF TaskStatus
<1>2. A \in [AsgIds -> Assignment]
  BY LedgerFields, SetAssignmentStatus DEF AsgStatus
<1>3. D \in [DspIds -> Dispatch]
  BY LedgerFields, SetEvidence
<1>4. Reject(L, d) =
        [revision |-> L.revision + 1, objective |-> "active", plan |-> L.plan,
         task |-> T, asg |-> A, dsp |-> D]
  BY RejectFields
<1> HIDE DEF T, A, D
<1> QED
  BY <1>1, <1>2, <1>3, <1>4, LedgerFields, LedgerShape

\* FailDispatch turns a ledger into a ledger.
LEMMA FailDispatchType ==
  ASSUME NEW L \in Ledger, NEW d \in DspIds
  PROVE  FailDispatch(L, d) \in Ledger
<1> DEFINE T == [L.task EXCEPT ![TaskOf(L, d)] = "failed"]
           A == [L.asg EXCEPT ![d[1]].status = "rejected"]
           D == [L.dsp EXCEPT ![d].state = "failed"]
<1>1. T \in [Tasks -> TaskStatus]
  BY LedgerFields, SetTask DEF TaskStatus
<1>2. A \in [AsgIds -> Assignment]
  BY LedgerFields, SetAssignmentStatus DEF AsgStatus
<1>3. D \in [DspIds -> Dispatch]
  BY LedgerFields, SetDispatchState
<1>4. FailDispatch(L, d) =
        [revision |-> L.revision + 1, objective |-> "failed", plan |-> L.plan,
         task |-> T, asg |-> A, dsp |-> D]
  BY FailDispatchFields
<1> HIDE DEF T, A, D
<1> QED
  BY <1>1, <1>2, <1>3, <1>4, LedgerFields, LedgerShape

\* ReportAccepted turns a ledger into a ledger.
LEMMA ReportAcceptedType ==
  ASSUME NEW L \in Ledger, NEW d \in DspIds
  PROVE  ReportAccepted(L, d) \in Ledger
<1>1. Accept(Submit(L, d), d) \in Ledger
  BY SubmitType, AcceptType
<1> DEFINE M == Accept(Submit(L, d), d)
<1> HIDE DEF M
<1>2. M \in Ledger
  BY <1>1 DEF M
<1>3. [M EXCEPT !.revision = L.revision + 1] \in Ledger
  BY <1>2, LedgerFields DEF Ledger
<1> QED
  BY <1>3 DEF ReportAccepted, M

\* Every step of the specification keeps the ledger well-typed.
LEMMA NextType == TypeOK /\ [Next]_ledger => TypeOK'
<1> SUFFICES ASSUME TypeOK, [Next]_ledger PROVE TypeOK'
  OBVIOUS
<1> USE DEF TypeOK, Advance
<1>1. CASE UNCHANGED ledger
  BY <1>1
<1>2. CASE AssignReadyTask
  BY <1>2, AssignType DEF AssignReadyTask
<1>3. CASE DecideDispatchGate
  BY <1>3, DecideGateType DEF DecideDispatchGate
<1>4. CASE ReassignStoppedTask
  BY <1>4, ReassignType DEF ReassignStoppedTask
<1>5. CASE PrepareDispatch
  BY <1>5, PrepareType DEF PrepareDispatch
<1>6. CASE SettlePrepared
  BY <1>6, CommitType, FailPreparedType DEF SettlePrepared
<1>7. CASE RequestStop
  BY <1>7, SetStopType DEF RequestStop, PendingStop
<1>8. CASE SettleStop
  BY <1>8, SetStopType, CompleteStopType DEF SettleStop, PendingStop
<1>9. CASE SubmitEvidence
  BY <1>9, SubmitType DEF SubmitEvidence
<1>10. CASE ReviewEvidence
  BY <1>10, AcceptType, RejectType DEF ReviewEvidence
<1>11. CASE ReconcileReport
  BY <1>11, FailDispatchType, SubmitType, ReportAcceptedType DEF ReconcileReport
<1> QED
  BY <1>1, <1>2, <1>3, <1>4, <1>5, <1>6, <1>7, <1>8, <1>9, <1>10, <1>11 DEF Next

\* Every ledger the code can build from a materialised plan has the types the
\* schema of work-ledger.ts gives its records, whatever the plan and its size.
THEOREM TypeCorrect == Spec => []TypeOK
<1>1. Init => TypeOK
  BY MaterializedType DEF Init, TypeOK
<1> QED
  BY <1>1, NextType, PTL DEF Spec

-----------------------------------------------------------------------------
(* An attempt moves in step with its assignment.  Lifecycle alone is not     *)
(* inductive: that an attempt with evidence has succeeded, and that one      *)
(* whose stop is pending runs, are rules of the schema, which every ledger   *)
(* written has passed.                                                       *)

Inv == TypeOK /\ Valid(ledger) /\ Lifecycle(ledger)

\* The operations that settle an attempt or move it on change that attempt and
\* the status of its assignment, and nothing else of the lifecycle.
LEMMA AdvanceAttempt ==
  ASSUME NEW L \in Ledger, NEW N \in Ledger, NEW d \in DspIds,
         Lifecycle(L), Live(L, d),
         \A e \in DspIds : e # d => N.dsp[e] = L.dsp[e],
         \A a \in AsgIds : a # d[1] => N.asg[a] = L.asg[a],
         N.asg[d[1]].task = L.asg[d[1]].task,
         N.asg[d[1]].gate = L.asg[d[1]].gate,
         N.asg[d[1]].status # "absent",
         L.dsp[d].state # "absent",
         N.dsp[d].state # "prepared",
         N.dsp[d].state = "running" => N.asg[d[1]].status = "dispatched",
         N.dsp[d].evidence = "submitted" => N.asg[d[1]].status = "dispatched"
  PROVE  Lifecycle(N)
<1>1. NoAttemptBeforeAssignment(N)
  BY DspIdParts DEF Lifecycle, NoAttemptBeforeAssignment
<1>2. AttemptMatchesAssignment(N)
  <2> SUFFICES ASSUME NEW e \in DspIds
               PROVE  /\ N.dsp[e].state = "prepared" => N.asg[e[1]].status = "approved"
                      /\ N.dsp[e].state = "running" => N.asg[e[1]].status = "dispatched"
                      /\ N.dsp[e].evidence = "submitted" => N.asg[e[1]].status = "dispatched"
    BY DEF AttemptMatchesAssignment
  <2>1. CASE e = d
    BY <2>1
  <2>2. CASE e # d /\ e[1] = d[1]
    <3>1. ~Live(L, e)
      BY <2>2 DEF Lifecycle, OneLiveAttempt
    <3> QED
      BY <2>2, <3>1 DEF Live, Unsettled
  <2>3. CASE e[1] # d[1]
    BY <2>3, DspIdParts DEF Lifecycle, AttemptMatchesAssignment
  <2> QED
    BY <2>1, <2>2, <2>3
<1>3. OneLiveAttempt(N)
  <2>1. \A e \in DspIds : e # d => (Live(N, e) <=> Live(L, e))
    BY DEF Live
  <2> QED
    BY <2>1 DEF Lifecycle, OneLiveAttempt
<1>4. AttemptAfterApproval(N)
  <2>1. \A a \in AsgIds : N.asg[a].task = L.asg[a].task /\ N.asg[a].gate = L.asg[a].gate
    OBVIOUS
  <2>2. \A e \in DspIds : N.dsp[e].state # "absent" => L.dsp[e].state # "absent"
    OBVIOUS
  <2> QED
    BY <2>1, <2>2, DspIdParts DEF Lifecycle, AttemptAfterApproval, TaskOf
<1> QED
  BY <1>1, <1>2, <1>3, <1>4 DEF Lifecycle

\* An attempt in flight has no evidence yet, one that waits for review succeeded.
LEMMA EvidenceNeedsSuccess ==
  ASSUME NEW L \in Ledger, NEW d \in DspIds, Valid(L)
  PROVE  /\ L.dsp[d].state # "succeeded" => L.dsp[d].evidence = "none"
         /\ L.dsp[d].stop \in PendingStop => L.dsp[d].state = "running"
  BY DEF Valid, ValidEvidence, ValidStops

\* Each assignment and each attempt of a ledger is a record of its type.
LEMMA LedgerRecords ==
  ASSUME NEW L \in Ledger
  PROVE  /\ \A a \in AsgIds : L.asg[a] \in Assignment
         /\ \A d \in DspIds : L.dsp[d] \in Dispatch
  BY LedgerFields

\* A new assignment has no attempts: its id was not in use.
LEMMA AssignLifecycle ==
  ASSUME NEW L \in Ledger, Valid(L), Lifecycle(L),
         NEW t \in Tasks, NEW w \in Workers, NEW a \in AsgIds, CanAssign(L, t, w, a)
  PROVE  Lifecycle(Assign(L, t, w, a))
<1> DEFINE N == Assign(L, t, w, a)
<1>1. N.dsp = L.dsp /\ N.asg = [L.asg EXCEPT ![a] = NewAssignment(t, w)]
  BY AssignFields
<1>2. \A b \in AsgIds : b # a => N.asg[b] = L.asg[b]
  BY <1>1, LedgerFields
<1>3. N.asg[a] = NewAssignment(t, w)
  BY <1>1, LedgerFields
<1>4. \A d \in DspIds : d[1] = a => L.dsp[d].state = "absent" /\ L.dsp[d].evidence = "none"
  BY EvidenceNeedsSuccess DEF CanAssign, NextAssignmentId, Lifecycle, NoAttemptBeforeAssignment
<1> HIDE DEF N
<1>5. NoAttemptBeforeAssignment(N)
  BY <1>1, <1>2, <1>4, DspIdParts DEF Lifecycle, NoAttemptBeforeAssignment
<1>6. AttemptMatchesAssignment(N)
  BY <1>1, <1>2, <1>4, DspIdParts DEF Lifecycle, AttemptMatchesAssignment
<1>7. OneLiveAttempt(N)
  BY <1>1 DEF Lifecycle, OneLiveAttempt, Live
<1>8. AttemptAfterApproval(N)
  BY <1>1, <1>2, <1>3, <1>4, DspIdParts
  DEF Lifecycle, AttemptAfterApproval, TaskOf, NewAssignment
<1> QED
  BY <1>5, <1>6, <1>7, <1>8 DEF Lifecycle, N

\* No attempt was made behind a gate that is still pending.
LEMMA DecideGateLifecycle ==
  ASSUME NEW L \in Ledger, Valid(L), Lifecycle(L),
         NEW a \in AsgIds, NEW c \in {"approved", "rejected"}, CanDecideGate(L, a)
  PROVE  Lifecycle(DecideGate(L, a, c))
<1> DEFINE N == DecideGate(L, a, c)
<1>1. /\ N.dsp = L.dsp
      /\ N.asg = [L.asg EXCEPT
                    ![a].gate = c,
                    ![a].status = IF c = "rejected" THEN "rejected" ELSE @]
  BY DecideGateFields
<1>2. \A b \in AsgIds : b # a => N.asg[b] = L.asg[b]
  BY <1>1, LedgerFields
<1>3. /\ N.asg[a].task = L.asg[a].task
      /\ N.asg[a].gate = c
      /\ N.asg[a].status # "absent"
  BY <1>1, LedgerFields DEF CanDecideGate, Assignment
<1>4. NeedsApproval(L.asg[a].task)
  BY DEF CanDecideGate, Lifecycle, AttemptAfterApproval
<1>5. \A d \in DspIds : d[1] = a => L.dsp[d].state = "absent" /\ L.dsp[d].evidence = "none"
  BY <1>4, EvidenceNeedsSuccess DEF CanDecideGate, Lifecycle, AttemptAfterApproval, TaskOf
<1> HIDE DEF N
<1>6. NoAttemptBeforeAssignment(N)
  BY <1>1, <1>2, <1>5, DspIdParts DEF Lifecycle, NoAttemptBeforeAssignment
<1>7. AttemptMatchesAssignment(N)
  BY <1>1, <1>2, <1>5, DspIdParts DEF Lifecycle, AttemptMatchesAssignment
<1>8. OneLiveAttempt(N)
  BY <1>1 DEF Lifecycle, OneLiveAttempt, Live
<1>9. AttemptAfterApproval(N)
  BY <1>1, <1>2, <1>3, <1>4, <1>5, DspIdParts DEF Lifecycle, AttemptAfterApproval, TaskOf
<1> QED
  BY <1>6, <1>7, <1>8, <1>9 DEF Lifecycle, N

\* The attempts of the stopped assignment are over, the new one has none.
LEMMA ReassignLifecycle ==
  ASSUME NEW L \in Ledger, Valid(L), Lifecycle(L),
         NEW d \in DspIds, NEW w \in Workers, NEW a \in AsgIds, CanReassign(L, d, w, a)
  PROVE  Lifecycle(Reassign(L, d, w, a))
<1> DEFINE N == Reassign(L, d, w, a)
<1>1. /\ N.dsp = L.dsp
      /\ N.asg = [L.asg EXCEPT ![d[1]].status = "reassigned",
                               ![a] = NewAssignment(TaskOf(L, d), w)]
  BY ReassignFields
<1>2. d[1] \in AsgIds /\ d[1] # a /\ L.asg[d[1]].status = "rejected"
  BY DspIdParts DEF CanReassign, NextAssignmentId
<1>3. \A b \in AsgIds : b # a /\ b # d[1] => N.asg[b] = L.asg[b]
  BY <1>1, <1>2, LedgerFields
<1>4. N.asg[a] = NewAssignment(TaskOf(L, d), w)
  BY <1>1, <1>2, LedgerFields
<1>5. /\ N.asg[d[1]].status = "reassigned"
      /\ N.asg[d[1]].task = L.asg[d[1]].task
      /\ N.asg[d[1]].gate = L.asg[d[1]].gate
  BY <1>1, <1>2, LedgerFields DEF Assignment
<1>6. \A e \in DspIds : e[1] = a => L.dsp[e].state = "absent" /\ L.dsp[e].evidence = "none"
  BY EvidenceNeedsSuccess DEF CanReassign, NextAssignmentId, Lifecycle, NoAttemptBeforeAssignment
<1>7. \A e \in DspIds : e[1] = d[1] =>
        /\ L.dsp[e].state \notin {"prepared", "running"}
        /\ L.dsp[e].evidence # "submitted"
  BY <1>2 DEF Lifecycle, AttemptMatchesAssignment
<1> HIDE DEF N
<1>8. NoAttemptBeforeAssignment(N)
  BY <1>1, <1>3, <1>5, <1>6, DspIdParts DEF Lifecycle, NoAttemptBeforeAssignment
<1>9. AttemptMatchesAssignment(N)
  BY <1>1, <1>3, <1>6, <1>7, DspIdParts DEF Lifecycle, AttemptMatchesAssignment
<1>10. OneLiveAttempt(N)
  BY <1>1 DEF Lifecycle, OneLiveAttempt, Live
<1>11. AttemptAfterApproval(N)
  <2>1. \A b \in AsgIds : N.asg[b].gate # "none" => NeedsApproval(N.asg[b].task)
    BY <1>3, <1>4, <1>5 DEF Lifecycle, AttemptAfterApproval, NewAssignment
  <2>2. ASSUME NEW e \in DspIds, N.dsp[e].state # "absent", NeedsApproval(TaskOf(N, e))
        PROVE  N.asg[e[1]].gate = "approved"
    <3>1. e[1] \in AsgIds /\ e[1] # a
      BY <1>1, <1>6, <2>2, DspIdParts
    <3>2. N.asg[e[1]].task = L.asg[e[1]].task /\ N.asg[e[1]].gate = L.asg[e[1]].gate
      BY <1>3, <1>5, <3>1
    <3>3. L.dsp[e].state # "absent" /\ NeedsApproval(TaskOf(L, e))
      BY <1>1, <2>2, <3>2 DEF TaskOf
    <3> QED
      BY <3>2, <3>3 DEF Lifecycle, AttemptAfterApproval
  <2> QED
    BY <2>1, <2>2 DEF AttemptAfterApproval
<1> QED
  BY <1>8, <1>9, <1>10, <1>11 DEF Lifecycle, N

\* The settlements of a live attempt.
LEMMA CommitLifecycle ==
  ASSUME NEW L \in Ledger, Valid(L), Lifecycle(L), NEW d \in DspIds,
         L.dsp[d].state = "prepared"
  PROVE  Lifecycle(Commit(L, d))
<1> DEFINE N == Commit(L, d)
<1>1. N \in Ledger
  BY CommitType
<1>2. /\ N.asg = [L.asg EXCEPT ![d[1]].status = "dispatched"]
      /\ N.dsp = [L.dsp EXCEPT ![d].state = "running"]
  BY CommitFields
<1>3. /\ Live(L, d)
      /\ L.dsp[d].state = "prepared"
      /\ L.dsp[d].evidence = "none"
      /\ L.asg[d[1]].status = "approved"
  BY EvidenceNeedsSuccess DEF Lifecycle, AttemptMatchesAssignment, Live, Unsettled
<1> HIDE DEF N
<1>4. /\ \A e \in DspIds : e # d => N.dsp[e] = L.dsp[e]
      /\ \A a \in AsgIds : a # d[1] => N.asg[a] = L.asg[a]
  BY <1>2, LedgerFields, DspIdParts
<1>5. /\ N.asg[d[1]].task = L.asg[d[1]].task
      /\ N.asg[d[1]].gate = L.asg[d[1]].gate
      /\ N.asg[d[1]].status = "dispatched"
  BY <1>2, <1>3, LedgerFields, DspIdParts DEF Assignment
<1>6. /\ N.dsp[d].state = "running"
      /\ N.dsp[d].evidence = "none"
  BY <1>2, <1>3, LedgerFields DEF Dispatch
<1> QED
  BY <1>1, <1>3, <1>4, <1>5, <1>6, AdvanceAttempt DEF N

\* A prepared attempt that fails leaves its approved assignment as it was.
LEMMA FailPreparedLifecycle ==
  ASSUME NEW L \in Ledger, Valid(L), Lifecycle(L), NEW d \in DspIds,
         L.dsp[d].state = "prepared"
  PROVE  Lifecycle(FailPrepared(L, d))
<1> DEFINE N == FailPrepared(L, d)
<1>1. N \in Ledger
  BY FailPreparedType
<1>2. /\ N.asg = L.asg
      /\ N.dsp = [L.dsp EXCEPT ![d].state = "failed"]
  <2> HIDE DEF N
  <2>1. N = [revision |-> L.revision + 1, objective |-> L.objective, plan |-> L.plan,
             task |-> L.task, asg |-> L.asg, dsp |-> [L.dsp EXCEPT ![d].state = "failed"]]
    BY FailPreparedFields DEF N
  <2> QED
    BY <2>1
<1>3. /\ Live(L, d)
      /\ L.dsp[d].state = "prepared"
      /\ L.dsp[d].evidence = "none"
      /\ L.asg[d[1]].status = "approved"
  BY EvidenceNeedsSuccess DEF Lifecycle, AttemptMatchesAssignment, Live, Unsettled
<1> HIDE DEF N
<1>4. /\ \A e \in DspIds : e # d => N.dsp[e] = L.dsp[e]
      /\ \A a \in AsgIds : a # d[1] => N.asg[a] = L.asg[a]
  BY <1>2, LedgerFields, DspIdParts
<1>5. /\ N.asg[d[1]].task = L.asg[d[1]].task
      /\ N.asg[d[1]].gate = L.asg[d[1]].gate
      /\ N.asg[d[1]].status = "approved"
  BY <1>2, <1>3, LedgerFields, DspIdParts DEF Assignment
<1>6. /\ N.dsp[d].state = "failed"
      /\ N.dsp[d].evidence = "none"
  BY <1>2, <1>3, LedgerFields DEF Dispatch
<1> QED
  BY <1>1, <1>3, <1>4, <1>5, <1>6, AdvanceAttempt DEF N

\* A completed stop settles the only live attempt of its assignment.
LEMMA CompleteStopLifecycle ==
  ASSUME NEW L \in Ledger, Valid(L), Lifecycle(L), NEW d \in DspIds,
         L.dsp[d].stop = "dispatch-stopped"
  PROVE  Lifecycle(CompleteStop(L, d))
<1> DEFINE N == CompleteStop(L, d)
<1>1. N \in Ledger
  BY CompleteStopType
<1>2. /\ N.asg = [L.asg EXCEPT ![d[1]].status = "rejected"]
      /\ N.dsp = [L.dsp EXCEPT ![d].state = "cancelled", ![d].stop = "completed"]
  BY CompleteStopFields
<1>3. /\ Live(L, d)
      /\ L.dsp[d].state = "running"
      /\ L.dsp[d].evidence = "none"
      /\ L.asg[d[1]].status = "dispatched"
  BY EvidenceNeedsSuccess DEF Lifecycle, AttemptMatchesAssignment, Live, Unsettled, PendingStop
<1> HIDE DEF N
<1>4. /\ \A e \in DspIds : e # d => N.dsp[e] = L.dsp[e]
      /\ \A a \in AsgIds : a # d[1] => N.asg[a] = L.asg[a]
  BY <1>2, LedgerFields, DspIdParts
<1>5. /\ N.asg[d[1]].task = L.asg[d[1]].task
      /\ N.asg[d[1]].gate = L.asg[d[1]].gate
      /\ N.asg[d[1]].status = "rejected"
  BY <1>2, <1>3, LedgerFields, DspIdParts DEF Assignment
<1>6. /\ N.dsp[d].state = "cancelled"
      /\ N.dsp[d].evidence = "none"
  BY <1>2, <1>3, LedgerFields DEF Dispatch
<1> QED
  BY <1>1, <1>3, <1>4, <1>5, <1>6, AdvanceAttempt DEF N

\* A submitted attempt stays the only live one, its assignment dispatched.
LEMMA SubmitLifecycle ==
  ASSUME NEW L \in Ledger, Valid(L), Lifecycle(L), NEW d \in DspIds,
         CanSubmit(L, d)
  PROVE  Lifecycle(Submit(L, d))
<1> DEFINE N == Submit(L, d)
<1>1. N \in Ledger
  BY SubmitType
<1>2. /\ N.asg = L.asg
      /\ N.dsp = [L.dsp EXCEPT ![d].state = "succeeded", ![d].evidence = "submitted"]
  <2> HIDE DEF N
  <2>1. N = [revision |-> L.revision + 1, objective |-> L.objective, plan |-> L.plan,
             task |-> [L.task EXCEPT ![TaskOf(L, d)] = "review"], asg |-> L.asg,
             dsp |-> [L.dsp EXCEPT ![d].state = "succeeded", ![d].evidence = "submitted"]]
    BY SubmitFields DEF N
  <2> QED
    BY <2>1
<1>3. /\ Live(L, d)
      /\ L.dsp[d].state = "running"
      /\ L.dsp[d].evidence = "none"
      /\ L.asg[d[1]].status = "dispatched"
  BY EvidenceNeedsSuccess DEF CanSubmit, Live, Unsettled
<1> HIDE DEF N
<1>4. /\ \A e \in DspIds : e # d => N.dsp[e] = L.dsp[e]
      /\ \A a \in AsgIds : a # d[1] => N.asg[a] = L.asg[a]
  BY <1>2, LedgerFields, DspIdParts
<1>5. /\ N.asg[d[1]].task = L.asg[d[1]].task
      /\ N.asg[d[1]].gate = L.asg[d[1]].gate
      /\ N.asg[d[1]].status = "dispatched"
  BY <1>2, <1>3, LedgerFields, DspIdParts DEF Assignment
<1>6. /\ N.dsp[d].state = "succeeded"
      /\ N.dsp[d].evidence = "submitted"
  BY <1>2, <1>3, LedgerFields DEF Dispatch
<1> QED
  BY <1>1, <1>3, <1>4, <1>5, <1>6, AdvanceAttempt DEF N

\* Accepted evidence ends the only live attempt of its assignment.
LEMMA AcceptLifecycle ==
  ASSUME NEW L \in Ledger, Valid(L), Lifecycle(L), NEW d \in DspIds,
         CanReview(L, d)
  PROVE  Lifecycle(Accept(L, d))
<1> DEFINE N == Accept(L, d)
<1>1. N \in Ledger
  BY AcceptType
<1>2. /\ N.asg = [L.asg EXCEPT ![d[1]].status = "completed"]
      /\ N.dsp = [L.dsp EXCEPT ![d].evidence = "accepted"]
  BY AcceptFields
<1>3. /\ Live(L, d)
      /\ L.dsp[d].state = "succeeded"
      /\ L.dsp[d].evidence = "submitted"
      /\ L.asg[d[1]].status = "dispatched"
  BY EvidenceNeedsSuccess DEF CanReview, Valid, ValidEvidence, Lifecycle,
                              AttemptMatchesAssignment, Live
<1> HIDE DEF N
<1>4. /\ \A e \in DspIds : e # d => N.dsp[e] = L.dsp[e]
      /\ \A a \in AsgIds : a # d[1] => N.asg[a] = L.asg[a]
  BY <1>2, LedgerFields, DspIdParts
<1>5. /\ N.asg[d[1]].task = L.asg[d[1]].task
      /\ N.asg[d[1]].gate = L.asg[d[1]].gate
      /\ N.asg[d[1]].status = "completed"
  BY <1>2, <1>3, LedgerFields, DspIdParts DEF Assignment
<1>6. /\ N.dsp[d].state = "succeeded"
      /\ N.dsp[d].evidence = "accepted"
  BY <1>2, <1>3, LedgerFields DEF Dispatch
<1> QED
  BY <1>1, <1>3, <1>4, <1>5, <1>6, AdvanceAttempt DEF N

\* Rejected evidence ends the only live attempt of its assignment.
LEMMA RejectLifecycle ==
  ASSUME NEW L \in Ledger, Valid(L), Lifecycle(L), NEW d \in DspIds,
         CanReview(L, d)
  PROVE  Lifecycle(Reject(L, d))
<1> DEFINE N == Reject(L, d)
<1>1. N \in Ledger
  BY RejectType
<1>2. /\ N.asg = [L.asg EXCEPT ![d[1]].status = "rejected"]
      /\ N.dsp = [L.dsp EXCEPT ![d].evidence = "rejected"]
  BY RejectFields
<1>3. /\ Live(L, d)
      /\ L.dsp[d].state = "succeeded"
      /\ L.dsp[d].evidence = "submitted"
      /\ L.asg[d[1]].status = "dispatched"
  BY EvidenceNeedsSuccess DEF CanReview, Valid, ValidEvidence, Lifecycle,
                              AttemptMatchesAssignment, Live
<1> HIDE DEF N
<1>4. /\ \A e \in DspIds : e # d => N.dsp[e] = L.dsp[e]
      /\ \A a \in AsgIds : a # d[1] => N.asg[a] = L.asg[a]
  BY <1>2, LedgerFields, DspIdParts
<1>5. /\ N.asg[d[1]].task = L.asg[d[1]].task
      /\ N.asg[d[1]].gate = L.asg[d[1]].gate
      /\ N.asg[d[1]].status = "rejected"
  BY <1>2, <1>3, LedgerFields, DspIdParts DEF Assignment
<1>6. /\ N.dsp[d].state = "succeeded"
      /\ N.dsp[d].evidence = "rejected"
  BY <1>2, <1>3, LedgerFields DEF Dispatch
<1> QED
  BY <1>1, <1>3, <1>4, <1>5, <1>6, AdvanceAttempt DEF N

\* A failed dispatch ends the only live attempt of its assignment.
LEMMA FailDispatchLifecycle ==
  ASSUME NEW L \in Ledger, Valid(L), Lifecycle(L), NEW d \in DspIds,
         L.dsp[d].state = "running"
  PROVE  Lifecycle(FailDispatch(L, d))
<1> DEFINE N == FailDispatch(L, d)
<1>1. N \in Ledger
  BY FailDispatchType
<1>2. /\ N.asg = [L.asg EXCEPT ![d[1]].status = "rejected"]
      /\ N.dsp = [L.dsp EXCEPT ![d].state = "failed"]
  BY FailDispatchFields
<1>3. /\ Live(L, d)
      /\ L.dsp[d].state = "running"
      /\ L.dsp[d].evidence = "none"
      /\ L.asg[d[1]].status = "dispatched"
  BY EvidenceNeedsSuccess DEF Lifecycle, AttemptMatchesAssignment, Live, Unsettled
<1> HIDE DEF N
<1>4. /\ \A e \in DspIds : e # d => N.dsp[e] = L.dsp[e]
      /\ \A a \in AsgIds : a # d[1] => N.asg[a] = L.asg[a]
  BY <1>2, LedgerFields, DspIdParts
<1>5. /\ N.asg[d[1]].task = L.asg[d[1]].task
      /\ N.asg[d[1]].gate = L.asg[d[1]].gate
      /\ N.asg[d[1]].status = "rejected"
  BY <1>2, <1>3, LedgerFields, DspIdParts DEF Assignment
<1>6. /\ N.dsp[d].state = "failed"
      /\ N.dsp[d].evidence = "none"
  BY <1>2, <1>3, LedgerFields DEF Dispatch
<1> QED
  BY <1>1, <1>3, <1>4, <1>5, <1>6, AdvanceAttempt DEF N

\* A report accepted on arrival is a submission and an acceptance.
LEMMA ReportAcceptedLifecycle ==
  ASSUME NEW L \in Ledger, Valid(L), Lifecycle(L), NEW d \in DspIds,
         CanSubmit(L, d), Valid(Submit(L, d))
  PROVE  Lifecycle(ReportAccepted(L, d))
<1> DEFINE S == Submit(L, d)
           M == Accept(S, d)
           N == ReportAccepted(L, d)
<1>1. S \in Ledger /\ M \in Ledger
  BY SubmitType, AcceptType
<1>2. Lifecycle(S)
  BY SubmitLifecycle
<1>3. S.dsp = [L.dsp EXCEPT ![d].state = "succeeded", ![d].evidence = "submitted"]
  BY SubmitFields
<1>4. CanReview(S, d)
  BY <1>3, LedgerFields DEF Dispatch, CanReview
<1>5. N = [M EXCEPT !.revision = L.revision + 1]
  BY DEF ReportAccepted
<1> HIDE DEF S
<1>6. Lifecycle(M)
  BY <1>1, <1>2, <1>4, AcceptLifecycle DEF S
<1> HIDE DEF M, N
<1>7. N.asg = M.asg /\ N.dsp = M.dsp
  BY <1>1, <1>5 DEF Ledger
<1> QED
  BY <1>6, <1>7 DEF N, Lifecycle, NoAttemptBeforeAssignment, AttemptMatchesAssignment,
                    OneLiveAttempt, Live, AttemptAfterApproval, TaskOf

\* A pending or uncertain stop moves nothing.
LEMMA SetStopLifecycle ==
  ASSUME NEW L \in Ledger, Lifecycle(L), NEW d \in DspIds, NEW s
  PROVE  Lifecycle(SetStop(L, d, s))
<1> DEFINE N == SetStop(L, d, s)
<1>1. N.asg = L.asg /\ N.dsp = [L.dsp EXCEPT ![d].stop = s]
  BY SetStopFields
<1> HIDE DEF N
<1>2. \A e \in DspIds : N.dsp[e].state = L.dsp[e].state
                       /\ N.dsp[e].evidence = L.dsp[e].evidence
  BY <1>1, LedgerFields DEF Dispatch
<1> QED
  BY <1>1, <1>2 DEF N, Lifecycle, NoAttemptBeforeAssignment, AttemptMatchesAssignment,
                    OneLiveAttempt, Live, AttemptAfterApproval, TaskOf

\* An approved assignment has no evidence under review, so an attempt prepared
\* when none is in flight is its only live one.
LEMMA PrepareLifecycle ==
  ASSUME NEW L \in Ledger, Valid(L), Lifecycle(L), NEW d \in DspIds, CanPrepare(L, d)
  PROVE  Lifecycle(Prepare(L, d))
<1> DEFINE N == Prepare(L, d)
<1> HIDE DEF N
<1>1. N.asg = L.asg /\ N.dsp = [L.dsp EXCEPT ![d].state = "prepared"]
  <2>1. N = [revision |-> L.revision + 1, objective |-> L.objective, plan |-> L.plan,
             task |-> L.task, asg |-> L.asg, dsp |-> [L.dsp EXCEPT ![d].state = "prepared"]]
    BY PrepareFields DEF N
  <2> QED
    BY <2>1
<1>2. \A e \in DspIds : e # d => N.dsp[e] = L.dsp[e]
  BY <1>1, LedgerFields
<1>3. N.dsp[d].state = "prepared" /\ N.dsp[d].evidence = L.dsp[d].evidence
  BY <1>1, LedgerFields DEF Dispatch
<1>4. \A e \in DspIds : e[1] = d[1] => ~Live(L, e)
  <2> SUFFICES ASSUME NEW e \in DspIds, e[1] = d[1] PROVE ~Live(L, e)
    OBVIOUS
  <2>1. L.dsp[e].state \notin Unsettled
    BY DspIdParts DEF CanPrepare
  <2>2. L.dsp[e].evidence # "submitted"
    BY DEF CanPrepare, Lifecycle, AttemptMatchesAssignment
  <2> QED
    BY <2>1, <2>2 DEF Live
<1>5. L.dsp[d].evidence # "submitted" /\ L.asg[d[1]].status = "approved"
  BY <1>4 DEF Live, CanPrepare
<1>6. NoAttemptBeforeAssignment(N)
  BY <1>1, <1>2, <1>5 DEF Lifecycle, NoAttemptBeforeAssignment
<1>7. AttemptMatchesAssignment(N)
  BY <1>1, <1>2, <1>3, <1>5 DEF Lifecycle, AttemptMatchesAssignment
<1>8. OneLiveAttempt(N)
  <2>1. \A e \in DspIds : e # d => (Live(N, e) <=> Live(L, e))
    BY <1>2 DEF Live
  <2> QED
    BY <1>4, <2>1 DEF Lifecycle, OneLiveAttempt
<1>9. AttemptAfterApproval(N)
  BY <1>1, <1>2 DEF Lifecycle, AttemptAfterApproval, TaskOf, CanPrepare
<1> QED
  BY <1>6, <1>7, <1>8, <1>9 DEF Lifecycle, N

\* A materialised plan satisfies the inductive invariant.
LEMMA InitInv == Init => Inv
<1> SUFFICES ASSUME Init PROVE Inv
  OBVIOUS
<1>1. TypeOK
  BY MaterializedType DEF Init, TypeOK
<1>2. /\ \A d \in DspIds : ledger.dsp[d] = NoDispatch
      /\ \A a \in AsgIds : ledger.asg[a] = NoAssignment
      /\ ledger.objective = "active"
      /\ \A t \in Tasks : ledger.task[t] = IF Deps[t] = {} THEN "ready" ELSE "blocked"
  BY DEF Init, Materialized
<1>3. Valid(ledger)
  <2>1. ValidPlan(ledger)
    BY <1>2 DEF ValidPlan
  <2>2. ValidEvidence(ledger) /\ ValidStops(ledger)
    BY <1>2 DEF ValidEvidence, ValidStops, NoDispatch, PendingStop
  <2>3. ValidCompletion(ledger)
    BY <1>2 DEF ValidCompletion, NoAssignment, Active
  <2> QED
    BY <2>1, <2>2, <2>3 DEF Valid
<1>4. Lifecycle(ledger)
  BY <1>2, DspIdParts DEF Lifecycle, NoAttemptBeforeAssignment, AttemptMatchesAssignment,
     OneLiveAttempt, AttemptAfterApproval, Live, Unsettled, NoDispatch, NoAssignment
<1> QED
  BY <1>1, <1>3, <1>4 DEF Inv

\* Every operation keeps the inductive invariant; Valid' is what Advance checks.
LEMMA NextInv == Inv /\ [Next]_ledger => Inv'
<1> SUFFICES ASSUME Inv, [Next]_ledger PROVE Inv'
  OBVIOUS
<1>1. TypeOK'
  BY NextType DEF Inv
<1>2. Valid(ledger)'
  BY DEF Inv, Next, Advance, AssignReadyTask, DecideDispatchGate, ReassignStoppedTask,
         PrepareDispatch, SettlePrepared, RequestStop, SettleStop, SubmitEvidence,
         ReviewEvidence, ReconcileReport
<1>3. Lifecycle(ledger)'
  <2> USE DEF Inv, TypeOK, Advance
  <2>1. CASE UNCHANGED ledger
    BY <2>1 DEF Lifecycle, NoAttemptBeforeAssignment, AttemptMatchesAssignment,
                OneLiveAttempt, AttemptAfterApproval, Live, TaskOf
  <2>2. CASE AssignReadyTask
    BY <2>2, AssignLifecycle DEF AssignReadyTask
  <2>3. CASE DecideDispatchGate
    BY <2>3, DecideGateLifecycle DEF DecideDispatchGate
  <2>4. CASE ReassignStoppedTask
    BY <2>4, ReassignLifecycle DEF ReassignStoppedTask
  <2>5. CASE PrepareDispatch
    BY <2>5, PrepareLifecycle DEF PrepareDispatch
  <2>6. CASE SettlePrepared
    BY <2>6, CommitLifecycle, FailPreparedLifecycle DEF SettlePrepared
  <2>7. CASE RequestStop
    BY <2>7, SetStopLifecycle DEF RequestStop
  <2>8. CASE SettleStop
    BY <2>8, SetStopLifecycle, CompleteStopLifecycle DEF SettleStop
  <2>9. CASE SubmitEvidence
    BY <2>9, SubmitLifecycle DEF SubmitEvidence
  <2>10. CASE ReviewEvidence
    BY <2>10, AcceptLifecycle, RejectLifecycle DEF ReviewEvidence
  <2>11. CASE ReconcileReport
    BY <2>11, FailDispatchLifecycle, SubmitLifecycle, ReportAcceptedLifecycle
    DEF ReconcileReport
  <2> QED
    BY <2>1, <2>2, <2>3, <2>4, <2>5, <2>6, <2>7, <2>8, <2>9, <2>10, <2>11 DEF Next
<1> QED
  BY <1>1, <1>2, <1>3 DEF Inv

\* Every reachable ledger is well-typed, satisfies the rules of validateBarkosWorkLedger
\* that the model keeps, and has each attempt in step with its assignment.
THEOREM InvHolds == Spec => []Inv
  BY InitInv, NextInv, PTL DEF Spec

\* At most one attempt of an assignment is live, it is in the state its
\* assignment says, and none precedes the approval of its gate.
THEOREM AttemptsFollowAssignments == Spec => []AttemptFollowsAssignment
<1>1. Inv => AttemptFollowsAssignment
  BY DEF Inv, AttemptFollowsAssignment
<1> QED
  BY <1>1, InvHolds, PTL

\* One task is never in the hands of two attempts.  The schema makes its active
\* assignment unique, the lifecycle the attempt in flight of that assignment.
THEOREM SingleAuthority == Spec => []OneAuthorityPerTask
<1>1. Inv => OneAuthorityPerTask
  <2> SUFFICES ASSUME Inv,
                      NEW d \in InFlight(ledger), NEW e \in InFlight(ledger),
                      TaskOf(ledger, d) = TaskOf(ledger, e)
               PROVE  d = e
    BY DEF OneAuthorityPerTask
  <2>1. /\ d \in DspIds /\ d[1] \in AsgIds /\ Live(ledger, d)
        /\ e \in DspIds /\ e[1] \in AsgIds /\ Live(ledger, e)
    BY DspIdParts DEF InFlight, Live
  <2>2. ledger.asg[d[1]].status \in Active /\ ledger.asg[e[1]].status \in Active
    BY DEF Inv, Lifecycle, AttemptMatchesAssignment, InFlight, Unsettled, Active
  <2>3. d[1] = e[1]
    BY <2>1, <2>2 DEF Inv, Valid, ValidCompletion, TaskOf
  <2> QED
    BY <2>1, <2>3 DEF Inv, Lifecycle, OneLiveAttempt
<1> QED
  BY <1>1, InvHolds, PTL

\* No attempt is recorded for a task that policy or risk protects before the
\* user approved the gate of its assignment.
THEOREM ApprovalComesFirst == Spec => []NoUnapprovedAttempt
<1>1. Inv => NoUnapprovedAttempt
  BY DEF Inv, Lifecycle, AttemptAfterApproval, NoUnapprovedAttempt, Dispatched
<1> QED
  BY <1>1, InvHolds, PTL

-----------------------------------------------------------------------------
(* Tasks, attempts and assignments agree; ids are given in order; limits.   *)


\* An assignment that was never made is blank, any other has a task and a worker.
Used(L) ==
  \A a \in AsgIds :
    /\ L.asg[a].status = "absent" => L.asg[a] = NoAssignment
    /\ L.asg[a].status # "absent" => L.asg[a].task \in Tasks /\ L.asg[a].worker \in Workers

\* The task of an active assignment says how far its attempt is.
TaskFollowsAttempt(L) ==
  /\ \A a \in AsgIds : L.asg[a].status = "approved" => L.task[L.asg[a].task] = "ready"
  /\ \A d \in DspIds :
       /\ L.dsp[d].state = "running" => L.task[TaskOf(L, d)] = "running"
       /\ L.dsp[d].evidence = "submitted" => L.task[TaskOf(L, d)] = "review"
       /\ L.dsp[d].evidence = "accepted" =>
            L.task[TaskOf(L, d)] = "completed" /\ L.asg[d[1]].status = "completed"

\* A task has one accepted attempt at most.
OneAccepted(L) ==
  \A d, e \in DspIds :
    /\ L.dsp[d].evidence = "accepted" /\ L.dsp[e].evidence = "accepted"
    /\ TaskOf(L, d) = TaskOf(L, e)
    => d = e

\* DispatchedHasOwner, of any ledger.
Owned(L) ==
  \A a \in AsgIds : L.asg[a].status = "dispatched" =>
    \E n \in Attempts : L.dsp[<<a, n>>].state = "running" \/ L.dsp[<<a, n>>].evidence = "submitted"

ClosedTogether(L) == L.objective = "completed" => L.plan = "completed"

Progress(L) ==
  /\ Used(L)
  /\ TaskFollowsAttempt(L)
  /\ OneAccepted(L)
  /\ Owned(L)
  /\ ClosedTogether(L)

\* Ids are given in order, so the active assignment of a task is its last, and
\* so is a stopped one that waits for its successor.
InOrder(L) ==
  \A a, b \in AsgIds : a < b /\ L.asg[b].status # "absent" => L.asg[a].status # "absent"

LastOfTask(L, a) == \A b \in AsgIds : b > a => L.asg[b].task # L.asg[a].task

ActiveIsLast(L) == \A a \in AsgIds : L.asg[a].status \in Active => LastOfTask(L, a)

StoppedIsLast(L) ==
  \A d \in DspIds :
    L.dsp[d].stop = "completed" /\ L.asg[d[1]].status = "rejected" => LastOfTask(L, d[1])

\* ReassignmentMovesWork, of any ledger.
Succeeded(L) ==
  \A a \in AsgIds : L.asg[a].status = "reassigned" =>
    \E b \in AsgIds :
      /\ b > a
      /\ L.asg[b].task = L.asg[a].task
      /\ L.asg[b].worker # L.asg[a].worker
      /\ \A c \in (a + 1) .. (b - 1) : L.asg[c].task # L.asg[a].task

Order(L) == InOrder(L) /\ ActiveIsLast(L) /\ StoppedIsLast(L) /\ Succeeded(L)

\* What every ledger the code writes satisfies.
Safe(L) == L \in Ledger /\ Valid(L) /\ Lifecycle(L) /\ Progress(L) /\ Order(L)

-----------------------------------------------------------------------------
(* Most operations move one attempt.  What they have in common is stated     *)
(* once: where they find the attempt, what they leave alone, and how the     *)
(* attempt, its assignment and its task agree afterwards.                    *)

Found(L, d) ==
  /\ L.asg[d[1]].status \in Active
  /\ L.asg[d[1]].task \in Tasks
  /\ L.task[TaskOf(L, d)] \in {"ready", "running", "review"}
  /\ L.dsp[d].state \in {"absent", "prepared", "running", "succeeded"}
  /\ L.dsp[d].evidence \in {"none", "submitted"}
  /\ \A e \in DspIds : e # d /\ e[1] = d[1] => ~Live(L, e)

Moved(L, N, d) ==
  /\ \A e \in DspIds : e # d => N.dsp[e] = L.dsp[e]
  /\ \A a \in AsgIds : a # d[1] => N.asg[a] = L.asg[a]
  /\ N.asg[d[1]].task = L.asg[d[1]].task
  /\ N.asg[d[1]].worker = L.asg[d[1]].worker
  /\ N.asg[d[1]].gate = L.asg[d[1]].gate
  /\ \A t \in Tasks : t # TaskOf(L, d) =>
       \/ N.task[t] = L.task[t]
       \/ /\ L.task[t] = "blocked"
          /\ N.task[t] = "ready"
          /\ \A u \in Deps[t] : N.task[u] = "completed"
  /\ N.objective = "completed" =>
       \/ L.objective = "completed"
       \/ N.plan = "completed" /\ \A t \in Tasks : N.task[t] = "completed"

Coherent(L, N, d) ==
  /\ N.asg[d[1]].status \in {"approved", "dispatched", "completed", "rejected"}
  /\ N.asg[d[1]].status \in Active => L.asg[d[1]].status \in Active
  /\ N.asg[d[1]].status = "approved" => N.task[TaskOf(L, d)] = "ready"
  /\ N.asg[d[1]].status = "dispatched" =>
       N.dsp[d].state = "running" \/ N.dsp[d].evidence = "submitted"
  /\ N.asg[d[1]].status = "completed" => N.dsp[d].evidence = "accepted"
  /\ N.dsp[d].state = "running" => N.task[TaskOf(L, d)] = "running"
  /\ L.dsp[d].state = "succeeded" => N.dsp[d].state = "succeeded"
  /\ N.dsp[d].evidence # "none" => N.dsp[d].state = "succeeded"
  /\ N.dsp[d].evidence = "submitted" => N.task[TaskOf(L, d)] = "review"
  /\ N.dsp[d].evidence = "accepted" =>
       N.task[TaskOf(L, d)] = "completed" /\ N.asg[d[1]].status = "completed"
  /\ N.task[TaskOf(L, d)] = "completed" => N.dsp[d].evidence = "accepted"
  /\ L.dsp[d].stop \in PendingStop => N.dsp[d].stop \in PendingStop \cup {"completed"}

\* Assignments keep what they are about.
LEMMA MovedKeeps ==
  ASSUME NEW L, NEW N, NEW d \in DspIds, Moved(L, N, d)
  PROVE  /\ \A a \in AsgIds : /\ N.asg[a].task = L.asg[a].task
                              /\ N.asg[a].worker = L.asg[a].worker
                              /\ N.asg[a].gate = L.asg[a].gate
         /\ \A e \in DspIds : TaskOf(N, e) = TaskOf(L, e)
<1>1. \A a \in AsgIds : /\ N.asg[a].task = L.asg[a].task
                        /\ N.asg[a].worker = L.asg[a].worker
                        /\ N.asg[a].gate = L.asg[a].gate
  BY DEF Moved
<1> QED
  BY <1>1, DspIdParts DEF TaskOf

\* What else is active or accepted is about other tasks.
LEMMA MovedApart ==
  ASSUME NEW L, NEW d \in DspIds, Safe(L), Found(L, d)
  PROVE  /\ \A a \in AsgIds : a # d[1] /\ L.asg[a].status \in Active =>
              L.asg[a].task \in Tasks /\ L.asg[a].task # TaskOf(L, d)
         /\ \A e \in DspIds : L.dsp[e].evidence = "accepted" =>
              e # d /\ e[1] # d[1] /\ TaskOf(L, e) # TaskOf(L, d)
         /\ \A e \in DspIds : e # d /\ Live(L, e) =>
              e[1] # d[1] /\ L.asg[e[1]].status \in Active
         /\ L.objective # "completed"
<1>1. d[1] \in AsgIds
  BY DspIdParts
<1>2. ASSUME NEW a \in AsgIds, a # d[1], L.asg[a].status \in Active
      PROVE  L.asg[a].task \in Tasks /\ L.asg[a].task # TaskOf(L, d)
  <2>1. L.asg[a].task \in Tasks
    BY <1>2 DEF Safe, Progress, Used, Active
  <2>2. L.asg[a].task # L.asg[d[1]].task
    BY <1>1, <1>2 DEF Safe, Valid, ValidCompletion, Found
  <2> QED
    BY <2>1, <2>2 DEF TaskOf
<1>3. ASSUME NEW e \in DspIds, L.dsp[e].evidence = "accepted"
      PROVE  e # d /\ e[1] # d[1] /\ TaskOf(L, e) # TaskOf(L, d)
  <2>1. L.task[TaskOf(L, e)] = "completed" /\ L.asg[e[1]].status = "completed"
    BY <1>3 DEF Safe, Progress, TaskFollowsAttempt
  <2> QED
    BY <1>3, <2>1 DEF Found, Active
<1>4. ASSUME NEW e \in DspIds, e # d, Live(L, e)
      PROVE  e[1] # d[1] /\ L.asg[e[1]].status \in Active
  BY <1>4 DEF Found, Safe, Lifecycle, AttemptMatchesAssignment, Live, Unsettled, Active
<1>5. L.objective # "completed"
  BY DEF Found, Safe, Valid, ValidCompletion, TaskOf
<1> QED
  BY <1>2, <1>3, <1>4, <1>5

\* An operation that moves one attempt keeps tasks, attempts and assignments in
\* agreement.
LEMMA MovedProgress ==
  ASSUME NEW L, NEW N, NEW d \in DspIds, Safe(L), N \in Ledger,
         Found(L, d), Moved(L, N, d), Coherent(L, N, d)
  PROVE  Progress(N)
<1>0. d[1] \in AsgIds /\ d = <<d[1], d[2]>> /\ d[2] \in Attempts
  BY DspIdParts
<1>1. Used(N)
  <2> SUFFICES ASSUME NEW a \in AsgIds
               PROVE  /\ N.asg[a].status = "absent" => N.asg[a] = NoAssignment
                      /\ N.asg[a].status # "absent" =>
                           N.asg[a].task \in Tasks /\ N.asg[a].worker \in Workers
    BY DEF Used
  <2>1. CASE a = d[1]
    BY <1>0, <2>1 DEF Moved, Coherent, Found, Active, Safe, Progress, Used
  <2>2. CASE a # d[1]
    BY <2>2 DEF Moved, Safe, Progress, Used
  <2> QED
    BY <2>1, <2>2
<1>2. TaskFollowsAttempt(N)
  <2>1. ASSUME NEW a \in AsgIds, N.asg[a].status = "approved"
        PROVE  N.task[N.asg[a].task] = "ready"
    <3>1. CASE a = d[1]
      BY <2>1, <3>1 DEF Coherent, Moved, TaskOf
    <3>2. CASE a # d[1]
      <4>1. N.asg[a] = L.asg[a]
        BY <3>2 DEF Moved
      <4>2. L.task[L.asg[a].task] = "ready"
        BY <2>1, <4>1 DEF Safe, Progress, TaskFollowsAttempt
      <4>3. L.asg[a].task \in Tasks /\ L.asg[a].task # TaskOf(L, d)
        BY <2>1, <3>2, <4>1, MovedApart DEF Active
      <4> QED
        BY <4>1, <4>2, <4>3 DEF Moved
    <3> QED
      BY <3>1, <3>2
  <2>2. ASSUME NEW e \in DspIds, N.dsp[e].state = "running" \/ N.dsp[e].evidence = "submitted",
               e # d
        PROVE  N.task[TaskOf(N, e)] = L.task[TaskOf(L, e)]
    <3>1. N.dsp[e] = L.dsp[e] /\ Live(L, e)
      BY <2>2 DEF Moved, Live, Unsettled
    <3>2. e[1] \in AsgIds /\ e[1] # d[1] /\ L.asg[e[1]].status \in Active
      BY <2>2, <3>1, MovedApart, DspIdParts
    <3>3. TaskOf(L, e) \in Tasks /\ TaskOf(L, e) # TaskOf(L, d)
      BY <3>2, MovedApart DEF TaskOf
    <3>4. L.task[TaskOf(L, e)] \in {"running", "review"}
      BY <2>2, <3>1 DEF Safe, Progress, TaskFollowsAttempt
    <3> QED
      BY <3>3, <3>4, MovedKeeps DEF Moved
  <2>3. ASSUME NEW e \in DspIds
        PROVE  /\ N.dsp[e].state = "running" => N.task[TaskOf(N, e)] = "running"
               /\ N.dsp[e].evidence = "submitted" => N.task[TaskOf(N, e)] = "review"
    <3>1. CASE e = d
      BY <3>1, MovedKeeps DEF Coherent
    <3>2. CASE e # d
      <4>1. N.dsp[e] = L.dsp[e]
        BY <3>2 DEF Moved
      <4> QED
        BY <2>2, <3>2, <4>1 DEF Safe, Progress, TaskFollowsAttempt
    <3> QED
      BY <3>1, <3>2
  <2>4. ASSUME NEW e \in DspIds, N.dsp[e].evidence = "accepted"
        PROVE  N.task[TaskOf(N, e)] = "completed" /\ N.asg[e[1]].status = "completed"
    <3>1. CASE e = d
      BY <2>4, <3>1, MovedKeeps DEF Coherent
    <3>2. CASE e # d
      <4>1. N.dsp[e] = L.dsp[e]
        BY <3>2 DEF Moved
      <4>2. L.task[TaskOf(L, e)] = "completed" /\ L.asg[e[1]].status = "completed"
        BY <2>4, <4>1 DEF Safe, Progress, TaskFollowsAttempt
      <4>3. e[1] \in AsgIds /\ e[1] # d[1] /\ TaskOf(L, e) # TaskOf(L, d)
        BY <2>4, <4>1, MovedApart, DspIdParts
      <4>4. TaskOf(L, e) \in Tasks
        BY <4>2, <4>3 DEF Safe, Progress, Used, TaskOf
      <4> QED
        BY <4>2, <4>3, <4>4, MovedKeeps DEF Moved
    <3> QED
      BY <3>1, <3>2
  <2> QED
    BY <2>1, <2>3, <2>4 DEF TaskFollowsAttempt
<1>3. OneAccepted(N)
  <2>1. \A e \in DspIds : e # d => N.dsp[e] = L.dsp[e]
    BY DEF Moved
  <2>2. \A e \in DspIds : TaskOf(N, e) = TaskOf(L, e)
    BY MovedKeeps
  <2>3. \A e \in DspIds : L.dsp[e].evidence = "accepted" => TaskOf(L, e) # TaskOf(L, d)
    BY MovedApart
  <2> QED
    BY <2>1, <2>2, <2>3 DEF OneAccepted, Safe, Progress
<1>4. Owned(N)
  <2> SUFFICES ASSUME NEW a \in AsgIds, N.asg[a].status = "dispatched"
               PROVE  \E n \in Attempts : \/ N.dsp[<<a, n>>].state = "running"
                                          \/ N.dsp[<<a, n>>].evidence = "submitted"
    BY DEF Owned
  <2>1. CASE a = d[1]
    BY <1>0, <2>1 DEF Coherent
  <2>2. CASE a # d[1]
    <3>1. N.asg[a] = L.asg[a]
      BY <2>2 DEF Moved
    <3>2. PICK n \in Attempts : \/ L.dsp[<<a, n>>].state = "running"
                                \/ L.dsp[<<a, n>>].evidence = "submitted"
      BY <3>1 DEF Safe, Progress, Owned
    <3>3. <<a, n>> \in DspIds /\ <<a, n>> # d
      BY <1>0, <2>2 DEF DspIds
    <3> QED
      BY <3>2, <3>3 DEF Moved
  <2> QED
    BY <2>1, <2>2
<1>5. ClosedTogether(N)
  BY MovedApart DEF ClosedTogether, Moved
<1> QED
  BY <1>1, <1>2, <1>3, <1>4, <1>5 DEF Progress

\* It leaves the order of the assignments as it was.
LEMMA MovedOrder ==
  ASSUME NEW L, NEW N, NEW d \in DspIds, Safe(L),
         Found(L, d), Moved(L, N, d), Coherent(L, N, d)
  PROVE  Order(N)
<1>0. d[1] \in AsgIds
  BY DspIdParts
<1>1. \A a \in AsgIds : N.asg[a].task = L.asg[a].task /\ N.asg[a].worker = L.asg[a].worker
  BY MovedKeeps
<1>2. \A a \in AsgIds : N.asg[a].status = "absent" <=> L.asg[a].status = "absent"
  BY DEF Moved, Coherent, Found, Active
<1>3. \A a \in AsgIds : LastOfTask(L, a) => LastOfTask(N, a)
  BY <1>1 DEF LastOfTask
<1>4. InOrder(N)
  BY <1>2 DEF InOrder, Safe, Order
<1>5. ActiveIsLast(N)
  <2>1. \A a \in AsgIds : N.asg[a].status \in Active => L.asg[a].status \in Active
    BY DEF Moved, Coherent
  <2> QED
    BY <1>3, <2>1 DEF ActiveIsLast, Safe, Order
<1>6. StoppedIsLast(N)
  <2> SUFFICES ASSUME NEW e \in DspIds, N.dsp[e].stop = "completed",
                      N.asg[e[1]].status = "rejected"
               PROVE  LastOfTask(N, e[1])
    BY DEF StoppedIsLast
  <2>0. e[1] \in AsgIds
    BY DspIdParts
  <2>1. CASE e[1] = d[1]
    BY <1>0, <1>3, <2>1 DEF Found, Safe, Order, ActiveIsLast
  <2>2. CASE e[1] # d[1]
    <3>1. N.dsp[e] = L.dsp[e] /\ N.asg[e[1]] = L.asg[e[1]]
      BY <2>0, <2>2 DEF Moved
    <3> QED
      BY <1>3, <2>0, <3>1 DEF Safe, Order, StoppedIsLast
  <2> QED
    BY <2>1, <2>2
<1>7. Succeeded(N)
  <2> SUFFICES ASSUME NEW a \in AsgIds, N.asg[a].status = "reassigned"
               PROVE  \E b \in AsgIds :
                        /\ b > a
                        /\ N.asg[b].task = N.asg[a].task
                        /\ N.asg[b].worker # N.asg[a].worker
                        /\ \A c \in (a + 1) .. (b - 1) : N.asg[c].task # N.asg[a].task
    BY DEF Succeeded
  <2>1. L.asg[a].status = "reassigned"
    BY DEF Moved, Coherent
  <2>2. PICK b \in AsgIds :
               /\ b > a
               /\ L.asg[b].task = L.asg[a].task
               /\ L.asg[b].worker # L.asg[a].worker
               /\ \A c \in (a + 1) .. (b - 1) : L.asg[c].task # L.asg[a].task
    BY <2>1 DEF Safe, Order, Succeeded
  <2>3. \A c \in (a + 1) .. (b - 1) : c \in AsgIds
    BY LimitAssumption DEF AsgIds
  <2> QED
    BY <1>1, <2>2, <2>3
<1> QED
  BY <1>4, <1>5, <1>6, <1>7 DEF Order

\* The body of SettledIsFinal, of any two ledgers.
Final(L, N) ==
  /\ \A d \in DspIds :
       /\ L.dsp[d].state \in {"succeeded", "failed", "cancelled"} =>
            N.dsp[d].state = L.dsp[d].state
       /\ L.dsp[d].evidence \in {"accepted", "rejected"} =>
            N.dsp[d].evidence = L.dsp[d].evidence
  /\ \A a \in AsgIds :
       /\ L.asg[a].status \in {"completed", "reassigned"} => N.asg[a] = L.asg[a]
       /\ L.asg[a].gate \in {"approved", "rejected"} => N.asg[a].gate = L.asg[a].gate
  /\ \A t \in Tasks : L.task[t] \in {"completed", "failed"} => N.task[t] = L.task[t]

\* The body of PendingStopFreezes, of any two ledgers.
Freezes(L, N) ==
  \A d \in DspIds :
    L.dsp[d].stop \in PendingStop =>
      \/ N.dsp[d].stop = "completed"
      \/ /\ N.dsp[d].state = L.dsp[d].state
         /\ N.dsp[d].evidence = L.dsp[d].evidence
         /\ N.asg[d[1]] = L.asg[d[1]]
         /\ N.task[TaskOf(L, d)] = L.task[TaskOf(L, d)]

\* It settles nothing a second time.
LEMMA MovedFinal ==
  ASSUME NEW L, NEW N, NEW d \in DspIds, Safe(L),
         Found(L, d), Moved(L, N, d), Coherent(L, N, d)
  PROVE  Final(L, N)
<1>1. \A e \in DspIds :
        /\ L.dsp[e].state \in {"succeeded", "failed", "cancelled"} =>
             N.dsp[e].state = L.dsp[e].state
        /\ L.dsp[e].evidence \in {"accepted", "rejected"} =>
             N.dsp[e].evidence = L.dsp[e].evidence
  BY DEF Found, Moved, Coherent
<1>2. \A a \in AsgIds :
        /\ L.asg[a].status \in {"completed", "reassigned"} => N.asg[a] = L.asg[a]
        /\ L.asg[a].gate \in {"approved", "rejected"} => N.asg[a].gate = L.asg[a].gate
  BY DEF Found, Moved, Active
<1>3. \A t \in Tasks : L.task[t] \in {"completed", "failed"} => N.task[t] = L.task[t]
  BY DEF Found, Moved
<1> QED
  BY <1>1, <1>2, <1>3 DEF Final

\* If the schema lets it pass, it moves nothing a pending stop is about.
LEMMA MovedFreezes ==
  ASSUME NEW L, NEW N, NEW d \in DspIds, Safe(L), N \in Ledger, Valid(N),
         Found(L, d), Moved(L, N, d), Coherent(L, N, d)
  PROVE  Freezes(L, N)
<1> SUFFICES ASSUME NEW e \in DspIds, L.dsp[e].stop \in PendingStop, N.dsp[e].stop # "completed"
             PROVE  /\ N.dsp[e].state = L.dsp[e].state
                    /\ N.dsp[e].evidence = L.dsp[e].evidence
                    /\ N.asg[e[1]] = L.asg[e[1]]
                    /\ N.task[TaskOf(L, e)] = L.task[TaskOf(L, e)]
  BY DEF Freezes
<1>0. e[1] \in AsgIds
  BY DspIdParts
<1>1. /\ L.dsp[e].state = "running"
      /\ L.asg[e[1]].status = "dispatched"
      /\ L.task[TaskOf(L, e)] = "running"
  BY DEF Safe, Valid, ValidStops
<1>2. CASE e = d
  <2>1. N.dsp[e].stop \in PendingStop
    BY <1>2 DEF Coherent
  <2>2. /\ N.dsp[e].state = "running"
        /\ N.asg[e[1]].status = "dispatched"
        /\ N.task[TaskOf(N, e)] = "running"
    BY <2>1 DEF Valid, ValidStops
  <2>3. L.dsp[e].evidence = "none" /\ N.dsp[e].evidence = "none"
    BY <1>1, <2>2, EvidenceNeedsSuccess DEF Safe
  <2>4. N.asg[e[1]] = L.asg[e[1]]
    <3>1. N.asg[e[1]] \in Assignment /\ L.asg[e[1]] \in Assignment
      BY <1>0, LedgerRecords DEF Safe
    <3> QED
      BY <1>1, <1>2, <2>2, <3>1 DEF Moved, Assignment
  <2> QED
    BY <1>1, <2>2, <2>3, <2>4, MovedKeeps
<1>3. CASE e # d
  <2>1. N.dsp[e] = L.dsp[e]
    BY <1>3 DEF Moved
  <2>2. Live(L, e)
    BY <1>1 DEF Live, Unsettled
  <2>3. e[1] # d[1] /\ L.asg[e[1]].status \in Active
    BY <1>3, <2>2, MovedApart
  <2>4. TaskOf(L, e) \in Tasks /\ TaskOf(L, e) # TaskOf(L, d)
    BY <1>0, <2>3, MovedApart DEF TaskOf
  <2> QED
    BY <1>0, <1>1, <2>1, <2>3, <2>4 DEF Moved
<1> QED
  BY <1>2, <1>3

\* What the schema asks of the attempt that moved.
Settles(N, d) ==
  /\ N.dsp[d].stop = "completed" =>
       /\ N.dsp[d].state = "cancelled"
       /\ N.asg[d[1]].status = "rejected"
       /\ N.task[TaskOf(N, d)] = "cancelled"
  /\ N.dsp[d].stop \in PendingStop =>
       /\ N.dsp[d].state = "running"
       /\ N.asg[d[1]].status = "dispatched"
       /\ N.task[TaskOf(N, d)] = "running"
  /\ N.asg[d[1]].task \in PolicyGated /\ N.asg[d[1]].status \in {"dispatched", "completed"} =>
       N.asg[d[1]].gate = "approved"

\* Then the schema refuses nothing of the ledger.
LEMMA MovedValid ==
  ASSUME NEW L, NEW N, NEW d \in DspIds, Safe(L), N \in Ledger,
         Found(L, d), Moved(L, N, d), Coherent(L, N, d), Settles(N, d)
  PROVE  Valid(N)
<1>0. d[1] \in AsgIds /\ d = <<d[1], d[2]>> /\ d[2] \in Attempts
  BY DspIdParts
<1>1. ValidPlan(N)
  <2> SUFFICES ASSUME NEW t \in Tasks,
                      N.task[t] \in {"ready", "running", "review", "completed"},
                      NEW u \in Deps[t]
               PROVE  N.task[u] = "completed"
    BY DEF ValidPlan
  <2>0. u \in Tasks
    BY PlanAssumption
  <2>1. CASE L.task[t] \in {"ready", "running", "review", "completed"}
    <3>1. L.task[u] = "completed"
      BY <2>1 DEF Safe, Valid, ValidPlan
    <3> QED
      BY <2>0, <3>1 DEF Moved, Found
  <2>2. CASE L.task[t] \notin {"ready", "running", "review", "completed"}
    BY <2>2 DEF Moved, Found
  <2> QED
    BY <2>1, <2>2
<1>2. ValidEvidence(N)
  <2>1. \A e \in DspIds : L.dsp[e].evidence # "none" => L.dsp[e].state = "succeeded"
    BY DEF Safe, Valid, ValidEvidence
  <2> QED
    BY <2>1 DEF ValidEvidence, Moved, Coherent
<1>3. ValidStops(N)
  <2>1. ASSUME NEW e \in DspIds, e # d, L.dsp[e].stop = "completed"
        PROVE  /\ N.dsp[e].state = "cancelled"
               /\ \/ N.asg[e[1]].status = "rejected" /\ N.task[TaskOf(N, e)] = "cancelled"
                  \/ N.asg[e[1]].status = "reassigned" /\ HasReplacement(N, e[1])
    <3>0. e[1] \in AsgIds
      BY DspIdParts
    <3>1. /\ L.dsp[e].state = "cancelled"
          /\ \/ L.asg[e[1]].status = "rejected" /\ L.task[TaskOf(L, e)] = "cancelled"
             \/ L.asg[e[1]].status = "reassigned" /\ HasReplacement(L, e[1])
      BY <2>1 DEF Safe, Valid, ValidStops
    <3>2. e[1] # d[1]
      BY <3>1 DEF Found, Active
    <3>3. N.dsp[e] = L.dsp[e] /\ N.asg[e[1]] = L.asg[e[1]]
      BY <2>1, <3>0, <3>2 DEF Moved
    <3>4. CASE L.asg[e[1]].status = "rejected" /\ L.task[TaskOf(L, e)] = "cancelled"
      <4>1. TaskOf(L, e) \in Tasks
        BY <3>0, <3>4 DEF Safe, Progress, Used, TaskOf
      <4> QED
        BY <3>1, <3>3, <3>4, <4>1, MovedKeeps DEF Moved, Found
    <3>5. CASE L.asg[e[1]].status = "reassigned" /\ HasReplacement(L, e[1])
      BY <3>0, <3>1, <3>3, <3>5, MovedKeeps DEF HasReplacement
    <3> QED
      BY <3>1, <3>4, <3>5
  <2>2. ASSUME NEW e \in DspIds, e # d, L.dsp[e].stop \in PendingStop
        PROVE  /\ N.dsp[e].state = "running"
               /\ N.asg[e[1]].status = "dispatched"
               /\ N.task[TaskOf(N, e)] = "running"
    <3>0. e[1] \in AsgIds
      BY DspIdParts
    <3>1. /\ L.dsp[e].state = "running"
          /\ L.asg[e[1]].status = "dispatched"
          /\ L.task[TaskOf(L, e)] = "running"
      BY <2>2 DEF Safe, Valid, ValidStops
    <3>2. e[1] # d[1] /\ L.asg[e[1]].status \in Active
      BY <2>2, <3>1, MovedApart DEF Live, Unsettled
    <3>3. TaskOf(L, e) \in Tasks /\ TaskOf(L, e) # TaskOf(L, d)
      BY <3>0, <3>2, MovedApart DEF TaskOf
    <3> QED
      BY <2>2, <3>0, <3>1, <3>2, <3>3, MovedKeeps DEF Moved
  <2>3. \A e \in DspIds : e # d => N.dsp[e].stop = L.dsp[e].stop
    BY DEF Moved
  <2> QED
    BY <2>1, <2>2, <2>3 DEF ValidStops, Settles
<1>4. ValidCompletion(N)
  <2>1. \A a \in AsgIds : HasAccepted(L, a) => HasAccepted(N, a)
    <3> SUFFICES ASSUME NEW a \in AsgIds, NEW n \in Attempts,
                        L.dsp[<<a, n>>].evidence = "accepted"
                 PROVE  N.dsp[<<a, n>>].evidence = "accepted"
      BY DEF HasAccepted
    <3>1. <<a, n>> \in DspIds
      BY DEF DspIds
    <3> QED
      BY <3>1 DEF Moved, Found
  <2>2. N.dsp[d].evidence = "accepted" => HasAccepted(N, d[1])
    BY <1>0 DEF HasAccepted
  <2>3. \A a \in AsgIds : N.asg[a].status = "completed" => HasAccepted(N, a)
    BY <2>1, <2>2 DEF Moved, Coherent, Safe, Valid, ValidCompletion
  <2>4. \A a \in AsgIds : N.asg[a].status \in Active => L.asg[a].status \in Active
    BY DEF Moved, Coherent
  <2>5. \A a, b \in AsgIds :
          /\ N.asg[a].status \in Active
          /\ N.asg[b].status \in Active
          /\ N.asg[a].task = N.asg[b].task
          => a = b
    BY <2>4, MovedKeeps DEF Safe, Valid, ValidCompletion
  <2>6. ASSUME NEW t \in Tasks, N.task[t] = "completed"
        PROVE  \E a \in AsgIds : N.asg[a].task = t /\ HasAccepted(N, a)
    <3>1. CASE t = TaskOf(L, d)
      BY <1>0, <2>2, <2>6, <3>1 DEF Coherent, Moved, TaskOf
    <3>2. CASE t # TaskOf(L, d)
      <4>1. L.task[t] = "completed"
        BY <2>6, <3>2 DEF Moved
      <4>2. \E a \in AsgIds : L.asg[a].task = t /\ HasAccepted(L, a)
        BY <4>1 DEF Safe, Valid, ValidCompletion
      <4> QED
        BY <2>1, <4>2, MovedKeeps
    <3> QED
      BY <3>1, <3>2
  <2>7. \A a \in AsgIds :
          /\ N.asg[a].task \in PolicyGated
          /\ N.asg[a].status \in {"dispatched", "completed"}
          => N.asg[a].gate = "approved"
    BY DEF Moved, Settles, Safe, Valid, ValidCompletion
  <2>8. N.objective = "completed" => \A t \in Tasks : N.task[t] = "completed"
    BY MovedApart DEF Moved
  <2> QED
    BY <2>3, <2>5, <2>6, <2>7, <2>8 DEF ValidCompletion
<1> QED
  BY <1>1, <1>2, <1>3, <1>4 DEF Valid

-----------------------------------------------------------------------------
(* Where the operations find the attempt they move.                          *)

\* A live attempt is the only one of its active assignment.
LEMMA FoundLive ==
  ASSUME NEW L, NEW d \in DspIds, Safe(L), Live(L, d)
  PROVE  /\ Found(L, d)
         /\ L.dsp[d].stop # "completed"
         /\ L.asg[d[1]].task \in PolicyGated => L.asg[d[1]].gate = "approved"
         /\ L.dsp[d].state = "prepared" =>
              /\ L.asg[d[1]].status = "approved"
              /\ L.task[TaskOf(L, d)] = "ready"
              /\ L.dsp[d].evidence = "none"
              /\ L.dsp[d].stop \notin PendingStop
         /\ L.dsp[d].state = "running" =>
              /\ L.asg[d[1]].status = "dispatched"
              /\ L.task[TaskOf(L, d)] = "running"
              /\ L.dsp[d].evidence = "none"
         /\ L.dsp[d].evidence = "submitted" =>
              /\ L.asg[d[1]].status = "dispatched"
              /\ L.task[TaskOf(L, d)] = "review"
              /\ L.dsp[d].state = "succeeded"
              /\ L.dsp[d].stop \notin PendingStop
<1>0. d[1] \in AsgIds /\ L \in Ledger
  BY DspIdParts DEF Safe
<1>1. /\ L.dsp[d].evidence # "none" => L.dsp[d].state = "succeeded"
      /\ L.dsp[d].stop = "completed" => L.dsp[d].state = "cancelled"
      /\ L.dsp[d].stop \in PendingStop => L.dsp[d].state = "running"
  BY DEF Safe, Valid, ValidEvidence, ValidStops
<1>2. /\ L.dsp[d].state = "prepared" => L.asg[d[1]].status = "approved"
      /\ L.dsp[d].state = "running" => L.asg[d[1]].status = "dispatched"
      /\ L.dsp[d].evidence = "submitted" => L.asg[d[1]].status = "dispatched"
  BY DEF Safe, Lifecycle, AttemptMatchesAssignment
<1>3. /\ L.asg[d[1]].status = "approved" => L.task[TaskOf(L, d)] = "ready"
      /\ L.dsp[d].state = "running" => L.task[TaskOf(L, d)] = "running"
      /\ L.dsp[d].evidence = "submitted" => L.task[TaskOf(L, d)] = "review"
  BY <1>0 DEF Safe, Progress, TaskFollowsAttempt, TaskOf
<1>4. L.dsp[d].state \in {"prepared", "running"} \/ L.dsp[d].evidence = "submitted"
  BY DEF Live, Unsettled
<1>5. \A e \in DspIds : e # d /\ e[1] = d[1] => ~Live(L, e)
  BY DEF Safe, Lifecycle, OneLiveAttempt
<1>6. L.asg[d[1]].status \in Active /\ L.asg[d[1]].task \in Tasks
  BY <1>0, <1>2, <1>4 DEF Active, Safe, Progress, Used
<1>7. L.dsp[d].evidence \in {"none", "submitted"}
  BY <1>1, <1>4
<1>8. Found(L, d)
  BY <1>1, <1>2, <1>3, <1>4, <1>5, <1>6, <1>7 DEF Found
<1>9. L.asg[d[1]].task \in PolicyGated => L.asg[d[1]].gate = "approved"
  BY <1>1, <1>4 DEF Safe, Lifecycle, AttemptAfterApproval, NeedsApproval, TaskOf
<1> QED
  BY <1>1, <1>2, <1>3, <1>4, <1>8, <1>9

\* An attempt that may be prepared is the next of an approved assignment.
LEMMA FoundNext ==
  ASSUME NEW L, NEW d \in DspIds, Safe(L), CanPrepare(L, d)
  PROVE  /\ Found(L, d)
         /\ L.dsp[d].state = "absent"
         /\ L.dsp[d].evidence = "none"
         /\ L.dsp[d].stop \notin PendingStop \cup {"completed"}
<1>0. d[1] \in AsgIds /\ d[2] \in Attempts /\ d = <<d[1], d[2]>>
  BY DspIdParts
<1>1. L.dsp[d].state = "absent"
  BY <1>0, LimitAssumption DEF CanPrepare, NextAttempt, Attempts
<1>2. /\ L.dsp[d].evidence = "none"
      /\ L.dsp[d].stop \notin PendingStop \cup {"completed"}
  BY <1>1 DEF Safe, Valid, ValidEvidence, ValidStops
<1>3. ASSUME NEW e \in DspIds, e[1] = d[1] PROVE ~Live(L, e)
  <2>1. L.dsp[e].state \notin Unsettled
    BY <1>3, DspIdParts DEF CanPrepare
  <2>2. L.dsp[e].evidence # "submitted"
    BY <1>3 DEF CanPrepare, Safe, Lifecycle, AttemptMatchesAssignment
  <2> QED
    BY <2>1, <2>2 DEF Live
<1>4. L.asg[d[1]].status \in Active /\ L.asg[d[1]].task \in Tasks
  BY <1>0 DEF CanPrepare, Active, Safe, Progress, Used
<1> QED
  BY <1>1, <1>2, <1>3, <1>4 DEF Found, CanPrepare

-----------------------------------------------------------------------------
(* Each of these operations moves its attempt.                               *)

Moves(L, N, d) == N \in Ledger /\ Found(L, d) /\ Moved(L, N, d) /\ Coherent(L, N, d)

\* The frame of an operation that writes one attempt, its assignment's status,
\* and its task, and does not close the objective.
LEMMA FrameMoved ==
  ASSUME NEW L \in Ledger, NEW d \in DspIds, NEW s, NEW x, NEW N,
         N.asg = [L.asg EXCEPT ![d[1]].status = s] \/ N.asg = L.asg,
         N.task = [L.task EXCEPT ![TaskOf(L, d)] = x] \/ N.task = L.task,
         \A e \in DspIds : e # d => N.dsp[e] = L.dsp[e],
         N.objective \in {L.objective, "active", "failed"}
  PROVE  Moved(L, N, d)
<1>0. d[1] \in AsgIds /\ L.asg[d[1]] \in Assignment
  BY DspIdParts, LedgerRecords
<1>1. /\ \A a \in AsgIds : a # d[1] => N.asg[a] = L.asg[a]
      /\ N.asg[d[1]].task = L.asg[d[1]].task
      /\ N.asg[d[1]].worker = L.asg[d[1]].worker
      /\ N.asg[d[1]].gate = L.asg[d[1]].gate
  BY <1>0, LedgerFields DEF Assignment
<1>2. \A t \in Tasks : t # TaskOf(L, d) => N.task[t] = L.task[t]
  BY LedgerFields
<1>3. N.objective = "completed" => L.objective = "completed"
  OBVIOUS
<1> QED
  BY <1>1, <1>2, <1>3 DEF Moved

\* An approved assignment gets its next attempt.
LEMMA PrepareMoves ==
  ASSUME NEW L, NEW d \in DspIds, Safe(L), CanPrepare(L, d)
  PROVE  Moves(L, Prepare(L, d), d)
<1> DEFINE N == Prepare(L, d)
<1> HIDE DEF N
<1>0. L \in Ledger /\ d[1] \in AsgIds
  BY DspIdParts DEF Safe
<1>1. N \in Ledger
  BY <1>0, PrepareType DEF N
<1>2. N = [revision |-> L.revision + 1, objective |-> L.objective, plan |-> L.plan,
           task |-> L.task,
           asg  |-> L.asg,
           dsp  |-> [L.dsp EXCEPT ![d].state = "prepared"]]
  BY <1>0, PrepareFields DEF N
<1>3. /\ N.objective = L.objective
      /\ N.task = L.task
      /\ N.asg = L.asg
      /\ N.dsp = [L.dsp EXCEPT ![d].state = "prepared"]
  BY <1>2
<1>4. Found(L, d)
  BY FoundNext
<1>5. \A e \in DspIds : e # d => N.dsp[e] = L.dsp[e]
  BY <1>0, <1>3, LedgerFields
<1>6. Moved(L, N, d)
  BY <1>0, <1>3, <1>5, FrameMoved
<1>7. /\ N.dsp[d].state = "prepared"
      /\ N.dsp[d].evidence = L.dsp[d].evidence
      /\ N.dsp[d].stop = L.dsp[d].stop
  BY <1>0, <1>3, LedgerRecords, LedgerFields DEF Dispatch
<1>8. /\ N.asg[d[1]].status = L.asg[d[1]].status
      /\ N.task[TaskOf(L, d)] = L.task[TaskOf(L, d)]
  BY <1>0, <1>3, <1>4, LedgerRecords, LedgerFields DEF Assignment, Found, TaskOf
<1>9. Coherent(L, N, d)
  BY <1>4, <1>7, <1>8, FoundNext DEF Coherent, CanPrepare, Active
<1> QED
  BY <1>1, <1>4, <1>6, <1>9 DEF Moves, N

\* A dispatch that was refused leaves the assignment approved.
LEMMA FailPreparedMoves ==
  ASSUME NEW L, NEW d \in DspIds, Safe(L), L.dsp[d].state = "prepared"
  PROVE  Moves(L, FailPrepared(L, d), d) /\ Settles(FailPrepared(L, d), d)
<1> DEFINE N == FailPrepared(L, d)
<1> HIDE DEF N
<1>0. L \in Ledger /\ d[1] \in AsgIds
  BY DspIdParts DEF Safe
<1>1. N \in Ledger
  BY <1>0, FailPreparedType DEF N
<1>2. N = [revision |-> L.revision + 1, objective |-> L.objective, plan |-> L.plan,
           task |-> L.task,
           asg  |-> L.asg,
           dsp  |-> [L.dsp EXCEPT ![d].state = "failed"]]
  BY <1>0, FailPreparedFields DEF N
<1>3. /\ N.objective = L.objective
      /\ N.task = L.task
      /\ N.asg = L.asg
      /\ N.dsp = [L.dsp EXCEPT ![d].state = "failed"]
  BY <1>2
<1>4. Live(L, d) /\ Found(L, d)
  BY FoundLive DEF Live, Unsettled
<1>5. \A e \in DspIds : e # d => N.dsp[e] = L.dsp[e]
  BY <1>0, <1>3, LedgerFields
<1>6. Moved(L, N, d)
  BY <1>0, <1>3, <1>5, FrameMoved
<1>7. /\ N.dsp[d].state = "failed"
      /\ N.dsp[d].evidence = L.dsp[d].evidence
      /\ N.dsp[d].stop = L.dsp[d].stop
  BY <1>0, <1>3, LedgerRecords, LedgerFields DEF Dispatch
<1>8. /\ N.asg[d[1]].status = L.asg[d[1]].status
      /\ N.task[TaskOf(L, d)] = L.task[TaskOf(L, d)]
  BY <1>0, <1>3, <1>4, LedgerRecords, LedgerFields DEF Assignment, Found, TaskOf
<1>9. Coherent(L, N, d)
  BY <1>4, <1>7, <1>8, FoundLive DEF Coherent, Active
<1>10. Settles(N, d)
  BY <1>4, <1>6, <1>7, <1>8, FoundLive, MovedKeeps DEF Settles, Moved, PendingStop
<1> QED
  BY <1>1, <1>4, <1>6, <1>9, <1>10 DEF Moves, N

\* A dispatch that was made runs.
LEMMA CommitMoves ==
  ASSUME NEW L, NEW d \in DspIds, Safe(L), L.dsp[d].state = "prepared"
  PROVE  Moves(L, Commit(L, d), d) /\ Settles(Commit(L, d), d)
<1> DEFINE N == Commit(L, d)
<1> HIDE DEF N
<1>0. L \in Ledger /\ d[1] \in AsgIds
  BY DspIdParts DEF Safe
<1>1. N \in Ledger
  BY <1>0, CommitType DEF N
<1>2. N = [revision |-> L.revision + 1, objective |-> L.objective, plan |-> L.plan,
           task |-> [L.task EXCEPT ![TaskOf(L, d)] = "running"],
           asg  |-> [L.asg EXCEPT ![d[1]].status = "dispatched"],
           dsp  |-> [L.dsp EXCEPT ![d].state = "running"]]
  BY <1>0, CommitFields DEF N
<1>3. /\ N.objective = L.objective
      /\ N.task = [L.task EXCEPT ![TaskOf(L, d)] = "running"]
      /\ N.asg = [L.asg EXCEPT ![d[1]].status = "dispatched"]
      /\ N.dsp = [L.dsp EXCEPT ![d].state = "running"]
  BY <1>2
<1>4. Live(L, d) /\ Found(L, d)
  BY FoundLive DEF Live, Unsettled
<1>5. \A e \in DspIds : e # d => N.dsp[e] = L.dsp[e]
  BY <1>0, <1>3, LedgerFields
<1>6. Moved(L, N, d)
  BY <1>0, <1>3, <1>5, FrameMoved
<1>7. /\ N.dsp[d].state = "running"
      /\ N.dsp[d].evidence = L.dsp[d].evidence
      /\ N.dsp[d].stop = L.dsp[d].stop
  BY <1>0, <1>3, LedgerRecords, LedgerFields DEF Dispatch
<1>8. /\ N.asg[d[1]].status = "dispatched"
      /\ N.task[TaskOf(L, d)] = "running"
  BY <1>0, <1>3, <1>4, LedgerRecords, LedgerFields DEF Assignment, Found, TaskOf
<1>9. Coherent(L, N, d)
  BY <1>4, <1>7, <1>8, FoundLive DEF Coherent, Active
<1>10. Settles(N, d)
  BY <1>4, <1>6, <1>7, <1>8, FoundLive, MovedKeeps DEF Settles, Moved, PendingStop
<1> QED
  BY <1>1, <1>4, <1>6, <1>9, <1>10 DEF Moves, N

\* A stop that is requested, proven or in doubt moves nothing else.
LEMMA SetStopMoves ==
  ASSUME NEW L, NEW d \in DspIds, Safe(L), L.dsp[d].state = "running",
         NEW s \in PendingStop
  PROVE  Moves(L, SetStop(L, d, s), d) /\ Settles(SetStop(L, d, s), d)
<1> DEFINE N == SetStop(L, d, s)
<1> HIDE DEF N
<1>0. L \in Ledger /\ d[1] \in AsgIds
  BY DspIdParts DEF Safe
<1>1. N \in Ledger
  BY <1>0, SetStopType DEF N
<1>2. N = [revision |-> L.revision + 1, objective |-> L.objective, plan |-> L.plan,
           task |-> L.task,
           asg  |-> L.asg,
           dsp  |-> [L.dsp EXCEPT ![d].stop = s]]
  BY <1>0, SetStopFields DEF N
<1>3. /\ N.objective = L.objective
      /\ N.task = L.task
      /\ N.asg = L.asg
      /\ N.dsp = [L.dsp EXCEPT ![d].stop = s]
  BY <1>2
<1>4. Live(L, d) /\ Found(L, d)
  BY FoundLive DEF Live, Unsettled
<1>5. \A e \in DspIds : e # d => N.dsp[e] = L.dsp[e]
  BY <1>0, <1>3, LedgerFields
<1>6. Moved(L, N, d)
  BY <1>0, <1>3, <1>5, FrameMoved
<1>7. /\ N.dsp[d].state = L.dsp[d].state
      /\ N.dsp[d].evidence = L.dsp[d].evidence
      /\ N.dsp[d].stop = s
  BY <1>0, <1>3, LedgerRecords, LedgerFields DEF Dispatch
<1>8. /\ N.asg[d[1]].status = L.asg[d[1]].status
      /\ N.task[TaskOf(L, d)] = L.task[TaskOf(L, d)]
  BY <1>0, <1>3, <1>4, LedgerRecords, LedgerFields DEF Assignment, Found, TaskOf
<1>9. Coherent(L, N, d)
  BY <1>4, <1>7, <1>8, FoundLive DEF Coherent, Active, PendingStop
<1>10. Settles(N, d)
  BY <1>4, <1>6, <1>7, <1>8, FoundLive, MovedKeeps DEF Settles, Moved, PendingStop
<1> QED
  BY <1>1, <1>4, <1>6, <1>9, <1>10 DEF Moves, N

\* A completed stop settles the attempt, its assignment and its task.
LEMMA CompleteStopMoves ==
  ASSUME NEW L, NEW d \in DspIds, Safe(L), L.dsp[d].state = "running"
  PROVE  Moves(L, CompleteStop(L, d), d) /\ Settles(CompleteStop(L, d), d)
<1> DEFINE N == CompleteStop(L, d)
<1> HIDE DEF N
<1>0. L \in Ledger /\ d[1] \in AsgIds
  BY DspIdParts DEF Safe
<1>1. N \in Ledger
  BY <1>0, CompleteStopType DEF N
<1>2. N = [revision |-> L.revision + 1, objective |-> L.objective, plan |-> L.plan,
           task |-> [L.task EXCEPT ![TaskOf(L, d)] = "cancelled"],
           asg  |-> [L.asg EXCEPT ![d[1]].status = "rejected"],
           dsp  |-> [L.dsp EXCEPT ![d].state = "cancelled", ![d].stop = "completed"]]
  BY <1>0, CompleteStopFields DEF N
<1>3. /\ N.objective = L.objective
      /\ N.task = [L.task EXCEPT ![TaskOf(L, d)] = "cancelled"]
      /\ N.asg = [L.asg EXCEPT ![d[1]].status = "rejected"]
      /\ N.dsp = [L.dsp EXCEPT ![d].state = "cancelled", ![d].stop = "completed"]
  BY <1>2
<1>4. Live(L, d) /\ Found(L, d)
  BY FoundLive DEF Live, Unsettled
<1>5. \A e \in DspIds : e # d => N.dsp[e] = L.dsp[e]
  BY <1>0, <1>3, LedgerFields
<1>6. Moved(L, N, d)
  BY <1>0, <1>3, <1>5, FrameMoved
<1>7. /\ N.dsp[d].state = "cancelled"
      /\ N.dsp[d].evidence = L.dsp[d].evidence
      /\ N.dsp[d].stop = "completed"
  BY <1>0, <1>3, LedgerRecords, LedgerFields DEF Dispatch
<1>8. /\ N.asg[d[1]].status = "rejected"
      /\ N.task[TaskOf(L, d)] = "cancelled"
  BY <1>0, <1>3, <1>4, LedgerRecords, LedgerFields DEF Assignment, Found, TaskOf
<1>9. Coherent(L, N, d)
  BY <1>4, <1>7, <1>8, FoundLive DEF Coherent, Active, PendingStop
<1>10. Settles(N, d)
  BY <1>4, <1>6, <1>7, <1>8, FoundLive, MovedKeeps DEF Settles, Moved, PendingStop
<1> QED
  BY <1>1, <1>4, <1>6, <1>9, <1>10 DEF Moves, N

\* Submitted evidence waits for its review.
LEMMA SubmitMoves ==
  ASSUME NEW L, NEW d \in DspIds, Safe(L), CanSubmit(L, d)
  PROVE  Moves(L, Submit(L, d), d)
<1> DEFINE N == Submit(L, d)
<1> HIDE DEF N
<1>0. L \in Ledger /\ d[1] \in AsgIds
  BY DspIdParts DEF Safe
<1>1. N \in Ledger
  BY <1>0, SubmitType DEF N
<1>2. N = [revision |-> L.revision + 1, objective |-> L.objective, plan |-> L.plan,
           task |-> [L.task EXCEPT ![TaskOf(L, d)] = "review"],
           asg  |-> L.asg,
           dsp  |-> [L.dsp EXCEPT ![d].state = "succeeded", ![d].evidence = "submitted"]]
  BY <1>0, SubmitFields DEF N
<1>3. /\ N.objective = L.objective
      /\ N.task = [L.task EXCEPT ![TaskOf(L, d)] = "review"]
      /\ N.asg = L.asg
      /\ N.dsp = [L.dsp EXCEPT ![d].state = "succeeded", ![d].evidence = "submitted"]
  BY <1>2
<1>4. Live(L, d) /\ Found(L, d)
  BY FoundLive DEF CanSubmit, Live, Unsettled
<1>5. \A e \in DspIds : e # d => N.dsp[e] = L.dsp[e]
  BY <1>0, <1>3, LedgerFields
<1>6. Moved(L, N, d)
  BY <1>0, <1>3, <1>5, FrameMoved
<1>7. /\ N.dsp[d].state = "succeeded"
      /\ N.dsp[d].evidence = "submitted"
      /\ N.dsp[d].stop = L.dsp[d].stop
  BY <1>0, <1>3, LedgerRecords, LedgerFields DEF Dispatch
<1>8. /\ N.asg[d[1]].status = L.asg[d[1]].status
      /\ N.task[TaskOf(L, d)] = "review"
  BY <1>0, <1>3, <1>4, LedgerRecords, LedgerFields DEF Assignment, Found, TaskOf
<1>9. Coherent(L, N, d)
  BY <1>4, <1>7, <1>8, FoundLive DEF Coherent, CanSubmit, Active
<1> QED
  BY <1>1, <1>4, <1>6, <1>9 DEF Moves, N

\* Rejected evidence returns the task to the queue.
LEMMA RejectMoves ==
  ASSUME NEW L, NEW d \in DspIds, Safe(L), CanReview(L, d)
  PROVE  Moves(L, Reject(L, d), d) /\ Settles(Reject(L, d), d)
<1> DEFINE N == Reject(L, d)
<1> HIDE DEF N
<1>0. L \in Ledger /\ d[1] \in AsgIds
  BY DspIdParts DEF Safe
<1>1. N \in Ledger
  BY <1>0, RejectType DEF N
<1>2. N = [revision |-> L.revision + 1, objective |-> "active", plan |-> L.plan,
           task |-> [L.task EXCEPT ![TaskOf(L, d)] = "ready"],
           asg  |-> [L.asg EXCEPT ![d[1]].status = "rejected"],
           dsp  |-> [L.dsp EXCEPT ![d].evidence = "rejected"]]
  BY <1>0, RejectFields DEF N
<1>3. /\ N.objective = "active"
      /\ N.task = [L.task EXCEPT ![TaskOf(L, d)] = "ready"]
      /\ N.asg = [L.asg EXCEPT ![d[1]].status = "rejected"]
      /\ N.dsp = [L.dsp EXCEPT ![d].evidence = "rejected"]
  BY <1>2
<1>4. Live(L, d) /\ Found(L, d)
  BY FoundLive DEF CanReview, Live, Unsettled
<1>5. \A e \in DspIds : e # d => N.dsp[e] = L.dsp[e]
  BY <1>0, <1>3, LedgerFields
<1>6. Moved(L, N, d)
  BY <1>0, <1>3, <1>5, FrameMoved
<1>7. /\ N.dsp[d].state = L.dsp[d].state
      /\ N.dsp[d].evidence = "rejected"
      /\ N.dsp[d].stop = L.dsp[d].stop
  BY <1>0, <1>3, LedgerRecords, LedgerFields DEF Dispatch
<1>8. /\ N.asg[d[1]].status = "rejected"
      /\ N.task[TaskOf(L, d)] = "ready"
  BY <1>0, <1>3, <1>4, LedgerRecords, LedgerFields DEF Assignment, Found, TaskOf
<1>9. Coherent(L, N, d)
  BY <1>4, <1>7, <1>8, FoundLive DEF Coherent, CanReview, Active
<1>10. Settles(N, d)
  BY <1>4, <1>6, <1>7, <1>8, FoundLive, MovedKeeps DEF Settles, Moved, PendingStop, CanReview
<1> QED
  BY <1>1, <1>4, <1>6, <1>9, <1>10 DEF Moves, N

\* A failed dispatch fails its task.
LEMMA FailDispatchMoves ==
  ASSUME NEW L, NEW d \in DspIds, Safe(L), L.dsp[d].state = "running"
  PROVE  Moves(L, FailDispatch(L, d), d)
<1> DEFINE N == FailDispatch(L, d)
<1> HIDE DEF N
<1>0. L \in Ledger /\ d[1] \in AsgIds
  BY DspIdParts DEF Safe
<1>1. N \in Ledger
  BY <1>0, FailDispatchType DEF N
<1>2. N = [revision |-> L.revision + 1, objective |-> "failed", plan |-> L.plan,
           task |-> [L.task EXCEPT ![TaskOf(L, d)] = "failed"],
           asg  |-> [L.asg EXCEPT ![d[1]].status = "rejected"],
           dsp  |-> [L.dsp EXCEPT ![d].state = "failed"]]
  BY <1>0, FailDispatchFields DEF N
<1>3. /\ N.objective = "failed"
      /\ N.task = [L.task EXCEPT ![TaskOf(L, d)] = "failed"]
      /\ N.asg = [L.asg EXCEPT ![d[1]].status = "rejected"]
      /\ N.dsp = [L.dsp EXCEPT ![d].state = "failed"]
  BY <1>2
<1>4. Live(L, d) /\ Found(L, d)
  BY FoundLive DEF Live, Unsettled
<1>5. \A e \in DspIds : e # d => N.dsp[e] = L.dsp[e]
  BY <1>0, <1>3, LedgerFields
<1>6. Moved(L, N, d)
  BY <1>0, <1>3, <1>5, FrameMoved
<1>7. /\ N.dsp[d].state = "failed"
      /\ N.dsp[d].evidence = L.dsp[d].evidence
      /\ N.dsp[d].stop = L.dsp[d].stop
  BY <1>0, <1>3, LedgerRecords, LedgerFields DEF Dispatch
<1>8. /\ N.asg[d[1]].status = "rejected"
      /\ N.task[TaskOf(L, d)] = "failed"
  BY <1>0, <1>3, <1>4, LedgerRecords, LedgerFields DEF Assignment, Found, TaskOf
<1>9. Coherent(L, N, d)
  BY <1>4, <1>7, <1>8, FoundLive DEF Coherent, Active
<1> QED
  BY <1>1, <1>4, <1>6, <1>9 DEF Moves, N

\* completeAndUnlockTasks completes one task and readies what waited for it.
LEMMA UnlockMoves ==
  ASSUME NEW S \in [Tasks -> TaskStatus], NEW t \in Tasks, NEW T, T = CompleteAndUnlock(S, t)
  PROVE  /\ T[t] = "completed"
         /\ \A u \in Tasks : u # t =>
              \/ T[u] = S[u]
              \/ S[u] = "blocked" /\ T[u] = "ready" /\ \A v \in Deps[u] : T[v] = "completed"
<1> DEFINE done == [S EXCEPT ![t] = "completed"]
<1>1. \A u \in Tasks : done[u] = IF u = t THEN "completed" ELSE S[u]
  OBVIOUS
<1>2. \A u \in Tasks :
        T[u] = IF done[u] = "blocked" /\ \A v \in Deps[u] : done[v] = "completed"
               THEN "ready" ELSE done[u]
  BY DEF CompleteAndUnlock
<1> HIDE DEF done
<1>3. \A u \in Tasks : done[u] = "completed" => T[u] = "completed"
  BY <1>2
<1>4. \A u \in Tasks : \A v \in Deps[u] : v \in Tasks
  BY PlanAssumption
<1> QED
  BY <1>1, <1>2, <1>3, <1>4

\* Accepting evidence closes the objective and the plan only with the last task.
LEMMA AcceptCloses ==
  ASSUME NEW L \in Ledger, NEW d, NEW N, N = Accept(L, d)
  PROVE  N.objective = "completed" =>
           \/ L.objective = "completed"
           \/ N.plan = "completed" /\ \A t \in Tasks : N.task[t] = "completed"
<1> DEFINE T == CompleteAndUnlock(L.task, TaskOf(L, d))
           closed == \A t \in Tasks : T[t] = "completed"
<1> HIDE DEF T, closed
<1>1. N = [L EXCEPT !.revision = @ + 1,
                    !.objective = IF closed THEN "completed" ELSE @,
                    !.plan = IF closed THEN "completed" ELSE @,
                    !.task = T,
                    !.asg[d[1]].status = "completed",
                    !.dsp[d].evidence = "accepted"]
  BY DEF Accept, T, closed
<1>2. /\ N.objective = IF closed THEN "completed" ELSE L.objective
      /\ N.plan = IF closed THEN "completed" ELSE L.plan
      /\ N.task = T
  BY <1>1 DEF Ledger
<1> QED
  BY <1>2 DEF closed

\* Accepted evidence completes its attempt's task, and what waited only for it is ready.
LEMMA AcceptedMoves ==
  ASSUME NEW L, NEW N \in Ledger, NEW d \in DspIds, Safe(L), Live(L, d),
         L.dsp[d].state \in {"running", "succeeded"},
         L.dsp[d].stop \notin PendingStop,
         NEW S \in [Tasks -> TaskStatus],
         \A t \in Tasks : t # TaskOf(L, d) => S[t] = L.task[t],
         N.task = CompleteAndUnlock(S, TaskOf(L, d)),
         N.asg = [L.asg EXCEPT ![d[1]].status = "completed"],
         \A e \in DspIds : e # d => N.dsp[e] = L.dsp[e],
         N.dsp[d].state = "succeeded",
         N.dsp[d].evidence = "accepted",
         N.dsp[d].stop = L.dsp[d].stop,
         N.objective = "completed" =>
           \/ L.objective = "completed"
           \/ N.plan = "completed" /\ \A t \in Tasks : N.task[t] = "completed"
  PROVE  Moves(L, N, d) /\ Settles(N, d)
<1>0. L \in Ledger /\ d[1] \in AsgIds /\ L.asg[d[1]] \in Assignment
  BY DspIdParts, LedgerRecords DEF Safe
<1>1. Found(L, d) /\ TaskOf(L, d) \in Tasks
  BY FoundLive DEF Found, TaskOf
<1>2. /\ N.task[TaskOf(L, d)] = "completed"
      /\ \A t \in Tasks : t # TaskOf(L, d) =>
           \/ N.task[t] = S[t]
           \/ S[t] = "blocked" /\ N.task[t] = "ready" /\ \A u \in Deps[t] : N.task[u] = "completed"
  BY <1>1, UnlockMoves
<1>3. /\ \A a \in AsgIds : a # d[1] => N.asg[a] = L.asg[a]
      /\ N.asg[d[1]].status = "completed"
      /\ N.asg[d[1]].task = L.asg[d[1]].task
      /\ N.asg[d[1]].worker = L.asg[d[1]].worker
      /\ N.asg[d[1]].gate = L.asg[d[1]].gate
  BY <1>0, LedgerFields DEF Assignment
<1>4. Moved(L, N, d)
  BY <1>2, <1>3 DEF Moved
<1>5. Coherent(L, N, d)
  BY <1>2, <1>3 DEF Coherent, Active
<1>6. Settles(N, d)
  BY <1>3, FoundLive DEF Settles
<1> QED
  BY <1>1, <1>4, <1>5, <1>6 DEF Moves

\* The review accepts evidence that waits for it.
LEMMA AcceptMoves ==
  ASSUME NEW L, NEW d \in DspIds, Safe(L), CanReview(L, d)
  PROVE  Moves(L, Accept(L, d), d) /\ Settles(Accept(L, d), d)
<1> DEFINE N == Accept(L, d)
<1> HIDE DEF N
<1>0. L \in Ledger /\ L.dsp[d] \in Dispatch
  BY LedgerRecords DEF Safe
<1>1. N \in Ledger
  BY <1>0, AcceptType DEF N
<1>2. /\ N.task = CompleteAndUnlock(L.task, TaskOf(L, d))
      /\ N.asg = [L.asg EXCEPT ![d[1]].status = "completed"]
      /\ N.dsp = [L.dsp EXCEPT ![d].evidence = "accepted"]
  BY <1>0, AcceptFields DEF N
<1>3. Live(L, d) /\ L.dsp[d].state = "succeeded" /\ L.dsp[d].stop \notin PendingStop
  BY FoundLive DEF CanReview, Live
<1>4. /\ \A e \in DspIds : e # d => N.dsp[e] = L.dsp[e]
      /\ N.dsp[d].state = "succeeded"
      /\ N.dsp[d].evidence = "accepted"
      /\ N.dsp[d].stop = L.dsp[d].stop
  BY <1>0, <1>2, <1>3, LedgerFields DEF Dispatch
<1>5. N.objective = "completed" =>
        \/ L.objective = "completed"
        \/ N.plan = "completed" /\ \A t \in Tasks : N.task[t] = "completed"
  BY <1>0, AcceptCloses DEF N
<1>6. L.task \in [Tasks -> TaskStatus]
  BY <1>0, LedgerFields
<1> QED
  BY <1>1, <1>2, <1>3, <1>4, <1>5, <1>6, AcceptedMoves DEF N

\* A report that policy accepts is submitted and reviewed at once; the schema
\* refuses its submission while a stop is pending.
LEMMA ReportAcceptedMoves ==
  ASSUME NEW L, NEW d \in DspIds, Safe(L), CanSubmit(L, d), Valid(Submit(L, d))
  PROVE  Moves(L, ReportAccepted(L, d), d)
<1> DEFINE S == Submit(L, d)
           M == Accept(S, d)
           N == ReportAccepted(L, d)
<1>0. L \in Ledger /\ L.dsp[d] \in Dispatch
  BY LedgerRecords DEF Safe
<1>1. S \in Ledger /\ M \in Ledger /\ N \in Ledger
  BY <1>0, SubmitType, AcceptType, ReportAcceptedType
<1>2. /\ S.objective = L.objective
      /\ S.task = [L.task EXCEPT ![TaskOf(L, d)] = "review"]
      /\ S.asg = L.asg
      /\ S.dsp = [L.dsp EXCEPT ![d].state = "succeeded", ![d].evidence = "submitted"]
  <2> HIDE DEF S
  <2>1. S = [revision |-> L.revision + 1, objective |-> L.objective, plan |-> L.plan,
             task |-> [L.task EXCEPT ![TaskOf(L, d)] = "review"], asg |-> L.asg,
             dsp |-> [L.dsp EXCEPT ![d].state = "succeeded", ![d].evidence = "submitted"]]
    BY <1>0, SubmitFields DEF S
  <2> QED
    BY <2>1
<1>3. N = [M EXCEPT !.revision = L.revision + 1]
  BY DEF ReportAccepted
<1>4. Valid(S)
  OBVIOUS
<1> HIDE DEF S, M, N
<1>5. TaskOf(S, d) = TaskOf(L, d)
  BY <1>2 DEF TaskOf
<1>6. /\ M.task = CompleteAndUnlock(S.task, TaskOf(L, d))
      /\ M.asg = [L.asg EXCEPT ![d[1]].status = "completed"]
      /\ M.dsp = [S.dsp EXCEPT ![d].evidence = "accepted"]
  BY <1>1, <1>2, <1>5, AcceptFields DEF M
<1>7. /\ N.task = M.task /\ N.asg = M.asg /\ N.dsp = M.dsp
      /\ N.objective = M.objective /\ N.plan = M.plan
  BY <1>1, <1>3 DEF Ledger
<1>8. /\ \A e \in DspIds : e # d => N.dsp[e] = L.dsp[e]
      /\ S.dsp[d].state = "succeeded"
      /\ S.dsp[d].stop = L.dsp[d].stop
      /\ N.dsp[d].state = "succeeded"
      /\ N.dsp[d].evidence = "accepted"
      /\ N.dsp[d].stop = L.dsp[d].stop
  BY <1>0, <1>2, <1>6, <1>7, LedgerFields DEF Dispatch
<1>9. L.dsp[d].stop \notin PendingStop
  BY <1>4, <1>8 DEF Valid, ValidStops
<1>10. Live(L, d) /\ L.dsp[d].state = "running"
  BY DEF CanSubmit, Live, Unsettled
<1>11. N.objective = "completed" =>
         \/ L.objective = "completed"
         \/ N.plan = "completed" /\ \A t \in Tasks : N.task[t] = "completed"
  <2>1. M = Accept(S, d)
    BY DEF M
  <2>2. M.objective = "completed" =>
          \/ S.objective = "completed"
          \/ M.plan = "completed" /\ \A t \in Tasks : M.task[t] = "completed"
    BY <1>1, <2>1, AcceptCloses
  <2> QED
    BY <1>2, <1>7, <2>2
<1>12. /\ S.task \in [Tasks -> TaskStatus]
       /\ \A t \in Tasks : t # TaskOf(L, d) => S.task[t] = L.task[t]
  BY <1>0, <1>1, <1>2, LedgerFields
<1>13. /\ N.task = CompleteAndUnlock(S.task, TaskOf(L, d))
       /\ N.asg = [L.asg EXCEPT ![d[1]].status = "completed"]
  BY <1>6, <1>7, Zenon
<1>14. Moves(L, N, d)
  <2>1. PICK T \in [Tasks -> TaskStatus] : T = S.task
    BY <1>12
  <2>2. /\ N.task = CompleteAndUnlock(T, TaskOf(L, d))
        /\ \A t \in Tasks : t # TaskOf(L, d) => T[t] = L.task[t]
    BY <1>12, <1>13, <2>1, Zenon
  <2>3. L.dsp[d].state \in {"running", "succeeded"}
    BY <1>10
  <2> QED
    BY <1>1, <1>8, <1>9, <1>10, <1>11, <1>13, <2>2, <2>3, AcceptedMoves
<1> QED
  BY <1>14 DEF N

-----------------------------------------------------------------------------
(* Assignment, reassignment and the approval gate move no attempt.           *)

\* The next id is above every id in use, and nothing was ever made under it.
LEMMA FreshId ==
  ASSUME NEW L, NEW a \in AsgIds, Safe(L), NextAssignmentId(L, a)
  PROVE  /\ L.asg[a] = NoAssignment
         /\ \A b \in AsgIds : L.asg[b].status # "absent" => b < a
         /\ \A b \in AsgIds : b >= a => L.asg[b].task \notin Tasks
         /\ \A d \in DspIds : d[1] = a =>
              /\ L.dsp[d].state = "absent"
              /\ L.dsp[d].evidence = "none"
              /\ L.dsp[d].stop \notin PendingStop \cup {"completed"}
<1>1. L.asg[a] = NoAssignment
  BY DEF NextAssignmentId, Safe, Progress, Used
<1>2. ASSUME NEW b \in AsgIds, L.asg[b].status # "absent" PROVE b < a
  <2>1. ~(a < b)
    BY <1>2 DEF NextAssignmentId, Safe, Order, InOrder
  <2>2. a # b
    BY <1>2 DEF NextAssignmentId
  <2> QED
    BY <2>1, <2>2, LimitAssumption DEF AsgIds
<1>3. ASSUME NEW b \in AsgIds, b >= a PROVE L.asg[b].task \notin Tasks
  <2>1. L.asg[b].status = "absent"
    BY <1>2, <1>3, LimitAssumption DEF AsgIds
  <2>2. L.asg[b] = NoAssignment
    BY <2>1 DEF Safe, Progress, Used
  <2> QED
    BY <2>2, PlanAssumption DEF NoAssignment
<1>4. \A d \in DspIds : d[1] = a => L.dsp[d].state = "absent"
  BY DEF NextAssignmentId, Safe, Lifecycle, NoAttemptBeforeAssignment
<1>5. \A d \in DspIds : L.dsp[d].state = "absent" =>
        /\ L.dsp[d].evidence = "none"
        /\ L.dsp[d].stop \notin PendingStop \cup {"completed"}
  BY DEF Safe, Valid, ValidEvidence, ValidStops
<1> QED
  BY <1>1, <1>2, <1>3, <1>4, <1>5

\* What assigning and reassigning have in common: a task without an active
\* assignment gets one under the next id, and only its stopped assignment, whose
\* successor this is, changes with it.
Succeeds(L, N, b, t, w) ==
  /\ L.asg[b].status = "rejected"
  /\ L.asg[b].task = t
  /\ L.asg[b].worker # w
  /\ LastOfTask(L, b)
  /\ N.asg[b].status = "reassigned"
  /\ N.asg[b].task = t
  /\ N.asg[b].worker = L.asg[b].worker
  /\ N.asg[b].gate = L.asg[b].gate

Added(L, N, t, w, a) ==
  /\ ActiveOn(L, t) = {}
  /\ L.task[t] \in {"ready", "cancelled"}
  /\ N.task[t] = "ready"
  /\ \A u \in Tasks : u # t => N.task[u] = L.task[u]
  /\ N.asg[a] = NewAssignment(t, w)
  /\ \A b \in AsgIds : b # a => N.asg[b] = L.asg[b] \/ Succeeds(L, N, b, t, w)
  /\ N.dsp = L.dsp
  /\ N.objective = L.objective
  /\ N.plan = L.plan
  /\ \A e \in DspIds :
       L.dsp[e].stop = "completed" /\ N.asg[e[1]].status = "rejected" => TaskOf(L, e) # t

\* The new assignment disturbs no attempt: all of them belong to others.
LEMMA AddedApart ==
  ASSUME NEW L, NEW N, NEW t \in Tasks, NEW w \in Workers, NEW a \in AsgIds,
         Safe(L), NextAssignmentId(L, a), Added(L, N, t, w, a)
  PROVE  /\ \A b \in AsgIds : b # a =>
              /\ N.asg[b].task = L.asg[b].task
              /\ N.asg[b].worker = L.asg[b].worker
              /\ N.asg[b].gate = L.asg[b].gate
         /\ \A b \in AsgIds : L.asg[b].status \notin {"absent", "rejected"} =>
              b # a /\ N.asg[b] = L.asg[b]
         /\ \A b \in AsgIds : L.asg[b].status \in Active =>
              b # a /\ N.asg[b] = L.asg[b] /\ L.asg[b].task \in Tasks /\ L.asg[b].task # t
         /\ \A b \in AsgIds : N.asg[b].status \in Active /\ b # a => N.asg[b] = L.asg[b]
<1>1. L.asg[a].status = "absent"
  BY DEF NextAssignmentId
<1>2. \A b \in AsgIds : b # a =>
        /\ N.asg[b].task = L.asg[b].task
        /\ N.asg[b].worker = L.asg[b].worker
        /\ N.asg[b].gate = L.asg[b].gate
  BY DEF Added, Succeeds
<1>3. \A b \in AsgIds : L.asg[b].status \notin {"absent", "rejected"} => b # a /\ N.asg[b] = L.asg[b]
  BY <1>1 DEF Added, Succeeds
<1>4. \A b \in AsgIds : L.asg[b].status \in Active =>
        b # a /\ N.asg[b] = L.asg[b] /\ L.asg[b].task \in Tasks /\ L.asg[b].task # t
  <2>1. \A b \in AsgIds : L.asg[b].status \in Active => L.asg[b].task \in Tasks
    BY DEF Active, Safe, Progress, Used
  <2> QED
    BY <1>3, <2>1 DEF Added, ActiveOn, Active
<1>5. \A b \in AsgIds : N.asg[b].status \in Active /\ b # a => N.asg[b] = L.asg[b]
  BY DEF Added, Succeeds, Active
<1> QED
  BY <1>2, <1>3, <1>4, <1>5

\* Tasks, attempts and assignments still agree.
LEMMA AddedProgress ==
  ASSUME NEW L, NEW N, NEW t \in Tasks, NEW w \in Workers, NEW a \in AsgIds,
         Safe(L), NextAssignmentId(L, a), Added(L, N, t, w, a)
  PROVE  Progress(N)
<1>0. \A d \in DspIds : d[1] \in AsgIds /\ d = <<d[1], d[2]>> /\ d[2] \in Attempts
  BY DspIdParts
<1>1. /\ N.asg[a].status = "approved" /\ N.asg[a].task = t /\ N.asg[a].worker = w
      /\ N.dsp = L.dsp
  BY DEF Added, NewAssignment
<1>2. Used(N)
  <2> SUFFICES ASSUME NEW b \in AsgIds, b # a
               PROVE  /\ N.asg[b].status = "absent" => N.asg[b] = NoAssignment
                      /\ N.asg[b].status # "absent" => N.asg[b].task \in Tasks /\ N.asg[b].worker \in Workers
    BY <1>1 DEF Used
  <2>1. CASE N.asg[b] = L.asg[b]
    BY <2>1 DEF Safe, Progress, Used
  <2>2. CASE Succeeds(L, N, b, t, w)
    BY <2>2 DEF Succeeds, Safe, Progress, Used
  <2> QED
    BY <2>1, <2>2 DEF Added
<1>3. \A d \in DspIds : Live(L, d) => L.asg[d[1]].status \in Active
  BY DEF Safe, Lifecycle, AttemptMatchesAssignment, Live, Unsettled, Active
<1>4. ASSUME NEW d \in DspIds, Live(L, d)
      PROVE  TaskOf(N, d) = TaskOf(L, d) /\ N.task[TaskOf(N, d)] = L.task[TaskOf(L, d)]
  <2>1. /\ d[1] \in AsgIds /\ N.asg[d[1]] = L.asg[d[1]]
        /\ L.asg[d[1]].task \in Tasks /\ L.asg[d[1]].task # t
    <3>1. d[1] \in AsgIds /\ L.asg[d[1]].status \in Active
      BY <1>0, <1>3, <1>4
    <3>2. d[1] # a /\ N.asg[d[1]] = L.asg[d[1]]
      BY <3>1 DEF NextAssignmentId, Added, Succeeds, Active
    <3>3. L.asg[d[1]].task \in Tasks
      BY <3>1 DEF Safe, Progress, Used, Active
    <3> QED
      BY <3>1, <3>2, <3>3 DEF Added, ActiveOn
  <2> QED
    BY <2>1 DEF Added, TaskOf
<1>5. ASSUME NEW d \in DspIds, L.dsp[d].evidence = "accepted"
      PROVE  /\ TaskOf(N, d) = TaskOf(L, d)
             /\ N.task[TaskOf(N, d)] = "completed" /\ N.asg[d[1]].status = "completed"
  <2>1. L.task[TaskOf(L, d)] = "completed" /\ L.asg[d[1]].status = "completed"
    BY <1>5 DEF Safe, Progress, TaskFollowsAttempt
  <2>2. N.asg[d[1]] = L.asg[d[1]] /\ L.asg[d[1]].task \in Tasks
    BY <1>0, <2>1, AddedApart DEF Safe, Progress, Used
  <2>3. L.asg[d[1]].task # t
    BY <2>1 DEF Added, TaskOf
  <2> QED
    BY <2>1, <2>2, <2>3 DEF Added, TaskOf
<1>6. TaskFollowsAttempt(N)
  <2>1. ASSUME NEW b \in AsgIds, N.asg[b].status = "approved"
        PROVE  N.task[N.asg[b].task] = "ready"
    <3>1. CASE b = a
      BY <1>1, <3>1 DEF Added
    <3>2. CASE b # a
      <4>0. N.asg[b].status \in Active
        BY <2>1 DEF Active
      <4>1. N.asg[b] = L.asg[b]
        BY <3>2, <4>0, AddedApart
      <4>2. L.task[L.asg[b].task] = "ready" /\ L.asg[b].task \in Tasks /\ L.asg[b].task # t
        BY <2>1, <4>0, <4>1, AddedApart DEF Safe, Progress, TaskFollowsAttempt
      <4> QED
        BY <4>1, <4>2 DEF Added
    <3> QED
      BY <3>1, <3>2
  <2>2. \A d \in DspIds :
          /\ N.dsp[d].state = "running" => N.task[TaskOf(N, d)] = "running"
          /\ N.dsp[d].evidence = "submitted" => N.task[TaskOf(N, d)] = "review"
    BY <1>1, <1>4 DEF Live, Unsettled, Safe, Progress, TaskFollowsAttempt
  <2> QED
    BY <1>1, <1>5, <2>1, <2>2 DEF TaskFollowsAttempt
<1>7. OneAccepted(N)
  BY <1>1, <1>5 DEF OneAccepted, Safe, Progress
<1>8. Owned(N)
  <2>1. \A b \in AsgIds : N.asg[b].status = "dispatched" => L.asg[b].status = "dispatched"
    BY <1>1 DEF Added, Succeeds
  <2> QED
    BY <1>1, <2>1 DEF Owned, Safe, Progress
<1>9. ClosedTogether(N)
  BY DEF Added, ClosedTogether, Safe, Progress
<1> QED
  BY <1>2, <1>6, <1>7, <1>8, <1>9 DEF Progress

\* The new assignment is the last of its task and the successor of the stopped one.
LEMMA AddedOrder ==
  ASSUME NEW L, NEW N, NEW t \in Tasks, NEW w \in Workers, NEW a \in AsgIds,
         Safe(L), NextAssignmentId(L, a), Added(L, N, t, w, a)
  PROVE  Order(N)
<1>0. \A d \in DspIds : d[1] \in AsgIds
  BY DspIdParts
<1>1. N.asg[a].status = "approved" /\ N.asg[a].task = t /\ N.asg[a].worker = w
  BY DEF Added, NewAssignment
<1>2. \A b \in AsgIds : b # a => N.asg[b].task = L.asg[b].task /\ N.asg[b].worker = L.asg[b].worker
  BY AddedApart
<1>3. \A b \in AsgIds : b # a => (N.asg[b].status = "absent" <=> L.asg[b].status = "absent")
  BY DEF Added, Succeeds
<1>4. InOrder(N)
  <2> SUFFICES ASSUME NEW b \in AsgIds, NEW c \in AsgIds, b < c, N.asg[c].status # "absent"
               PROVE  N.asg[b].status # "absent"
    BY DEF InOrder
  <2>1. CASE b = a
    BY <1>1, <2>1
  <2>2. CASE b # a /\ c = a
    BY <1>3, <2>2 DEF NextAssignmentId
  <2>3. CASE b # a /\ c # a
    BY <1>3, <2>3 DEF Safe, Order, InOrder
  <2> QED
    BY <2>1, <2>2, <2>3
<1>5. ASSUME NEW b \in AsgIds, b # a, LastOfTask(L, b), L.asg[b].task # t
      PROVE  LastOfTask(N, b)
  BY <1>1, <1>2, <1>5 DEF LastOfTask
<1>6. ActiveIsLast(N)
  <2> SUFFICES ASSUME NEW b \in AsgIds, N.asg[b].status \in Active
               PROVE  LastOfTask(N, b)
    BY DEF ActiveIsLast
  <2>1. CASE b = a
    <3>1. \A c \in AsgIds : c > a => L.asg[c].task \notin Tasks /\ c # a
      BY FreshId, LimitAssumption DEF AsgIds
    <3> QED
      BY <1>1, <1>2, <2>1, <3>1 DEF LastOfTask
  <2>2. CASE b # a
    <3>1. N.asg[b] = L.asg[b]
      BY <2>2, AddedApart
    <3>2. L.asg[b].task # t /\ LastOfTask(L, b)
      <4>1. L.asg[b].task # t
        BY <3>1, AddedApart
      <4> QED
        BY <3>1, <4>1 DEF Safe, Order, ActiveIsLast
    <3> QED
      BY <1>5, <2>2, <3>2
  <2> QED
    BY <2>1, <2>2
<1>7. StoppedIsLast(N)
  <2> SUFFICES ASSUME NEW e \in DspIds, N.dsp[e].stop = "completed",
                      N.asg[e[1]].status = "rejected"
               PROVE  LastOfTask(N, e[1])
    BY DEF StoppedIsLast
  <2>1. L.dsp[e].stop = "completed" /\ e[1] # a
    BY <1>1 DEF Added
  <2>2. N.asg[e[1]] = L.asg[e[1]]
    BY <1>0, <2>1 DEF Added, Succeeds
  <2>3. LastOfTask(L, e[1]) /\ L.asg[e[1]].task # t
    BY <2>1, <2>2 DEF Added, TaskOf, Safe, Order, StoppedIsLast
  <2> QED
    BY <1>0, <1>5, <2>1, <2>3
<1>8. Succeeded(N)
  <2> SUFFICES ASSUME NEW b \in AsgIds, N.asg[b].status = "reassigned"
               PROVE  \E c \in AsgIds :
                        /\ c > b
                        /\ N.asg[c].task = N.asg[b].task
                        /\ N.asg[c].worker # N.asg[b].worker
                        /\ \A x \in (b + 1) .. (c - 1) : N.asg[x].task # N.asg[b].task
    BY DEF Succeeded
  <2>0. b # a /\ L.asg[b].status # "absent" /\ b < a /\ N.asg[b].task \in Tasks
    <3>1. b # a
      BY <1>1
    <3>2. L.asg[b].status # "absent"
      BY <1>3, <3>1
    <3> QED
      BY <1>2, <3>1, <3>2, FreshId DEF Safe, Progress, Used
  <2>1. CASE Succeeds(L, N, b, t, w)
    <3>1. \A x \in (b + 1) .. (a - 1) : x \in AsgIds /\ x > b /\ x # a
      BY LimitAssumption DEF AsgIds
    <3>2. \A x \in (b + 1) .. (a - 1) : N.asg[x].task # t
      BY <1>2, <2>1, <3>1 DEF Succeeds, LastOfTask
    <3>3. N.asg[a].task = N.asg[b].task /\ N.asg[a].worker # N.asg[b].worker
      BY <1>1, <2>1 DEF Succeeds
    <3>4. a > b /\ N.asg[b].task = t
      BY <1>1, <2>0, <3>3 DEF AsgIds
    <3> WITNESS a \in AsgIds
    <3> QED
      BY <3>2, <3>3, <3>4
  <2>2. CASE N.asg[b] = L.asg[b]
    <3>1. PICK c \in AsgIds :
                 /\ c > b
                 /\ L.asg[c].task = L.asg[b].task
                 /\ L.asg[c].worker # L.asg[b].worker
                 /\ \A x \in (b + 1) .. (c - 1) : L.asg[x].task # L.asg[b].task
      BY <2>2 DEF Safe, Order, Succeeded
    <3>2. c < a
      BY <2>0, <2>2, <3>1, FreshId, LimitAssumption DEF AsgIds
    <3>3. \A x \in (b + 1) .. (c - 1) : x \in AsgIds /\ x # a
      BY <3>2, LimitAssumption DEF AsgIds
    <3>4. c # a
      BY <3>2, LimitAssumption DEF AsgIds
    <3> WITNESS c \in AsgIds
    <3> QED
      BY <1>2, <2>2, <3>1, <3>3, <3>4
  <2> QED
    BY <2>0, <2>1, <2>2 DEF Added
<1> QED
  BY <1>4, <1>6, <1>7, <1>8 DEF Order

\* Nothing settled or frozen changes.
LEMMA AddedFinal ==
  ASSUME NEW L, NEW N, NEW t \in Tasks, NEW w \in Workers, NEW a \in AsgIds,
         Safe(L), NextAssignmentId(L, a), Added(L, N, t, w, a)
  PROVE  Final(L, N) /\ Freezes(L, N)
<1>1. \A b \in AsgIds :
        /\ L.asg[b].status \in {"completed", "reassigned"} => N.asg[b] = L.asg[b]
        /\ L.asg[b].gate \in {"approved", "rejected"} => N.asg[b].gate = L.asg[b].gate
  <2>1. L.asg[a].gate = "none"
    BY FreshId DEF NoAssignment
  <2> QED
    BY <2>1, AddedApart
<1>2. \A u \in Tasks : L.task[u] \in {"completed", "failed"} => N.task[u] = L.task[u]
  BY DEF Added
<1>3. Final(L, N)
  BY <1>1, <1>2 DEF Final, Added
<1>4. ASSUME NEW d \in DspIds, L.dsp[d].stop \in PendingStop
      PROVE  N.asg[d[1]] = L.asg[d[1]] /\ N.task[TaskOf(L, d)] = L.task[TaskOf(L, d)]
  <2>1. d[1] \in AsgIds /\ L.asg[d[1]].status \in Active
    BY <1>4, DspIdParts DEF Safe, Valid, ValidStops, Active
  <2>2. N.asg[d[1]] = L.asg[d[1]] /\ L.asg[d[1]].task \in Tasks /\ L.asg[d[1]].task # t
    BY <2>1, AddedApart
  <2> QED
    BY <2>2 DEF Added, TaskOf
<1>5. Freezes(L, N)
  BY <1>4 DEF Freezes, Added
<1> QED
  BY <1>3, <1>5

\* Assigning a ready task adds its assignment.
LEMMA AssignAdds ==
  ASSUME NEW L, Safe(L), NEW t \in Tasks, NEW w \in Workers, NEW a \in AsgIds, CanAssign(L, t, w, a)
  PROVE  Added(L, Assign(L, t, w, a), t, w, a)
<1> DEFINE N == Assign(L, t, w, a)
<1> HIDE DEF N
<1>0. L \in Ledger
  BY DEF Safe
<1>1. /\ N.objective = L.objective /\ N.plan = L.plan
      /\ N.task = L.task
      /\ N.asg = [L.asg EXCEPT ![a] = NewAssignment(t, w)]
      /\ N.dsp = L.dsp
  <2>1. N = [revision |-> L.revision + 1, objective |-> L.objective, plan |-> L.plan,
             task |-> L.task, asg |-> [L.asg EXCEPT ![a] = NewAssignment(t, w)], dsp |-> L.dsp]
    BY <1>0, AssignFields DEF N
  <2> QED
    BY <2>1
<1>2. /\ N.asg[a] = NewAssignment(t, w)
      /\ \A b \in AsgIds : b # a => N.asg[b] = L.asg[b]
  BY <1>0, <1>1, LedgerFields
<1>3. L.task[t] = "ready" /\ ActiveOn(L, t) = {}
  BY DEF CanAssign, Selectable
<1>4. ASSUME NEW e \in DspIds, L.dsp[e].stop = "completed", N.asg[e[1]].status = "rejected"
      PROVE  TaskOf(L, e) # t
  <2>1. L.asg[e[1]].status = "rejected"
    BY <1>2, <1>4, DspIdParts DEF NewAssignment
  <2>2. L.task[TaskOf(L, e)] = "cancelled"
    BY <1>4, <2>1 DEF Safe, Valid, ValidStops
  <2> QED
    BY <1>3, <2>2
<1> QED
  BY <1>1, <1>2, <1>3, <1>4 DEF Added, N

\* Reassigning a stopped task adds its next assignment; of two stopped assignments
\* only the last waits for a successor.
LEMMA ReassignAdds ==
  ASSUME NEW L, Safe(L), NEW d \in DspIds, NEW w \in Workers, NEW a \in AsgIds, CanReassign(L, d, w, a)
  PROVE  Added(L, Reassign(L, d, w, a), TaskOf(L, d), w, a) /\ TaskOf(L, d) \in Tasks
<1> DEFINE N == Reassign(L, d, w, a)
           t == TaskOf(L, d)
<1> HIDE DEF N, t
<1>0. L \in Ledger /\ d[1] \in AsgIds
  BY DspIdParts DEF Safe
<1>1. /\ N.objective = L.objective /\ N.plan = L.plan
      /\ N.task = [L.task EXCEPT ![t] = "ready"]
      /\ N.asg = [L.asg EXCEPT ![d[1]].status = "reassigned", ![a] = NewAssignment(t, w)]
      /\ N.dsp = L.dsp
  <2>1. N = [revision |-> L.revision + 1, objective |-> L.objective, plan |-> L.plan,
             task |-> [L.task EXCEPT ![t] = "ready"],
             asg |-> [L.asg EXCEPT ![d[1]].status = "reassigned", ![a] = NewAssignment(t, w)],
             dsp |-> L.dsp]
    BY <1>0, ReassignFields DEF N, t
  <2> QED
    BY <2>1
<1>2. /\ L.asg[d[1]].status = "rejected" /\ L.asg[a].status = "absent"
      /\ L.dsp[d].stop = "completed"
      /\ L.task[t] = "cancelled"
      /\ ActiveOn(L, t) = {}
      /\ L.asg[d[1]].worker # w
  BY DEF CanReassign, NextAssignmentId, Selectable, t
<1>3. t \in Tasks /\ L.asg[d[1]].task = t
  BY <1>0, <1>2 DEF t, TaskOf, Safe, Progress, Used
<1>4. d[1] # a
  BY <1>2
<1>5. /\ N.asg[a] = NewAssignment(t, w)
      /\ \A b \in AsgIds : b # a /\ b # d[1] => N.asg[b] = L.asg[b]
      /\ N.asg[d[1]].status = "reassigned"
      /\ N.asg[d[1]].task = L.asg[d[1]].task
      /\ N.asg[d[1]].worker = L.asg[d[1]].worker
      /\ N.asg[d[1]].gate = L.asg[d[1]].gate
  <2>1. L.asg \in [AsgIds -> Assignment] /\ L.asg[d[1]] \in Assignment
    BY <1>0, LedgerFields
  <2> QED
    BY <1>0, <1>1, <1>4, <2>1 DEF Assignment
<1>6. LastOfTask(L, d[1])
  BY <1>2 DEF Safe, Order, StoppedIsLast
<1>7. Succeeds(L, N, d[1], t, w)
  BY <1>2, <1>3, <1>5, <1>6 DEF Succeeds
<1>8. /\ N.task[t] = "ready"
      /\ \A u \in Tasks : u # t => N.task[u] = L.task[u]
  BY <1>0, <1>1, <1>3, LedgerFields
<1>9. ASSUME NEW e \in DspIds, L.dsp[e].stop = "completed", N.asg[e[1]].status = "rejected",
             TaskOf(L, e) = t
      PROVE  FALSE
  <2>1. e[1] \in AsgIds /\ e[1] # d[1] /\ e[1] # a
    BY <1>5, <1>9, DspIdParts DEF NewAssignment
  <2>2. L.asg[e[1]].status = "rejected" /\ L.asg[e[1]].task = t
    BY <1>5, <1>9, <2>1 DEF TaskOf
  <2>3. LastOfTask(L, e[1])
    BY <1>9, <2>2 DEF Safe, Order, StoppedIsLast
  <2>4. ~(e[1] > d[1])
    BY <1>3, <1>6, <2>1, <2>2 DEF LastOfTask
  <2>5. ~(d[1] > e[1])
    BY <1>0, <1>3, <2>2, <2>3 DEF LastOfTask
  <2> QED
    BY <1>0, <2>1, <2>4, <2>5, LimitAssumption DEF AsgIds
<1>10. \A b \in AsgIds : b # a => N.asg[b] = L.asg[b] \/ Succeeds(L, N, b, t, w)
  BY <1>5, <1>7
<1>11. Added(L, N, t, w, a)
  BY <1>1, <1>2, <1>5, <1>8, <1>9, <1>10 DEF Added
<1> QED
  BY <1>3, <1>11 DEF N, t

\* The approval gate changes the standing of one assignment, which has no attempt:
\* none is made before the gate is approved.
Decided(L, N, a) ==
  /\ L.asg[a].status = "approved"
  /\ L.asg[a].gate = "pending"
  /\ N.asg[a].status \in {"approved", "rejected"}
  /\ N.asg[a].task = L.asg[a].task
  /\ N.asg[a].worker = L.asg[a].worker
  /\ \A b \in AsgIds : b # a => N.asg[b] = L.asg[b]
  /\ \A d \in DspIds : d[1] = a =>
       /\ L.dsp[d].evidence = "none"
       /\ L.dsp[d].stop \notin PendingStop \cup {"completed"}
  /\ N.dsp = L.dsp /\ N.task = L.task /\ N.objective = L.objective /\ N.plan = L.plan

\* decideBarkosDispatchGate decides a gate whose assignment has no attempt.
LEMMA GateDecides ==
  ASSUME NEW L, Safe(L), NEW a \in AsgIds, NEW c \in {"approved", "rejected"}, CanDecideGate(L, a)
  PROVE  Decided(L, DecideGate(L, a, c), a)
<1> DEFINE N == DecideGate(L, a, c)
<1> HIDE DEF N
<1>0. L \in Ledger /\ L.asg[a] \in Assignment
  BY LedgerRecords DEF Safe
<1>1. /\ N.objective = L.objective /\ N.plan = L.plan /\ N.task = L.task /\ N.dsp = L.dsp
      /\ N.asg = [L.asg EXCEPT
                    ![a].gate = c,
                    ![a].status = IF c = "rejected" THEN "rejected" ELSE @]
  <2>1. N = [revision |-> L.revision + 1, objective |-> L.objective, plan |-> L.plan,
             task |-> L.task,
             asg  |-> [L.asg EXCEPT
                         ![a].gate = c,
                         ![a].status = IF c = "rejected" THEN "rejected" ELSE @],
             dsp  |-> L.dsp]
    BY <1>0, DecideGateFields DEF N
  <2> QED
    BY <2>1
<1>2. L.asg[a].status = "approved" /\ L.asg[a].gate = "pending"
  BY DEF CanDecideGate
<1>3. /\ \A b \in AsgIds : b # a => N.asg[b] = L.asg[b]
      /\ N.asg[a].status \in {"approved", "rejected"}
      /\ N.asg[a].task = L.asg[a].task
      /\ N.asg[a].worker = L.asg[a].worker
  BY <1>0, <1>1, <1>2, LedgerFields DEF Assignment
<1>4. NeedsApproval(L.asg[a].task)
  BY <1>2 DEF Safe, Lifecycle, AttemptAfterApproval
<1>5. \A d \in DspIds : d[1] = a => L.dsp[d].state = "absent"
  BY <1>2, <1>4 DEF Safe, Lifecycle, AttemptAfterApproval, TaskOf
<1>6. \A d \in DspIds : d[1] = a =>
        /\ L.dsp[d].evidence = "none"
        /\ L.dsp[d].stop \notin PendingStop \cup {"completed"}
  BY <1>5 DEF Safe, Valid, ValidEvidence, ValidStops
<1> QED
  BY <1>1, <1>2, <1>3, <1>6 DEF Decided, N

\* Deciding a gate keeps tasks, attempts and assignments in agreement and in order.
LEMMA DecidedKeeps ==
  ASSUME NEW L, NEW N, NEW a \in AsgIds, Safe(L), Decided(L, N, a)
  PROVE  Progress(N) /\ Order(N) /\ Final(L, N) /\ Freezes(L, N)
<1>0. \A d \in DspIds : d[1] \in AsgIds
  BY DspIdParts
<1>1. /\ \A b \in AsgIds : N.asg[b].task = L.asg[b].task /\ N.asg[b].worker = L.asg[b].worker
      /\ \A b \in AsgIds : N.asg[b].status = "absent" <=> L.asg[b].status = "absent"
      /\ \A b \in AsgIds : N.asg[b].status \in Active => L.asg[b].status \in Active
      /\ \A d \in DspIds : TaskOf(N, d) = TaskOf(L, d)
  BY <1>0 DEF Decided, TaskOf, Active
<1>2. Used(N)
  BY <1>1 DEF Decided, Used, Safe, Progress
<1>3. TaskFollowsAttempt(N)
  <2>1. \A b \in AsgIds : N.asg[b].status = "approved" => N.task[N.asg[b].task] = "ready"
    BY <1>1 DEF Decided, TaskFollowsAttempt, Safe, Progress
  <2>2. \A d \in DspIds : L.dsp[d].evidence = "accepted" => N.asg[d[1]].status = "completed"
    BY <1>0 DEF Decided, TaskFollowsAttempt, Safe, Progress
  <2> QED
    BY <1>1, <2>1, <2>2 DEF Decided, TaskFollowsAttempt, Safe, Progress
<1>4. OneAccepted(N) /\ ClosedTogether(N)
  BY <1>1 DEF Decided, OneAccepted, ClosedTogether, Safe, Progress
<1>5. Owned(N)
  BY DEF Decided, Owned, Safe, Progress
<1>6. \A b \in AsgIds : LastOfTask(L, b) => LastOfTask(N, b)
  BY <1>1 DEF LastOfTask
<1>7. InOrder(N) /\ ActiveIsLast(N)
  BY <1>1, <1>6 DEF InOrder, ActiveIsLast, Safe, Order
<1>8. StoppedIsLast(N)
  BY <1>0, <1>6 DEF Decided, StoppedIsLast, Safe, Order
<1>9. Succeeded(N)
  <2> SUFFICES ASSUME NEW b \in AsgIds, N.asg[b].status = "reassigned"
               PROVE  \E c \in AsgIds :
                        /\ c > b
                        /\ N.asg[c].task = N.asg[b].task
                        /\ N.asg[c].worker # N.asg[b].worker
                        /\ \A x \in (b + 1) .. (c - 1) : N.asg[x].task # N.asg[b].task
    BY DEF Succeeded
  <2>1. L.asg[b].status = "reassigned"
    BY DEF Decided
  <2>2. PICK c \in AsgIds :
               /\ c > b
               /\ L.asg[c].task = L.asg[b].task
               /\ L.asg[c].worker # L.asg[b].worker
               /\ \A x \in (b + 1) .. (c - 1) : L.asg[x].task # L.asg[b].task
    BY <2>1 DEF Safe, Order, Succeeded
  <2>3. \A x \in (b + 1) .. (c - 1) : x \in AsgIds
    BY LimitAssumption DEF AsgIds
  <2> QED
    BY <1>1, <2>2, <2>3
<1>10. Final(L, N)
  BY DEF Decided, Final
<1>11. Freezes(L, N)
  BY <1>0 DEF Decided, Freezes
<1> QED
  BY <1>2, <1>3, <1>4, <1>5, <1>7, <1>8, <1>9, <1>10, <1>11 DEF Progress, Order

-----------------------------------------------------------------------------
(* The limits of the control policy.                                         *)

ActiveOf(L, w) == {a \in AsgIds : L.asg[a].worker = w /\ L.asg[a].status \in Active}

\* CapacityRespected, of any ledger.
Capacity(L) ==
  /\ \A w \in Workers : Cardinality(ActiveOf(L, w)) <= MaxActive
  /\ Cardinality(InFlight(L)) <= MaxConcurrent
  /\ Cardinality(Dispatched(L)) <= MaxDispatches

\* What is counted is finite.
LEMMA CountedIsFinite ==
  ASSUME NEW L
  PROVE  /\ \A w : IsFiniteSet(ActiveOf(L, w)) /\ Cardinality(ActiveOf(L, w)) \in Nat
         /\ IsFiniteSet(InFlight(L)) /\ Cardinality(InFlight(L)) \in Nat
         /\ IsFiniteSet(Dispatched(L)) /\ Cardinality(Dispatched(L)) \in Nat
<1>1. IsFiniteSet(AsgIds) /\ IsFiniteSet(Attempts)
  BY FS_Interval, LimitAssumption DEF AsgIds, Attempts
<1>2. IsFiniteSet(DspIds)
  BY <1>1, FS_Product DEF DspIds
<1>3. \A w : ActiveOf(L, w) \in SUBSET AsgIds
  BY DEF ActiveOf
<1>4. InFlight(L) \in SUBSET DspIds /\ Dispatched(L) \in SUBSET DspIds
  BY DEF InFlight, Dispatched
<1>5. \A w : IsFiniteSet(ActiveOf(L, w))
  BY <1>1, <1>3, FS_Subset
<1>6. IsFiniteSet(InFlight(L)) /\ IsFiniteSet(Dispatched(L))
  BY <1>2, <1>4, FS_Subset
<1> QED
  BY <1>5, <1>6, FS_CardinalityType

\* A part counts no more than the whole.
LEMMA SmallerCount ==
  ASSUME NEW S, IsFiniteSet(S), NEW T, T \subseteq S, NEW n \in Nat, Cardinality(S) <= n
  PROVE  Cardinality(T) <= n
<1>1. T \in SUBSET S
  OBVIOUS
<1>2. IsFiniteSet(T) /\ Cardinality(T) <= Cardinality(S)
  BY <1>1, FS_Subset
<1>3. Cardinality(S) \in Nat /\ Cardinality(T) \in Nat
  BY <1>2, FS_CardinalityType
<1> QED
  BY <1>2, <1>3

\* Where there is room one more fits.
LEMMA OneMoreFits ==
  ASSUME NEW S, IsFiniteSet(S), NEW x, NEW T, T \subseteq S \cup {x},
         NEW n \in Nat, Cardinality(S) < n
  PROVE  Cardinality(T) <= n
<1>1. IsFiniteSet(S \cup {x})
  BY FS_AddElement
<1>2. Cardinality(S \cup {x}) <= n
  <2>1. Cardinality(S) \in Nat
    BY FS_CardinalityType
  <2>2. Cardinality(S \cup {x}) = IF x \in S THEN Cardinality(S) ELSE Cardinality(S) + 1
    BY FS_AddElement
  <2> QED
    BY <2>1, <2>2
<1> QED
  BY <1>1, <1>2, SmallerCount

\* Moving an attempt takes no place of a worker; only a new attempt takes one
\* of the dispatches, and there was room for it.
LEMMA MovedCapacity ==
  ASSUME NEW L, NEW N, NEW d \in DspIds, Capacity(L), Moves(L, N, d),
         L.dsp[d].state = "absent" =>
           /\ Cardinality(InFlight(L)) < MaxConcurrent
           /\ Cardinality(Dispatched(L)) < MaxDispatches
  PROVE  Capacity(N)
<1>1. ASSUME NEW w \in Workers PROVE Cardinality(ActiveOf(N, w)) <= MaxActive
  <2>1. ActiveOf(N, w) \subseteq ActiveOf(L, w)
    BY DEF ActiveOf, Moves, Moved, Coherent
  <2> QED
    BY <2>1, CountedIsFinite, SmallerCount, LimitAssumption DEF Capacity
<1>2. InFlight(N) \subseteq InFlight(L) \cup {d} /\ Dispatched(N) \subseteq Dispatched(L) \cup {d}
  BY DEF InFlight, Dispatched, Moves, Moved
<1>3. CASE L.dsp[d].state = "absent"
  BY <1>1, <1>2, <1>3, CountedIsFinite, OneMoreFits, LimitAssumption DEF Capacity
<1>4. CASE L.dsp[d].state # "absent"
  <2>1. InFlight(N) \subseteq InFlight(L)
    BY <1>4 DEF InFlight, Unsettled, Moves, Moved, Coherent, Found
  <2>2. Dispatched(N) \subseteq Dispatched(L)
    BY <1>4 DEF Dispatched, Moves, Moved
  <2> QED
    BY <1>1, <2>1, <2>2, CountedIsFinite, SmallerCount, LimitAssumption DEF Capacity
<1> QED
  BY <1>3, <1>4

\* A new assignment takes one place of its worker, who had one free.
LEMMA AddedCapacity ==
  ASSUME NEW L, NEW N, NEW t \in Tasks, NEW w \in Workers, NEW a \in AsgIds,
         Safe(L), Capacity(L), NextAssignmentId(L, a), Added(L, N, t, w, a), Load(L, w) < MaxActive
  PROVE  Capacity(N)
<1>1. N.asg[a].worker = w
  BY DEF Added, NewAssignment
<1>2. \A b \in AsgIds : N.asg[b].status \in Active /\ b # a => N.asg[b] = L.asg[b]
  BY DEF Added, Succeeds, Active
<1>3. ASSUME NEW v \in Workers PROVE Cardinality(ActiveOf(N, v)) <= MaxActive
  <2>1. CASE v = w
    <3>1. ActiveOf(N, w) \subseteq ActiveOf(L, w) \cup {a}
      BY <1>2 DEF ActiveOf
    <3>2. Cardinality(ActiveOf(L, w)) < MaxActive
      BY DEF Load, ActiveOf
    <3> QED
      BY <2>1, <3>1, <3>2, CountedIsFinite, OneMoreFits, LimitAssumption
  <2>2. CASE v # w
    <3>1. ActiveOf(N, v) \subseteq ActiveOf(L, v)
      BY <1>1, <1>2, <2>2 DEF ActiveOf
    <3> QED
      BY <3>1, CountedIsFinite, SmallerCount, LimitAssumption DEF Capacity
  <2> QED
    BY <2>1, <2>2
<1>4. InFlight(N) = InFlight(L) /\ Dispatched(N) = Dispatched(L)
  BY DEF Added, InFlight, Dispatched
<1> QED
  BY <1>3, <1>4 DEF Capacity

\* Deciding a gate takes no place.
LEMMA DecidedCapacity ==
  ASSUME NEW L, NEW N, NEW a \in AsgIds, Capacity(L), Decided(L, N, a)
  PROVE  Capacity(N)
<1>1. ASSUME NEW w \in Workers PROVE Cardinality(ActiveOf(N, w)) <= MaxActive
  <2>1. ActiveOf(N, w) \subseteq ActiveOf(L, w)
    BY DEF ActiveOf, Decided, Active
  <2> QED
    BY <2>1, CountedIsFinite, SmallerCount, LimitAssumption DEF Capacity
<1>2. InFlight(N) = InFlight(L) /\ Dispatched(N) = Dispatched(L)
  BY DEF Decided, InFlight, Dispatched
<1> QED
  BY <1>1, <1>2 DEF Capacity

-----------------------------------------------------------------------------
(* The inductive invariant.                                                  *)

\* What one operation of the code, once the schema let its ledger pass, promises.
Kept(L, N) ==
  /\ Progress(N)
  /\ Order(N)
  /\ Capacity(N)
  /\ Final(L, N)
  /\ Freezes(L, N)

\* An operation that moves an attempt keeps the promise.
LEMMA MovedIsKept ==
  ASSUME NEW L, NEW N, NEW d \in DspIds, Safe(L), Capacity(L), Moves(L, N, d), Valid(N),
         L.dsp[d].state = "absent" =>
           /\ Cardinality(InFlight(L)) < MaxConcurrent
           /\ Cardinality(Dispatched(L)) < MaxDispatches
  PROVE  Kept(L, N)
<1>1. N \in Ledger /\ Found(L, d) /\ Moved(L, N, d) /\ Coherent(L, N, d)
  BY DEF Moves
<1>2. Progress(N)
  BY <1>1, MovedProgress
<1>3. Order(N)
  BY <1>1, MovedOrder
<1>4. Capacity(N)
  BY MovedCapacity
<1>5. Final(L, N)
  BY <1>1, MovedFinal
<1>6. Freezes(L, N)
  BY <1>1, MovedFreezes
<1> QED
  BY <1>2, <1>3, <1>4, <1>5, <1>6 DEF Kept

\* So does one that moves a live attempt: that takes no room.
LEMMA LiveIsKept ==
  ASSUME NEW L, NEW N, NEW d \in DspIds, Safe(L), Capacity(L), Moves(L, N, d), Valid(N), Live(L, d)
  PROVE  Kept(L, N)
<1>1. L.dsp[d].state # "absent"
  BY DEF Live, Unsettled, Safe, Valid, ValidEvidence
<1> QED
  BY <1>1, MovedIsKept

\* So does one that adds an assignment.
LEMMA AddedIsKept ==
  ASSUME NEW L, NEW N, NEW t \in Tasks, NEW w \in Workers, NEW a \in AsgIds,
         Safe(L), Capacity(L), NextAssignmentId(L, a), Added(L, N, t, w, a), Load(L, w) < MaxActive
  PROVE  Kept(L, N)
<1>1. Progress(N)
  BY AddedProgress
<1>2. Order(N)
  BY AddedOrder
<1>3. Capacity(N)
  BY AddedCapacity
<1>4. Final(L, N) /\ Freezes(L, N)
  BY AddedFinal
<1> QED
  BY <1>1, <1>2, <1>3, <1>4 DEF Kept

\* And the decision of a gate.
LEMMA DecidedIsKept ==
  ASSUME NEW L, NEW N, NEW a \in AsgIds, Safe(L), Capacity(L), Decided(L, N, a)
  PROVE  Kept(L, N)
<1>1. Progress(N) /\ Order(N) /\ Final(L, N) /\ Freezes(L, N)
  BY DecidedKeeps
<1>2. Capacity(N)
  BY DecidedCapacity
<1> QED
  BY <1>1, <1>2 DEF Kept

\* The schema keeps an attempt whose stop is pending running.
LEMMA StoppingIsRunning ==
  ASSUME NEW L, NEW d \in DspIds, Safe(L), L.dsp[d].stop \in PendingStop
  PROVE  L.dsp[d].state = "running"
  BY DEF Safe, Valid, ValidStops

\* Every step of the ledger keeps the promise.
LEMMA StepIsKept ==
  ASSUME Safe(ledger), Capacity(ledger), Next
  PROVE  Kept(ledger, ledger')
<1>0. \A d \in DspIds : ledger.dsp[d].state \in Unsettled \/ ledger.dsp[d].evidence = "submitted" =>
        Live(ledger, d)
  BY DEF Live
<1>1. CASE AssignReadyTask
  <2>1. PICK t \in Tasks, w \in Workers, a \in AsgIds :
               CanAssign(ledger, t, w, a) /\ Advance(Assign(ledger, t, w, a))
    BY <1>1 DEF AssignReadyTask
  <2>2. NextAssignmentId(ledger, a) /\ Load(ledger, w) < MaxActive
    BY <2>1 DEF CanAssign, Selectable
  <2>3. Added(ledger, ledger', t, w, a)
    BY <2>1, AssignAdds DEF Advance
  <2> QED
    BY <2>2, <2>3, AddedIsKept
<1>2. CASE DecideDispatchGate
  <2>1. PICK a \in AsgIds, c \in {"approved", "rejected"} :
               CanDecideGate(ledger, a) /\ Advance(DecideGate(ledger, a, c))
    BY <1>2 DEF DecideDispatchGate
  <2>2. Decided(ledger, ledger', a)
    BY <2>1, GateDecides DEF Advance
  <2> QED
    BY <2>2, DecidedIsKept
<1>3. CASE ReassignStoppedTask
  <2>1. PICK d \in DspIds, w \in Workers, a \in AsgIds :
               CanReassign(ledger, d, w, a) /\ Advance(Reassign(ledger, d, w, a))
    BY <1>3 DEF ReassignStoppedTask
  <2>2. NextAssignmentId(ledger, a) /\ Load(ledger, w) < MaxActive
    BY <2>1 DEF CanReassign, Selectable
  <2>3. Added(ledger, ledger', TaskOf(ledger, d), w, a) /\ TaskOf(ledger, d) \in Tasks
    BY <2>1, ReassignAdds DEF Advance
  <2> QED
    BY <2>2, <2>3, AddedIsKept
<1>4. CASE PrepareDispatch
  <2>1. PICK d \in DspIds : CanPrepare(ledger, d) /\ Advance(Prepare(ledger, d))
    BY <1>4 DEF PrepareDispatch
  <2>2. Moves(ledger, ledger', d) /\ Valid(ledger')
    BY <2>1, PrepareMoves DEF Advance
  <2>3. Cardinality(InFlight(ledger)) < MaxConcurrent /\ Cardinality(Dispatched(ledger)) < MaxDispatches
    BY <2>1 DEF CanPrepare
  <2> QED
    BY <2>2, <2>3, MovedIsKept
<1>5. CASE SettlePrepared
  <2>1. PICK d \in DspIds :
          /\ ledger.dsp[d].state = "prepared"
          /\ Advance(Commit(ledger, d)) \/ Advance(FailPrepared(ledger, d))
    BY <1>5 DEF SettlePrepared
  <2>2. Moves(ledger, ledger', d) /\ Valid(ledger')
    BY <2>1, CommitMoves, FailPreparedMoves DEF Advance
  <2>3. Live(ledger, d)
    BY <1>0, <2>1 DEF Unsettled
  <2> QED
    BY <2>2, <2>3, LiveIsKept
<1>6. CASE RequestStop
  <2>1. PICK d \in DspIds :
          CanPrepareStop(ledger, d) /\ Advance(SetStop(ledger, d, "requested"))
    BY <1>6 DEF RequestStop
  <2>2. ledger.dsp[d].state = "running" /\ "requested" \in PendingStop
    BY <2>1 DEF CanPrepareStop, PendingStop
  <2>3. Moves(ledger, ledger', d) /\ Valid(ledger')
    BY <2>1, <2>2, SetStopMoves DEF Advance
  <2>4. Live(ledger, d)
    BY <1>0, <2>2 DEF Unsettled
  <2> QED
    BY <2>3, <2>4, LiveIsKept
<1>7. CASE SettleStop
  <2>1. PICK d \in DspIds :
          /\ ledger.dsp[d].stop \in {"requested", "dispatch-stopped"}
          /\ \/ \E s \in {"dispatch-stopped", "uncertain"} : Advance(SetStop(ledger, d, s))
             \/ Advance(CompleteStop(ledger, d))
    BY <1>7 DEF SettleStop
  <2>2. ledger.dsp[d].state = "running"
    BY <2>1, StoppingIsRunning DEF PendingStop
  <2>3. {"dispatch-stopped", "uncertain"} \subseteq PendingStop
    BY DEF PendingStop
  <2>4. Moves(ledger, ledger', d) /\ Valid(ledger')
    BY <2>1, <2>2, <2>3, SetStopMoves, CompleteStopMoves DEF Advance
  <2>5. Live(ledger, d)
    BY <1>0, <2>2 DEF Unsettled
  <2> QED
    BY <2>4, <2>5, LiveIsKept
<1>8. CASE SubmitEvidence
  <2>1. PICK d \in DspIds : CanSubmit(ledger, d) /\ Advance(Submit(ledger, d))
    BY <1>8 DEF SubmitEvidence
  <2>2. Moves(ledger, ledger', d) /\ Valid(ledger')
    BY <2>1, SubmitMoves DEF Advance
  <2>3. Live(ledger, d)
    BY <1>0, <2>1 DEF CanSubmit, Unsettled
  <2> QED
    BY <2>2, <2>3, LiveIsKept
<1>9. CASE ReviewEvidence
  <2>1. PICK d \in DspIds :
          /\ CanReview(ledger, d)
          /\ Advance(Accept(ledger, d)) \/ Advance(Reject(ledger, d))
    BY <1>9 DEF ReviewEvidence
  <2>2. Moves(ledger, ledger', d) /\ Valid(ledger')
    BY <2>1, AcceptMoves, RejectMoves DEF Advance
  <2>3. Live(ledger, d)
    BY <1>0, <2>1 DEF CanReview
  <2> QED
    BY <2>2, <2>3, LiveIsKept
<1>10. CASE ReconcileReport
  <2>1. PICK d \in DspIds :
          /\ ledger.dsp[d].state = "running"
          /\ \/ Advance(FailDispatch(ledger, d))
             \/ CanSubmit(ledger, d) /\ Advance(Submit(ledger, d))
             \/ /\ CanSubmit(ledger, d)
                /\ Valid(Submit(ledger, d))
                /\ Advance(ReportAccepted(ledger, d))
    BY <1>10 DEF ReconcileReport
  <2>2. Moves(ledger, ledger', d) /\ Valid(ledger')
    BY <2>1, FailDispatchMoves, SubmitMoves, ReportAcceptedMoves DEF Advance
  <2>3. Live(ledger, d)
    BY <1>0, <2>1 DEF Unsettled
  <2> QED
    BY <2>2, <2>3, LiveIsKept
<1> QED
  BY <1>1, <1>2, <1>3, <1>4, <1>5, <1>6, <1>7, <1>8, <1>9, <1>10 DEF Next

\* Safe of the ledger there is, with the first invariant and the limits.
SafeInv == Inv /\ Progress(ledger) /\ Order(ledger) /\ Capacity(ledger)

\* A materialised plan has no assignment and no attempt.
LEMMA InitSafe == Init => SafeInv
<1> SUFFICES ASSUME Init PROVE SafeInv
  OBVIOUS
<1>1. Inv
  BY InitInv
<1>2. /\ \A d \in DspIds : ledger.dsp[d] = NoDispatch
      /\ \A a \in AsgIds : ledger.asg[a] = NoAssignment
      /\ ledger.objective = "active"
  BY DEF Init, Materialized
<1>3. Progress(ledger)
  BY <1>2 DEF Progress, Used, TaskFollowsAttempt, OneAccepted, Owned, ClosedTogether,
              NoDispatch, NoAssignment
<1>4. Order(ledger)
  BY <1>2, DspIdParts DEF Order, InOrder, ActiveIsLast, StoppedIsLast, Succeeded,
              NoDispatch, NoAssignment, Active
<1>5. Capacity(ledger)
  <2>1. /\ \A w : ActiveOf(ledger, w) = {}
        /\ InFlight(ledger) = {}
        /\ Dispatched(ledger) = {}
    BY <1>2 DEF ActiveOf, InFlight, Dispatched, NoDispatch, NoAssignment, Active, Unsettled
  <2>2. Cardinality({}) = 0
    BY FS_EmptySet
  <2> QED
    BY <2>1, <2>2, LimitAssumption DEF Capacity
<1> QED
  BY <1>1, <1>3, <1>4, <1>5 DEF SafeInv

\* The invariant is inductive, and every step keeps what is settled or frozen.
LEMMA NextSafe ==
  ASSUME SafeInv, [Next]_ledger
  PROVE  SafeInv' /\ Final(ledger, ledger') /\ Freezes(ledger, ledger')
<1>0. Safe(ledger) /\ Capacity(ledger)
  BY DEF SafeInv, Inv, TypeOK, Safe
<1>1. Inv'
  BY NextInv DEF SafeInv
<1>2. CASE Next
  <2>1. Kept(ledger, ledger')
    BY <1>0, <1>2, StepIsKept
  <2> QED
    BY <1>1, <2>1 DEF Kept, SafeInv
<1>3. CASE UNCHANGED ledger
  <2>1. Final(ledger, ledger) /\ Freezes(ledger, ledger)
    BY DEF Final, Freezes
  <2>2. ledger' = ledger
    BY <1>3
  <2>3. Progress(ledger)' /\ Order(ledger)' /\ Capacity(ledger)'
    BY <2>2 DEF SafeInv
  <2> QED
    BY <1>1, <2>1, <2>2, <2>3 DEF SafeInv
<1> QED
  BY <1>2, <1>3

\* Every reachable ledger passes the schema and has tasks, attempts, assignments
\* and the policy's limits in agreement.
THEOREM SafetyHolds == Spec => []SafeInv
<1>1. SafeInv /\ [Next]_ledger => SafeInv'
  BY NextSafe
<1> QED
  BY InitSafe, <1>1, PTL DEF Spec

\* What is settled is never settled otherwise, and nothing a pending stop is about
\* moves before the stop completed, in any interleaving of reports, reviews and
\* decisions.
THEOREM RecordsStayFinal == Spec => RecordsAreFinal
<1>1. SafeInv /\ [Next]_ledger => Final(ledger, ledger') /\ Freezes(ledger, ledger')
  BY NextSafe
<1>2. Final(ledger, ledger') <=>
        /\ \A d \in DspIds :
             /\ ledger.dsp[d].state \in {"succeeded", "failed", "cancelled"} =>
                  ledger'.dsp[d].state = ledger.dsp[d].state
             /\ ledger.dsp[d].evidence \in {"accepted", "rejected"} =>
                  ledger'.dsp[d].evidence = ledger.dsp[d].evidence
        /\ \A a \in AsgIds :
             /\ ledger.asg[a].status \in {"completed", "reassigned"} =>
                  ledger'.asg[a] = ledger.asg[a]
             /\ ledger.asg[a].gate \in {"approved", "rejected"} =>
                  ledger'.asg[a].gate = ledger.asg[a].gate
        /\ \A t \in Tasks :
             ledger.task[t] \in {"completed", "failed"} =>
               ledger'.task[t] = ledger.task[t]
  BY DEF Final
<1>3. Freezes(ledger, ledger') <=>
        \A d \in DspIds :
          ledger.dsp[d].stop \in PendingStop =>
            \/ ledger'.dsp[d].stop = "completed"
            \/ /\ ledger'.dsp[d].state = ledger.dsp[d].state
               /\ ledger'.dsp[d].evidence = ledger.dsp[d].evidence
               /\ ledger'.asg[d[1]] = ledger.asg[d[1]]
               /\ ledger'.task[TaskOf(ledger, d)] = ledger.task[TaskOf(ledger, d)]
  BY DEF Freezes
<1> QED
  BY <1>1, <1>2, <1>3, SafetyHolds, PTL DEF Spec, RecordsAreFinal, PendingStopFreezes, SettledIsFinal

\* A completed task has exactly one accepted attempt, that of a completed
\* assignment, and a completed objective has nothing under way: whatever is active
\* or live belongs to a task that is not completed.
THEOREM CompletionSound == Spec => []CompletionIsSound
<1>1. SafeInv => EarnedCompletion
  <2> SUFFICES ASSUME SafeInv, NEW t \in Tasks
               PROVE  LET accepted == {d \in DspIds : TaskOf(ledger, d) = t
                                                    /\ ledger.dsp[d].evidence = "accepted"}
                      IN IF ledger.task[t] = "completed"
                         THEN \E d \in accepted :
                                accepted = {d} /\ ledger.asg[d[1]].status = "completed"
                         ELSE accepted = {}
    BY DEF EarnedCompletion
  <2> DEFINE accepted == {d \in DspIds : TaskOf(ledger, d) = t
                                       /\ ledger.dsp[d].evidence = "accepted"}
  <2>1. \A d \in accepted : ledger.task[t] = "completed" /\ ledger.asg[d[1]].status = "completed"
    BY DEF SafeInv, Progress, TaskFollowsAttempt
  <2>2. \A d, e \in accepted : d = e
    BY DEF SafeInv, Progress, OneAccepted
  <2>3. ASSUME ledger.task[t] = "completed" PROVE \E d \in accepted : TRUE
    <3>1. PICK a \in AsgIds : ledger.asg[a].task = t /\ HasAccepted(ledger, a)
      BY <2>3 DEF SafeInv, Inv, Valid, ValidCompletion
    <3>2. PICK n \in Attempts : ledger.dsp[<<a, n>>].evidence = "accepted"
      BY <3>1 DEF HasAccepted
    <3>3. <<a, n>> \in accepted
      BY <3>1, <3>2 DEF DspIds, TaskOf
    <3> QED
      BY <3>3
  <2> HIDE DEF accepted
  <2>4. CASE ledger.task[t] = "completed"
    <3>1. PICK d \in accepted : TRUE
      BY <2>3, <2>4
    <3>2. accepted = {d} /\ ledger.asg[d[1]].status = "completed"
      BY <2>1, <2>2, <3>1
    <3> QED
      BY <2>4, <3>1, <3>2 DEF accepted
  <2>5. CASE ledger.task[t] # "completed"
    <3>1. accepted = {}
      BY <2>1, <2>5
    <3> QED
      BY <2>5, <3>1 DEF accepted
  <2> QED
    BY <2>4, <2>5
<1>2. SafeInv => ClosedObjectiveIsQuiet
  <2> SUFFICES ASSUME SafeInv, ledger.objective = "completed"
               PROVE  /\ ledger.plan = "completed"
                      /\ \A a \in AsgIds : ledger.asg[a].status \notin Active
                      /\ \A d \in DspIds : ledger.dsp[d].state \notin Unsettled
                                         /\ ledger.dsp[d].evidence # "submitted"
    BY DEF ClosedObjectiveIsQuiet
  <2>1. ledger.plan = "completed" /\ \A t \in Tasks : ledger.task[t] = "completed"
    BY DEF SafeInv, Progress, ClosedTogether, Inv, Valid, ValidCompletion
  <2>2. ASSUME NEW a \in AsgIds, ledger.asg[a].status \in Active PROVE FALSE
    <3>1. ledger.asg[a].task \in Tasks /\ ledger.task[ledger.asg[a].task] = "completed"
      BY <2>1, <2>2 DEF Active, SafeInv, Progress, Used
    <3>2. ledger.asg[a].status = "dispatched"
      BY <2>2, <3>1 DEF Active, SafeInv, Progress, TaskFollowsAttempt
    <3>3. PICK n \in Attempts : \/ ledger.dsp[<<a, n>>].state = "running"
                                \/ ledger.dsp[<<a, n>>].evidence = "submitted"
      BY <3>2 DEF SafeInv, Progress, Owned
    <3>4. <<a, n>> \in DspIds /\ TaskOf(ledger, <<a, n>>) = ledger.asg[a].task
      BY DEF DspIds, TaskOf
    <3> QED
      BY <3>1, <3>3, <3>4 DEF SafeInv, Progress, TaskFollowsAttempt
  <2>3. \A d \in DspIds : Live(ledger, d) => ledger.asg[d[1]].status \in Active
    BY DEF SafeInv, Inv, Lifecycle, AttemptMatchesAssignment, Live, Unsettled, Active
  <2> QED
    BY <2>1, <2>2, <2>3, DspIdParts DEF Live
<1> QED
  BY <1>1, <1>2, SafetyHolds, PTL DEF CompletionIsSound

\* Whatever else happened meanwhile, the schema lets the outcome of an effect on
\* the runtime be recorded: of a dispatch, of a stop, of a review.
THEOREM SettlementNeverRefused == Spec => []SettlementIsNeverRefused
<1>1. SafeInv => SettlementIsNeverRefused
  <2> SUFFICES ASSUME SafeInv, NEW d \in DspIds
               PROVE  /\ ledger.dsp[d].state = "prepared" =>
                           Valid(Commit(ledger, d)) /\ Valid(FailPrepared(ledger, d))
                      /\ ledger.dsp[d].stop \in {"requested", "dispatch-stopped"} =>
                           /\ Valid(SetStop(ledger, d, "dispatch-stopped"))
                           /\ Valid(SetStop(ledger, d, "uncertain"))
                           /\ Valid(CompleteStop(ledger, d))
                      /\ ledger.dsp[d].evidence = "submitted" =>
                           Valid(Accept(ledger, d)) /\ Valid(Reject(ledger, d))
    BY DEF SettlementIsNeverRefused
  <2>0. Safe(ledger)
    BY DEF SafeInv, Inv, TypeOK, Safe
  <2>1. ASSUME NEW N, Moves(ledger, N, d), Settles(N, d) PROVE Valid(N)
    BY <2>0, <2>1, MovedValid DEF Moves
  <2>2. ASSUME ledger.dsp[d].state = "prepared"
        PROVE  Valid(Commit(ledger, d)) /\ Valid(FailPrepared(ledger, d))
    <3>1. /\ Moves(ledger, Commit(ledger, d), d) /\ Settles(Commit(ledger, d), d)
          /\ Moves(ledger, FailPrepared(ledger, d), d) /\ Settles(FailPrepared(ledger, d), d)
      BY <2>0, <2>2, CommitMoves, FailPreparedMoves
    <3> QED
      BY <2>1, <3>1
  <2>3. ASSUME ledger.dsp[d].stop \in {"requested", "dispatch-stopped"}
        PROVE  /\ Valid(SetStop(ledger, d, "dispatch-stopped"))
               /\ Valid(SetStop(ledger, d, "uncertain"))
               /\ Valid(CompleteStop(ledger, d))
    <3>1. ledger.dsp[d].state = "running"
      BY <2>0, <2>3, StoppingIsRunning DEF PendingStop
    <3>2. "dispatch-stopped" \in PendingStop /\ "uncertain" \in PendingStop
      BY DEF PendingStop
    <3>3. \A s \in PendingStop :
            Moves(ledger, SetStop(ledger, d, s), d) /\ Settles(SetStop(ledger, d, s), d)
      BY <2>0, <3>1, SetStopMoves
    <3>4. Moves(ledger, CompleteStop(ledger, d), d) /\ Settles(CompleteStop(ledger, d), d)
      BY <2>0, <3>1, CompleteStopMoves
    <3> QED
      BY <2>1, <3>2, <3>3, <3>4
  <2>4. ASSUME ledger.dsp[d].evidence = "submitted"
        PROVE  Valid(Accept(ledger, d)) /\ Valid(Reject(ledger, d))
    <3>1. /\ Moves(ledger, Accept(ledger, d), d) /\ Settles(Accept(ledger, d), d)
          /\ Moves(ledger, Reject(ledger, d), d) /\ Settles(Reject(ledger, d), d)
      BY <2>0, <2>4, AcceptMoves, RejectMoves DEF CanReview
    <3> QED
      BY <2>1, <3>1
  <2> QED
    BY <2>2, <2>3, <2>4
<1> QED
  BY <1>1, SafetyHolds, PTL

\* No place of a worker is leaked, lent twice or handed back to whom a task was
\* taken from.
THEOREM AssignmentsSound == Spec => []AssignmentsAreSound
<1>1. SafeInv => DispatchedHasOwner
  BY DEF SafeInv, Progress, Owned, DispatchedHasOwner
<1>2. SafeInv => ReassignmentMovesWork
  BY DEF SafeInv, Order, Succeeded, ReassignmentMovesWork
<1>3. SafeInv => CapacityRespected
  BY DEF SafeInv, Capacity, CapacityRespected, Load, ActiveOf
<1> QED
  BY <1>1, <1>2, <1>3, SafetyHolds, PTL DEF AssignmentsAreSound

=============================================================================
