------------------------------ MODULE Delegation ------------------------------
(***************************************************************************)
(* The delegation flows of BarkOS as they run: several sessions (user       *)
(* actions of any client, the automation loop) work on copies of one stored *)
(* ledger, which accepts a copy only as the direct successor of its own     *)
(* revision, and drive the Orca runtime by calls whose answers may come     *)
(* late or never.                                                          *)
(*                                                                         *)
(*   stored   the ledger snapshot of work-ledger-store.ts                   *)
(*   runtime  Orca's tasks and dispatch contexts; the context claimed for   *)
(*            attempt d is identified with d                                *)
(*   call     what became of the orchestration.dispatch call of attempt d   *)
(*   sess     where each session is in its flow and the copy it works on    *)
(*                                                                         *)
(* A step of a session ends where the code awaits.  A step that reads the   *)
(* receipt of a call and saves what it proves is one step: the receipt of a *)
(* settled context never changes.                                          *)
(***************************************************************************)
EXTENDS LedgerOperations

CONSTANTS
  Sessions,      \* flows that may run at the same time
  Crashable,     \* the sessions whose client may exit or crash
  BreakerLimit   \* DISPATCH_CIRCUIT_BREAK_FAILURES

ASSUME SessionAssumption ==
  /\ Crashable \subseteq Sessions
  /\ None \notin DspIds
  /\ BreakerLimit \in Nat \ {0}

VARIABLES stored, runtime, call, sess

vars == <<stored, runtime, call, sess>>

Orca == INSTANCE OrcaRuntime WITH Contexts <- DspIds
Abstract == INSTANCE WorkLedger WITH ledger <- stored

Phases == {"closed", "ready", "calling", "stopping", "closing", "syncing", "updating"}

\* target: the attempt a dispatch or stop flow is about.  left, seen: the tasks
\* a sync or an update still has to visit and the results the sync listed.
Closed ==
  [phase |-> "closed", copy |-> Materialized, target |-> None, left |-> {},
   seen |-> [t \in Tasks |-> Orca!NoResult]]

Ready(L) == [Closed EXCEPT !.phase = "ready", !.copy = L]

Init ==
  /\ stored = Materialized
  /\ Orca!RuntimeInit
  /\ call = [d \in DspIds |-> "none"]
  /\ sess = [s \in Sessions |-> Closed]

-----------------------------------------------------------------------------
(* The store.  A refused save ends the flow: the user sees an error and the *)
(* ledger is loaded again.  Defect: any valid ledger replaces the snapshot. *)

AcceptsAny(next) == Valid(next)

Accepts(next) == Valid(next) /\ next.revision = stored.revision + 1

Save(s, next, after) ==
  IF Accepts(next)
  THEN /\ stored' = next
       /\ sess' = [sess EXCEPT ![s] = after]
  ELSE /\ stored' = stored
       /\ sess' = [sess EXCEPT ![s] = Closed]

\* loadBarkosWorkLedger: on opening, on refresh, after every flow.
LoadLedger(s) ==
  /\ sess[s].phase \in {"closed", "ready"}
  /\ sess[s] # Ready(stored)
  /\ sess' = [sess EXCEPT ![s] = Ready(stored)]
  /\ UNCHANGED <<stored, runtime, call>>

Crash(s) ==
  /\ s \in Crashable
  /\ sess[s].phase # "closed"
  /\ sess' = [sess EXCEPT ![s] = Closed]
  /\ UNCHANGED <<stored, runtime, call>>

-----------------------------------------------------------------------------
(* The one-save operations of the ledger slice.                             *)

Mutate(s, next) ==
  /\ sess[s].phase = "ready"
  /\ Valid(next)
  /\ Save(s, next, Ready(next))
  /\ UNCHANGED <<runtime, call>>

AssignReadyTask(s) ==
  \E t \in Tasks, w \in Workers, a \in AsgIds :
    /\ CanAssign(sess[s].copy, t, w, a)
    /\ Mutate(s, Assign(sess[s].copy, t, w, a))

DecideDispatchGate(s) ==
  \E a \in AsgIds, decision \in {"approved", "rejected"} :
    /\ CanDecideGate(sess[s].copy, a)
    /\ Mutate(s, DecideGate(sess[s].copy, a, decision))

ReassignStoppedTask(s) ==
  \E d \in DspIds, w \in Workers, a \in AsgIds :
    /\ CanReassign(sess[s].copy, d, w, a)
    /\ Mutate(s, Reassign(sess[s].copy, d, w, a))

SubmitEvidence(s) ==
  \E d \in DspIds :
    /\ CanSubmit(sess[s].copy, d)
    /\ Mutate(s, Submit(sess[s].copy, d))

ReviewEvidence(s) ==
  \E d \in DspIds :
    /\ CanReview(sess[s].copy, d)
    /\ \/ Mutate(s, Accept(sess[s].copy, d))
       \/ Mutate(s, Reject(sess[s].copy, d))

-----------------------------------------------------------------------------
(* dispatchBarkosAssignmentToOrca.  Defects: the call is made although the  *)
(* attempt could not be saved; any answer commits the attempt.              *)

BeginDispatchUnsaved(s) ==
  /\ sess[s].phase = "ready"
  /\ \E d \in DspIds :
       LET next == Prepare(sess[s].copy, d) IN
       /\ CanPrepare(sess[s].copy, d)
       /\ Valid(next)
       /\ stored' = IF Accepts(next) THEN next ELSE stored
       /\ sess' = [sess EXCEPT ![s] =
            [Ready(next) EXCEPT !.phase = "calling", !.target = d]]
       /\ call' = [call EXCEPT ![d] = "sent"]
  /\ UNCHANGED runtime

BeginDispatch(s) ==
  /\ sess[s].phase = "ready"
  /\ \E d \in DspIds :
       LET next == Prepare(sess[s].copy, d) IN
       /\ CanPrepare(sess[s].copy, d)
       /\ Valid(next)
       /\ Save(s, next, [Ready(next) EXCEPT !.phase = "calling", !.target = d])
       /\ call' = IF Accepts(next) THEN [call EXCEPT ![d] = "sent"] ELSE call
  /\ UNCHANGED runtime

\* orchestration.dispatch claims a context, unless the task is not ready, the
\* terminal is busy or shows no agent.
ClaimDispatch ==
  \E d \in DspIds :
    /\ call[d] = "sent"
    /\ \/ /\ Orca!Claim(d, TaskOf(stored, d), stored.asg[d[1]].worker)
          /\ call' = [call EXCEPT ![d] = "claimed"]
       \/ /\ call' = [call EXCEPT ![d] = "refused"]
          /\ UNCHANGED runtime
    /\ UNCHANGED <<stored, sess>>

\* The prompt is injected into the terminal, or the claim is failed again.
InjectPrompt ==
  \E d \in DspIds :
    /\ call[d] = "claimed"
    /\ \/ /\ call' = [call EXCEPT ![d] = "answered"]
          /\ UNCHANGED runtime
       \/ /\ Orca!Fail(d)
          /\ call' = [call EXCEPT ![d] = "refused"]
       \/ /\ runtime.ctx[d].status # "dispatched"
          /\ call' = [call EXCEPT ![d] = "refused"]
          /\ UNCHANGED runtime
    /\ UNCHANGED <<stored, sess>>

\* Defect: the answer is waited for however long it takes.
SettleOnAnswer(s) ==
  LET L == sess[s].copy
      d == sess[s].target
  IN /\ sess[s].phase = "calling"
     /\ \/ /\ call[d] = "answered"
           /\ Save(s, Commit(L, d), Closed)
        \/ /\ call[d] = "refused"
           /\ Save(s, FailPrepared(L, d), Closed)
     /\ UNCHANGED <<runtime, call>>

\* An error, a timeout or an invalid answer fails the attempt, whatever the
\* call did or still does.
SettleDispatch(s) ==
  LET L == sess[s].copy
      d == sess[s].target
  IN /\ sess[s].phase = "calling"
     /\ \/ /\ call[d] = "answered"
           /\ Save(s, Commit(L, d), Closed)
        \/ Save(s, FailPrepared(L, d), Closed)
     /\ UNCHANGED <<runtime, call>>

-----------------------------------------------------------------------------
(* stopBarkosDispatchAuthority.                                             *)

BeginStop(s) ==
  /\ sess[s].phase = "ready"
  /\ \E d \in DspIds :
       LET next == SetStop(sess[s].copy, d, "requested") IN
       /\ CanPrepareStop(sess[s].copy, d)
       /\ Valid(next)
       /\ Save(s, next, [Ready(next) EXCEPT !.phase = "stopping", !.target = d])
  /\ UNCHANGED <<runtime, call>>

\* orchestration.workerStop takes effect: while the session waits for it, or
\* after it gave up or crashed.
ServeStop ==
  \E d \in DspIds :
    /\ stored.dsp[d].stop \in {"requested", "uncertain"}
    /\ Orca!Release(d)
    /\ UNCHANGED <<stored, call, sess>>

\* The receipt must say "stopped".  Defect: any settled context will do.
SettledReceipt(d) == runtime.ctx[d].status \in {"stopped", "failed", "completed"}

StoppedReceipt(d) == runtime.ctx[d].status = "stopped"

ProveStop(s) ==
  LET d == sess[s].target
      next == SetStop(sess[s].copy, d, "dispatch-stopped")
  IN /\ sess[s].phase = "stopping"
     /\ StoppedReceipt(d)
     /\ Save(s, next, [Ready(next) EXCEPT !.phase = "closing", !.target = d])
     /\ UNCHANGED <<runtime, call>>

\* terminal.close answered with ptyKilled; the exit of the agent reaches the
\* runtime as a WorkerExits step.
SettleStop(s) ==
  /\ sess[s].phase = "closing"
  /\ Save(s, CompleteStop(sess[s].copy, sess[s].target), Closed)
  /\ UNCHANGED <<runtime, call>>

\* Either call was refused, failed, timed out or proved nothing.
DoubtStop(s) ==
  /\ sess[s].phase \in {"stopping", "closing"}
  /\ Save(s, SetStop(sess[s].copy, sess[s].target, "uncertain"), Closed)
  /\ UNCHANGED <<runtime, call>>

-----------------------------------------------------------------------------
(* syncBarkosWorkerReports.                                                 *)

RunningOn(L, t) == {d \in DspIds : L.dsp[d].state = "running" /\ TaskOf(L, d) = t}

Reported(t) ==
  /\ runtime.task[t] \in {"completed", "failed"}
  /\ runtime.result[t].by # None

BeginSync(s) ==
  LET L == sess[s].copy
      found == {t \in Tasks : RunningOn(L, t) # {} /\ Reported(t)}
  IN /\ sess[s].phase = "ready"
     /\ found # {}
     /\ sess' = [sess EXCEPT ![s] =
          [Ready(L) EXCEPT
             !.phase = "syncing",
             !.left = found,
             !.seen = [t \in Tasks |->
                         IF t \in found THEN runtime.result[t] ELSE Orca!NoResult]]]
     /\ UNCHANGED <<stored, runtime, call>>

AfterVisit(s, next, t) ==
  LET left == sess[s].left \ {t} IN
  IF left = {} THEN Closed
  ELSE [sess[s] EXCEPT !.copy = next, !.left = left, !.seen[t] = Orca!NoResult]

\* The report is applied to whichever attempt of the task runs in the copy.
SyncTask(s) ==
  /\ sess[s].phase = "syncing"
  /\ \E t \in sess[s].left : \E d \in RunningOn(sess[s].copy, t) :
       LET L == sess[s].copy
           Reconcile(next) == Save(s, next, AfterVisit(s, next, t))
       IN IF sess[s].seen[t].outcome = "failed" THEN Reconcile(FailDispatch(L, d))
          ELSE IF CanSubmit(L, d) /\ Valid(Submit(L, d))
          THEN \/ Reconcile(Submit(L, d))
               \/ t \in AutoReviewable /\ Reconcile(ReportAccepted(L, d))
          ELSE stored' = stored /\ sess' = [sess EXCEPT ![s] = Closed]
  /\ UNCHANGED <<runtime, call>>

-----------------------------------------------------------------------------
(* The automation loop prepares the whole plan again before it starts a     *)
(* task that is ready and was never tried.                                  *)

DesiredStatus(L, t) ==
  CASE L.task[t] = "completed" -> "completed"
    [] L.task[t] \in {"failed", "cancelled"} -> "failed"
    [] L.task[t] = "ready" -> "ready"
    [] OTHER -> IF \A u \in Deps[t] : L.task[u] = "completed" THEN "blocked" ELSE "none"

Recoverable(L, t) ==
  /\ L.task[t] = "ready"
  /\ \A a \in AsgIds : L.asg[a].task = t =>
       L.asg[a].status # "rejected" /\ L.asg[a].gate \notin {"pending", "rejected"}
  /\ \A d \in Dispatched(L) : TaskOf(L, d) # t

BeginUpdate(s) ==
  LET L == sess[s].copy IN
  /\ sess[s].phase = "ready"
  /\ L.plan = "active"
  /\ \E t \in Tasks : Recoverable(L, t)
  /\ sess' = [sess EXCEPT ![s] =
       [Ready(L) EXCEPT !.phase = "updating",
                        !.left = {t \in Tasks : DesiredStatus(L, t) # "none"}]]
  /\ UNCHANGED <<stored, runtime, call>>

\* Dependencies first.  A refused update ends the flow.
UpdateTask(s) ==
  /\ sess[s].phase = "updating"
  /\ \E t \in sess[s].left :
       LET status == DesiredStatus(sess[s].copy, t) IN
       /\ Deps[t] \cap sess[s].left = {}
       /\ \/ /\ Orca!Update(t, status)
             /\ sess' = [sess EXCEPT ![s] = AfterVisit(s, sess[s].copy, t)]
          \/ /\ ~ Orca!Updatable(t, status)
             /\ sess' = [sess EXCEPT ![s] = Closed]
             /\ UNCHANGED runtime
  /\ UNCHANGED <<stored, call>>

-----------------------------------------------------------------------------
(* The workers.                                                             *)

WorkerReports ==
  /\ \E d \in DspIds, outcome \in {"succeeded", "failed"} : Orca!Report(d, outcome)
  /\ UNCHANGED <<stored, call, sess>>

WorkerExits ==
  /\ \E d \in DspIds : Orca!Fail(d)
  /\ UNCHANGED <<stored, call, sess>>

-----------------------------------------------------------------------------
SessionStep(s) ==
  \/ LoadLedger(s)
  \/ Crash(s)
  \/ AssignReadyTask(s)
  \/ DecideDispatchGate(s)
  \/ ReassignStoppedTask(s)
  \/ SubmitEvidence(s)
  \/ ReviewEvidence(s)
  \/ BeginDispatch(s)
  \/ SettleDispatch(s)
  \/ BeginStop(s)
  \/ ProveStop(s)
  \/ SettleStop(s)
  \/ DoubtStop(s)
  \/ BeginSync(s)
  \/ SyncTask(s)
  \/ BeginUpdate(s)
  \/ UpdateTask(s)

RuntimeStep ==
  \/ ClaimDispatch
  \/ InjectPrompt
  \/ ServeStop
  \/ WorkerReports
  \/ WorkerExits

Next == RuntimeStep \/ \E s \in Sessions : SessionStep(s)

Spec == Init /\ [][Next]_vars

\* Every awaited call ends: with its answer, an error or the client's timeout.
Fairness ==
  \A s \in Sessions :
    /\ WF_vars(SettleDispatch(s))
    /\ WF_vars(ProveStop(s) \/ DoubtStop(s))
    /\ WF_vars(SettleStop(s) \/ DoubtStop(s))

FairSpec == Spec /\ Fairness

-----------------------------------------------------------------------------
(* Properties.                                                              *)

SessionTypeOK ==
  sess \in [Sessions -> [phase  : Phases,
                         copy   : Ledger,
                         target : DspIds \cup {None},
                         left   : SUBSET Tasks,
                         seen   : [Tasks -> Orca!Result]]]

DelegationTypeOK ==
  /\ stored \in Ledger
  /\ Orca!RuntimeTypeOK
  /\ call \in [DspIds -> {"none", "sent", "claimed", "answered", "refused"}]
  /\ SessionTypeOK

\* The sessions together are one ledger user: no stale copy, interrupted flow or
\* late answer makes the stored ledger move in a way WorkLedger does not.
ImplementsLedger == Abstract!Spec

\* Equal revisions mean equal content, and no copy is ahead of the store: what
\* the revision check of the store stands for.
RevisionsIdentifyLedgers ==
  \A s \in Sessions :
    sess[s].phase # "closed" =>
      /\ sess[s].copy.revision <= stored.revision
      /\ sess[s].copy.revision = stored.revision => sess[s].copy = stored

\* A session acts on the runtime only under its own durable record: nobody else
\* settles the attempt or the stop it is in the middle of, nobody shares it.
EffectsAreRecorded ==
  \A s \in Sessions :
    LET d == sess[s].target IN
    /\ sess[s].phase = "calling" => stored.dsp[d].state = "prepared"
    /\ sess[s].phase = "stopping" => stored.dsp[d].stop = "requested"
    /\ sess[s].phase = "closing" => stored.dsp[d].stop = "dispatch-stopped"
    /\ sess[s].phase \in {"calling", "stopping", "closing"} =>
         \A r \in Sessions \ {s} : sess[r].target # d

\* An attempt the ledger calls running, or settled after running, was given a
\* context of its own task at its own worker's terminal.
RunningWasClaimed ==
  \A d \in DspIds :
    stored.dsp[d].state \in {"running", "succeeded", "cancelled"} =>
      /\ runtime.ctx[d].status # "unused"
      /\ runtime.ctx[d].task = TaskOf(stored, d)
      /\ runtime.ctx[d].worker = stored.asg[d[1]].worker

\* The store and the runtime answer for each other: what a session does in the
\* runtime is on record, what is on record as run was claimed, and a copy with
\* the store's revision is the store's ledger.
RecordsMatchEffects == EffectsAreRecorded /\ RunningWasClaimed /\ RevisionsIdentifyLedgers

\* Only a proven stop is recorded: the context of a dispatch recorded as stopped
\* or cancelled is stopped in the runtime, and no late call revives it.
StopWasProven ==
  \A d \in DspIds :
    stored.dsp[d].stop \in {"dispatch-stopped", "completed"} =>
      runtime.ctx[d].status = "stopped"

\* With one session and no crash no attempt stays "prepared": a prepared attempt
\* blocks every retry of its task.
AttemptIsSettled ==
  \A d \in DspIds :
    stored.dsp[d].state = "prepared" ~> stored.dsp[d].state # "prepared"

\* With one session and no crash a stop ends confirmed or in doubt.
StopIsSettled ==
  \A d \in DspIds :
    stored.dsp[d].stop \in {"requested", "dispatch-stopped"}
      ~> stored.dsp[d].stop \in {"completed", "uncertain"}

\* Every effect a session began ends on record: attempts and stops alike.
EffectsAreSettled == AttemptIsSettled /\ StopIsSettled

-----------------------------------------------------------------------------
(* What the documents, comments and messages of the code say and the code   *)
(* does not keep; each is the property of a run that finds it violated.     *)

\* A timed-out call is reconciled before the attempt is retried: no attempt is
\* prepared while an earlier attempt of its task is live in the runtime.
RetryAfterReconciliation ==
  \A d, e \in DspIds :
    /\ d # e
    /\ stored.dsp[d].state = "prepared"
    /\ TaskOf(stored, d) = TaskOf(stored, e)
    => runtime.ctx[e].status # "dispatched"

\* A report is applied to the exact attempt whose context made it.
ReportOfItsAttempt ==
  \A s \in Sessions :
    sess[s].phase = "syncing" /\ sess[s].copy = stored =>
      \A t \in sess[s].left : \A d \in RunningOn(stored, t) : sess[s].seen[t].by = d

\* A report on a running attempt can be observed until it is.
ReportStaysVisible ==
  \A d \in DspIds :
    LET t == TaskOf(stored, d) IN
    stored.dsp[d].state = "running" /\ runtime.result[t].by = d => Reported(t)

\* A reassigned task can be started: the runtime does not hold it back when the
\* replacement is dispatched.
ReassignedCanStart ==
  \A d \in DspIds :
    LET t == TaskOf(stored, d) IN
    /\ call[d] = "sent"
    /\ stored.dsp[d].state = "prepared"
    /\ \E a \in AsgIds : stored.asg[a].task = t /\ stored.asg[a].status = "reassigned"
    => runtime.task[t] # "blocked"

=============================================================================
