------------------------------ MODULE OrcaRuntime ------------------------------
(***************************************************************************)
(* The part of Orca's orchestration database that BarkOS drives: the tasks  *)
(* of one run and the dispatch contexts that give a worker's terminal the   *)
(* authority to report on a task.  Every operation is one database          *)
(* transaction, so every action is one step.                                *)
(*                                                                         *)
(* Contexts made by orchestration.dispatch have no supervised worker        *)
(* record, so the branches for worker_dispatches are left out.              *)
(***************************************************************************)
EXTENDS Integers, FiniteSets

CONSTANTS
  Tasks,         \* the tasks of the run
  Deps,          \* Deps[t]: the tasks t depends on
  Workers,       \* the workers' terminals
  None,          \* no task, no worker, no reporting context
  Contexts,      \* identifiers of dispatch contexts
  BreakerLimit   \* DISPATCH_CIRCUIT_BREAK_FAILURES

ASSUME RuntimeAssumption ==
  /\ Deps \in [Tasks -> SUBSET Tasks]
  /\ None \notin Tasks \cup Workers \cup Contexts
  /\ BreakerLimit \in Nat \ {0}

VARIABLE runtime

RuntimeTaskStatus == {"pending", "ready", "dispatched", "completed", "failed", "blocked"}

\* "failed" stands for failed and circuit_broken, which nothing tells apart;
\* "stopped" is a failed context whose last_failure is "stopped".
Context ==
  [status : {"unused", "dispatched", "completed", "failed", "stopped"},
   task   : Tasks \cup {None},
   worker : Workers \cup {None}]

\* A result is what a worker reported through a context, or the marker BarkOS
\* pushes, which no reader takes for a report.
Result ==
  [by : Contexts \cup {None}, outcome : {"none", "pushed", "succeeded", "failed"}]

NoResult == [by |-> None, outcome |-> "none"]
PushedResult == [by |-> None, outcome |-> "pushed"]
NoContext == [status |-> "unused", task |-> None, worker |-> None]

LiveOn(t) == {c \in Contexts : runtime.ctx[c].status = "dispatched" /\ runtime.ctx[c].task = t}
LiveAt(w) == {c \in Contexts : runtime.ctx[c].status = "dispatched" /\ runtime.ctx[c].worker = w}

RuntimeInit ==
  runtime =
    [task     |-> [t \in Tasks |-> IF Deps[t] = {} THEN "ready" ELSE "pending"],
     result   |-> [t \in Tasks |-> NoResult],
     failures |-> [t \in Tasks |-> 0],
     ctx      |-> [c \in Contexts |-> NoContext]]

\* promoteReadyTasks.
Promote(status, done) ==
  [u \in Tasks |->
     IF /\ status[u] = "pending"
        /\ done \in Deps[u]
        /\ \A v \in Deps[u] : status[v] = "completed"
     THEN "ready" ELSE status[u]]

Settled(t, status) ==
  [c \in Contexts |->
     IF c \in LiveOn(t) THEN [runtime.ctx[c] EXCEPT !.status = status] ELSE runtime.ctx[c]]

-----------------------------------------------------------------------------
\* createDispatchContext.  Defect: the terminal's own context is not looked at.
ClaimBusyTerminal(c, t, w) ==
  /\ runtime.task[t] = "ready"
  /\ runtime.ctx[c] = NoContext
  /\ runtime' = [runtime EXCEPT
       !.task[t] = "dispatched",
       !.ctx[c] = [status |-> "dispatched", task |-> t, worker |-> w]]

Claim(c, t, w) ==
  /\ runtime.task[t] = "ready"
  /\ LiveAt(w) = {}
  /\ runtime.ctx[c] = NoContext
  /\ runtime' = [runtime EXCEPT
       !.task[t] = "dispatched",
       !.ctx[c] = [status |-> "dispatched", task |-> t, worker |-> w]]

\* failDispatch, from a prompt that could not be injected or an agent that
\* exited.  Defect: the task goes back to "pending" to wait for a promotion.
FailToPending(c) ==
  LET t == runtime.ctx[c].task
      failures == runtime.failures[t] + 1
  IN /\ runtime.ctx[c].status = "dispatched"
     /\ runtime' = [runtime EXCEPT
          !.ctx[c].status = "failed",
          !.failures[t] = IF failures > BreakerLimit THEN BreakerLimit ELSE failures,
          !.task[t] = IF failures >= BreakerLimit THEN "failed" ELSE "pending"]

Fail(c) ==
  LET t == runtime.ctx[c].task
      failures == runtime.failures[t] + 1
  IN /\ runtime.ctx[c].status = "dispatched"
     /\ runtime' = [runtime EXCEPT
          !.ctx[c].status = "failed",
          !.failures[t] = IF failures > BreakerLimit THEN BreakerLimit ELSE failures,
          !.task[t] = IF /\ @ = "dispatched"
                         /\ LiveOn(t) = {c}
                      THEN IF failures >= BreakerLimit THEN "failed" ELSE "ready"
                      ELSE @]

\* settleWorkerReport.  Defect: a context already settled still reports.
ReportLate(c, outcome) ==
  LET t == runtime.ctx[c].task
      status == IF outcome = "succeeded" THEN "completed" ELSE "failed"
      task == [runtime.task EXCEPT ![t] = status]
  IN /\ runtime.ctx[c].status # "unused"
     /\ runtime.task[t] = "dispatched"
     /\ runtime' = [runtime EXCEPT
          !.task = IF outcome = "succeeded" THEN Promote(task, t) ELSE task,
          !.result[t] = [by |-> c, outcome |-> outcome],
          !.ctx = [Settled(t, status) EXCEPT ![c].status = status]]

Report(c, outcome) ==
  LET t == runtime.ctx[c].task
      status == IF outcome = "succeeded" THEN "completed" ELSE "failed"
      task == [runtime.task EXCEPT ![t] = status]
  IN /\ runtime.ctx[c].status = "dispatched"
     /\ runtime.task[t] = "dispatched"
     /\ runtime' = [runtime EXCEPT
          !.task = IF outcome = "succeeded" THEN Promote(task, t) ELSE task,
          !.result[t] = [by |-> c, outcome |-> outcome],
          !.ctx = Settled(t, status)]

\* beginWorkerStop of a context without a worker record.  A context already
\* settled is left alone and the receipt names its settlement.  Defect: the
\* task takes the context's status.
ReleaseStoppingTask(c) ==
  LET t == runtime.ctx[c].task
  IN /\ runtime.ctx[c].status # "unused"
     /\ runtime' =
          IF runtime.ctx[c].status = "dispatched"
          THEN [runtime EXCEPT !.ctx[c].status = "stopped", !.task[t] = "stopped"]
          ELSE runtime

Release(c) ==
  LET t == runtime.ctx[c].task
  IN /\ runtime.ctx[c].status # "unused"
     /\ runtime' =
          IF runtime.ctx[c].status = "dispatched"
          THEN [runtime EXCEPT
                  !.ctx[c].status = "stopped",
                  !.task[t] = IF @ = "dispatched" /\ LiveOn(t) = {c} THEN "blocked" ELSE @]
          ELSE runtime

\* updateTaskStatus, for the statuses BarkOS pushes.  A terminal status settles
\* the live context, any other is refused while there is one.
Updatable(t, status) == status \in {"completed", "failed"} \/ LiveOn(t) = {}

Update(t, status) ==
  LET task == [runtime.task EXCEPT ![t] = status]
  IN /\ Updatable(t, status)
     /\ runtime' =
          [runtime EXCEPT
             !.task = IF status = "completed" THEN Promote(task, t) ELSE task,
             !.result[t] = IF status \in {"completed", "failed"} THEN PushedResult ELSE @,
             !.ctx = IF status \in {"completed", "failed"} THEN Settled(t, status) ELSE @]

-----------------------------------------------------------------------------
RuntimeNext ==
  \/ \E c \in Contexts, t \in Tasks, w \in Workers : Claim(c, t, w)
  \/ \E c \in Contexts : Fail(c)
  \/ \E c \in Contexts, outcome \in {"succeeded", "failed"} : Report(c, outcome)
  \/ \E c \in Contexts : Release(c)
  \/ \E t \in Tasks, status \in {"completed", "failed", "ready", "blocked"} : Update(t, status)

RuntimeSpec == RuntimeInit /\ [][RuntimeNext]_runtime

-----------------------------------------------------------------------------
RuntimeTypeOK ==
  runtime \in [task     : [Tasks -> RuntimeTaskStatus],
               result   : [Tasks -> Result],
               failures : [Tasks -> 0 .. BreakerLimit],
               ctx      : [Contexts -> Context]]

\* A task is "dispatched" exactly while one context holds it: whatever settles
\* the context moves the task on, and the other way round.
DispatchedIffHeld ==
  \A t \in Tasks :
    IF runtime.task[t] = "dispatched" THEN \E c \in Contexts : LiveOn(t) = {c}
    ELSE LiveOn(t) = {}

\* A terminal never serves two contexts.
OneContextPerWorker ==
  \A w \in Workers : \A c, d \in LiveAt(w) : c = d

\* A task all of whose dependencies are completed is never left "pending": only
\* the completion of a dependency would release it, and none is left to come.
\* The comment on failActiveDispatchOnExit says otherwise: ExitedTaskIsPending.
NoStrandedTask ==
  \A t \in Tasks : runtime.task[t] = "pending" =>
    \E u \in Deps[t] : runtime.task[u] # "completed"

\* What a task's stored report says stays the word of a context that settled
\* that way: a late answer of another context never replaces it.
ReportMatchesContext ==
  \A t \in Tasks :
    LET result == runtime.result[t] IN
    result.by # None =>
      /\ runtime.ctx[result.by].task = t
      /\ runtime.ctx[result.by].status =
           IF result.outcome = "succeeded" THEN "completed" ELSE "failed"

\* Tasks, contexts and terminals agree: a task is held by the one context that
\* serves it, a terminal by one task, and a stored report by its own context.
HoldingsAgree == DispatchedIffHeld /\ OneContextPerWorker /\ ReportMatchesContext

\* A settled context is never revived or settled again, whichever call is late.
SettledContextIsFinal ==
  [][\A c \in Contexts :
       runtime.ctx[c].status \notin {"unused", "dispatched"} =>
         runtime'.ctx[c] = runtime.ctx[c]]_runtime

\* When an agent exits, "the task is set back to 'pending' so it can be
\* re-dispatched" (orca-runtime.ts:16753).  The code makes it "ready"
\* (dispatch-completion.ts:130), which is what NoStrandedTask needs.
ExitedTaskIsPending ==
  [][\A c \in Contexts :
       LET t == runtime.ctx[c].task IN
       /\ runtime.ctx[c].status = "dispatched"
       /\ runtime'.ctx[c].status = "failed"
       /\ runtime'.task[t] # "failed"
       => runtime'.task[t] = "pending"]_runtime

=============================================================================
