-------------------------- MODULE OrcaRuntimeProofs --------------------------
(***************************************************************************)
(* What is proved of Orca's tasks and dispatch contexts, for any tasks,     *)
(* dependencies, terminals and breaker limit: tasks, contexts and terminals *)
(* agree, no task is stranded, and a settled context is final.             *)
(*                                                                         *)
(* "HoldingsAgree" speaks of sets of live contexts; the proof uses the same *)
(* facts context by context ("Owned", "Sole", "Held").                      *)
(***************************************************************************)
EXTENDS OrcaRuntime, TLAPS

Live(c) == runtime.ctx[c].status = "dispatched"

\* A context that was ever used is about a task of the run.
Used == \A c \in Contexts : runtime.ctx[c].status # "unused" => runtime.ctx[c].task \in Tasks

\* The task of a live context is dispatched.
Owned == \A c \in Contexts : Live(c) => runtime.task[runtime.ctx[c].task] = "dispatched"

\* Two live contexts differ in their task and in their terminal.
Sole ==
  \A c, d \in Contexts :
    Live(c) /\ Live(d) /\ c # d =>
      /\ runtime.ctx[c].task # runtime.ctx[d].task
      /\ runtime.ctx[c].worker # runtime.ctx[d].worker

\* A dispatched task has a live context.
Held ==
  \A t \in Tasks : runtime.task[t] = "dispatched" =>
    \E c \in Contexts : Live(c) /\ runtime.ctx[c].task = t

RuntimeInv ==
  /\ RuntimeTypeOK
  /\ Used
  /\ Owned
  /\ Sole
  /\ Held
  /\ ReportMatchesContext
  /\ NoStrandedTask

-----------------------------------------------------------------------------
(* The database each operation leaves. *)

\* The fields have their types.
LEMMA RuntimeFields ==
  ASSUME RuntimeTypeOK
  PROVE  /\ runtime = [task |-> runtime.task, result |-> runtime.result,
                       failures |-> runtime.failures, ctx |-> runtime.ctx]
         /\ runtime.task \in [Tasks -> RuntimeTaskStatus]
         /\ runtime.result \in [Tasks -> Result]
         /\ runtime.failures \in [Tasks -> 0 .. BreakerLimit]
         /\ runtime.ctx \in [Contexts -> Context]
  BY DEF RuntimeTypeOK

\* The initial database satisfies the invariant.
LEMMA RuntimeInitInv == RuntimeInit => RuntimeInv
<1> SUFFICES ASSUME RuntimeInit PROVE RuntimeInv
  OBVIOUS
<1> USE RuntimeAssumption DEF RuntimeInit
<1>1. RuntimeTypeOK
  BY DEF RuntimeTypeOK, RuntimeTaskStatus, Result, Context, NoResult, NoContext
<1>2. Used /\ Owned /\ Sole /\ Held
  BY DEF Used, Owned, Sole, Held, Live, NoContext
<1>3. ReportMatchesContext
  BY DEF ReportMatchesContext, NoResult
<1>4. NoStrandedTask
  BY DEF NoStrandedTask
<1> QED BY <1>1, <1>2, <1>3, <1>4 DEF RuntimeInv

\* createDispatchContext keeps it: the task had no context, the terminal none.
LEMMA ClaimKeepsInv ==
  ASSUME RuntimeInv, NEW c \in Contexts, NEW t \in Tasks, NEW w \in Workers, Claim(c, t, w)
  PROVE  RuntimeInv'
<1> DEFINE new == [status |-> "dispatched", task |-> t, worker |-> w]
<1>1. /\ runtime.task \in [Tasks -> RuntimeTaskStatus]
      /\ runtime.ctx \in [Contexts -> Context]
  BY RuntimeFields DEF RuntimeInv
<1>2. runtime' = [task |-> [runtime.task EXCEPT ![t] = "dispatched"],
                  result |-> runtime.result, failures |-> runtime.failures,
                  ctx |-> [runtime.ctx EXCEPT ![c] = new]]
  BY RuntimeFields DEF RuntimeInv, Claim
<1>3. /\ runtime.task[t] = "ready"
      /\ runtime.ctx[c] = NoContext
      /\ \A d \in Contexts : Live(d) => runtime.ctx[d].worker # w
  BY DEF Claim, LiveAt, Live
<1>4. \A d \in Contexts : runtime'.ctx[d] = IF d = c THEN new ELSE runtime.ctx[d]
  BY <1>1, <1>2
<1>5. \A u \in Tasks : runtime'.task[u] = IF u = t THEN "dispatched" ELSE runtime.task[u]
  BY <1>1, <1>2
<1>6. RuntimeTypeOK'
  <2>1. new \in Context
    BY DEF Context
  <2> QED BY <2>1, <1>1, <1>2, RuntimeFields DEF RuntimeTypeOK, RuntimeInv, RuntimeTaskStatus
<1>7. Used'
  BY <1>4 DEF Used, RuntimeInv
<1>8. Owned'
  BY <1>3, <1>4, <1>5 DEF Owned, Used, Live, RuntimeInv
<1>9. Sole'
  BY <1>3, <1>4 DEF Sole, Owned, Live, RuntimeInv
<1>10. Held'
  BY <1>3, <1>4, <1>5 DEF Held, Live, RuntimeInv, NoContext
<1>11. ReportMatchesContext'
  BY <1>1, <1>2, <1>3, <1>4, RuntimeFields, RuntimeAssumption
     DEF ReportMatchesContext, NoContext, RuntimeInv, Result
<1>12. NoStrandedTask'
  BY <1>1, <1>5, RuntimeAssumption DEF NoStrandedTask, RuntimeInv
<1> QED BY <1>6, <1>7, <1>8, <1>9, <1>10, <1>11, <1>12 DEF RuntimeInv

\* A live context of a task is its only one.
LEMMA LiveIsSole ==
  ASSUME RuntimeInv, NEW c \in Contexts, Live(c)
  PROVE  /\ runtime.ctx[c].task \in Tasks
         /\ runtime.task[runtime.ctx[c].task] = "dispatched"
         /\ LiveOn(runtime.ctx[c].task) = {c}
  BY DEF RuntimeInv, Used, Owned, Sole, LiveOn, Live

\* A context that ends and gives its task back, as failDispatch and
\* beginWorkerStop do, keeps the invariant.
LEMMA GiveBackKeepsInv ==
  ASSUME RuntimeInv, NEW c \in Contexts, Live(c),
         NEW end \in {"failed", "stopped"},
         NEW back \in {"ready", "failed", "blocked"},
         NEW failures \in [Tasks -> 0 .. BreakerLimit],
         runtime' = [task |-> [runtime.task EXCEPT ![runtime.ctx[c].task] = back],
                     result |-> runtime.result, failures |-> failures,
                     ctx |-> [runtime.ctx EXCEPT ![c].status = end]]
  PROVE  RuntimeInv'
<1> DEFINE t == runtime.ctx[c].task
<1>1. /\ runtime.task \in [Tasks -> RuntimeTaskStatus]
      /\ runtime.ctx \in [Contexts -> Context]
      /\ runtime.result \in [Tasks -> Result]
  BY RuntimeFields DEF RuntimeInv
<1>2. t \in Tasks /\ runtime.task[t] = "dispatched"
  BY LiveIsSole
<1>3. \A d \in Contexts : d # c /\ Live(d) => runtime.ctx[d].task # t
  BY DEF RuntimeInv, Sole
<1>4. \A d \in Contexts :
        /\ runtime'.ctx[d].status = IF d = c THEN end ELSE runtime.ctx[d].status
        /\ runtime'.ctx[d].task = runtime.ctx[d].task
        /\ runtime'.ctx[d].worker = runtime.ctx[d].worker
  BY <1>1 DEF Context
<1>5. \A u \in Tasks : runtime'.task[u] = IF u = t THEN back ELSE runtime.task[u]
  BY <1>1
<1>6. RuntimeTypeOK'
  <2>1. [runtime.task EXCEPT ![t] = back] \in [Tasks -> RuntimeTaskStatus]
    BY <1>1 DEF RuntimeTaskStatus
  <2>2. [runtime.ctx EXCEPT ![c].status = end] \in [Contexts -> Context]
    BY <1>1 DEF Context
  <2> QED BY <1>1, <2>1, <2>2 DEF RuntimeTypeOK
<1>7. Used'
  BY <1>4, <1>2 DEF Used, RuntimeInv
<1>8. Owned'
  BY <1>3, <1>4, <1>5 DEF Owned, Used, Live, RuntimeInv
<1>9. Sole'
  BY <1>4 DEF Sole, Live, RuntimeInv
<1>10. Held'
  BY <1>4, <1>5 DEF Held, Live, RuntimeInv
<1>11. ReportMatchesContext'
  BY <1>1, <1>4 DEF ReportMatchesContext, RuntimeInv, Result, Live
<1>12. NoStrandedTask'
  BY <1>1, <1>2, <1>5, RuntimeAssumption DEF NoStrandedTask, RuntimeInv
<1> QED BY <1>6, <1>7, <1>8, <1>9, <1>10, <1>11, <1>12 DEF RuntimeInv

\* failDispatch keeps it.
LEMMA FailKeepsInv ==
  ASSUME RuntimeInv, NEW c \in Contexts, Fail(c)
  PROVE  RuntimeInv'
<1> DEFINE t == runtime.ctx[c].task
           failures == runtime.failures[t] + 1
           counted == IF failures > BreakerLimit THEN BreakerLimit ELSE failures
           back == IF failures >= BreakerLimit THEN "failed" ELSE "ready"
<1>1. Live(c)
  BY DEF Fail, Live
<1>2. t \in Tasks /\ runtime.task[t] = "dispatched" /\ LiveOn(t) = {c}
  BY <1>1, LiveIsSole
<1>3. counted \in 0 .. BreakerLimit
  BY <1>2, RuntimeFields, RuntimeAssumption DEF RuntimeInv
<1>4. [runtime.failures EXCEPT ![t] = counted] \in [Tasks -> 0 .. BreakerLimit]
  BY <1>3, RuntimeFields DEF RuntimeInv
<1>5. runtime' = [task |-> [runtime.task EXCEPT ![t] = back],
                  result |-> runtime.result,
                  failures |-> [runtime.failures EXCEPT ![t] = counted],
                  ctx |-> [runtime.ctx EXCEPT ![c].status = "failed"]]
  BY <1>2, RuntimeFields DEF Fail, RuntimeInv
<1> HIDE DEF counted
<1> QED BY <1>1, <1>4, <1>5, GiveBackKeepsInv

\* beginWorkerStop keeps it, with or without an effect.
LEMMA ReleaseKeepsInv ==
  ASSUME RuntimeInv, NEW c \in Contexts, Release(c)
  PROVE  RuntimeInv'
<1> DEFINE t == runtime.ctx[c].task
<1>1. CASE ~Live(c)
  BY <1>1 DEF Release, Live, RuntimeInv, RuntimeTypeOK, Used, Owned, Sole, Held,
     ReportMatchesContext, NoStrandedTask
<1>2. CASE Live(c)
  <2>1. t \in Tasks /\ runtime.task[t] = "dispatched" /\ LiveOn(t) = {c}
    BY <1>2, LiveIsSole
  <2>2. runtime' = [task |-> [runtime.task EXCEPT ![t] = "blocked"],
                    result |-> runtime.result, failures |-> runtime.failures,
                    ctx |-> [runtime.ctx EXCEPT ![c].status = "stopped"]]
    BY <1>2, <2>1, RuntimeFields DEF Release, RuntimeInv, Live
  <2> QED BY <1>2, <2>2, GiveBackKeepsInv, RuntimeFields DEF RuntimeInv
<1> QED BY <1>1, <1>2

\* A task's end, reported or pushed, keeps it: its live contexts end as well.
LEMMA EndKeepsInv ==
  ASSUME RuntimeInv, NEW t \in Tasks, NEW end \in {"completed", "failed"},
         NEW result \in Result,
         NEW task, task = [runtime.task EXCEPT ![t] = end],
         result.by # None =>
           /\ result.by \in LiveOn(t)
           /\ end = IF result.outcome = "succeeded" THEN "completed" ELSE "failed",
         runtime' = [task |-> IF end = "completed" THEN Promote(task, t) ELSE task,
                     result |-> [runtime.result EXCEPT ![t] = result],
                     failures |-> runtime.failures,
                     ctx |-> Settled(t, end)]
  PROVE  RuntimeInv'
<1>1. /\ runtime.task \in [Tasks -> RuntimeTaskStatus]
      /\ runtime.ctx \in [Contexts -> Context]
      /\ runtime.result \in [Tasks -> Result]
      /\ runtime.failures \in [Tasks -> 0 .. BreakerLimit]
  BY RuntimeFields DEF RuntimeInv
<1>2. \A d \in Contexts :
        /\ runtime'.ctx[d].status = IF Live(d) /\ runtime.ctx[d].task = t THEN end
                                    ELSE runtime.ctx[d].status
        /\ runtime'.ctx[d].task = runtime.ctx[d].task
        /\ runtime'.ctx[d].worker = runtime.ctx[d].worker
        /\ runtime'.ctx[d] \in Context
  BY <1>1 DEF Settled, LiveOn, Live, Context
<1>3. runtime'.task[t] = end
  BY <1>1 DEF Promote
<1>4. \A u \in Tasks \ {t} :
        \/ runtime'.task[u] = runtime.task[u]
        \/ runtime.task[u] = "pending" /\ runtime'.task[u] = "ready"
  BY <1>1 DEF Promote
<1>5. \A u \in Tasks : runtime'.result[u] = IF u = t THEN result ELSE runtime.result[u]
  BY <1>1
<1>6. RuntimeTypeOK'
  <2>1. runtime'.task \in [Tasks -> RuntimeTaskStatus]
    BY <1>1 DEF Promote, RuntimeTaskStatus
  <2>2. runtime'.ctx \in [Contexts -> Context]
    BY <1>2 DEF Settled
  <2> QED BY <2>1, <2>2, <1>1 DEF RuntimeTypeOK
<1>7. Used'
  BY <1>2 DEF Used, RuntimeInv, Live
<1>8. Owned'
  BY <1>2, <1>4 DEF Owned, Used, Live, RuntimeInv
<1>9. Sole'
  BY <1>2 DEF Sole, Live, RuntimeInv
<1>10. Held'
  BY <1>2, <1>3, <1>4 DEF Held, Live, RuntimeInv
<1>11. ReportMatchesContext'
  BY <1>1, <1>2, <1>5 DEF ReportMatchesContext, RuntimeInv, Result, LiveOn, Live
<1>12. NoStrandedTask'
  <2> SUFFICES ASSUME NEW u \in Tasks, runtime'.task[u] = "pending"
               PROVE  \E v \in Deps[u] : runtime'.task[v] # "completed"
    BY DEF NoStrandedTask
  <2>1. u # t /\ runtime.task[u] = "pending"
    BY <1>3, <1>4
  <2>2. PICK v \in Deps[u] : runtime.task[v] # "completed"
    BY <2>1 DEF NoStrandedTask, RuntimeInv
  <2>3. Deps[u] \subseteq Tasks
    BY RuntimeAssumption
  <2>4. CASE end = "failed"
    BY <2>2, <2>3, <2>4, <1>3, <1>4
  <2>5. CASE v # t
    BY <2>2, <2>3, <2>5, <1>4
  <2>6. CASE end = "completed" /\ v = t
    BY <1>1, <2>1, <2>2, <2>3, <2>6, <1>4 DEF Promote
  <2> QED BY <2>4, <2>5, <2>6
<1> QED BY <1>6, <1>7, <1>8, <1>9, <1>10, <1>11, <1>12 DEF RuntimeInv

\* settleWorkerReport keeps it.
LEMMA ReportKeepsInv ==
  ASSUME RuntimeInv, NEW c \in Contexts, NEW outcome \in {"succeeded", "failed"},
         Report(c, outcome)
  PROVE  RuntimeInv'
<1> DEFINE t == runtime.ctx[c].task
           end == IF outcome = "succeeded" THEN "completed" ELSE "failed"
           task == [runtime.task EXCEPT ![t] = end]
           result == [by |-> c, outcome |-> outcome]
<1>1. Live(c) /\ t \in Tasks /\ c \in LiveOn(t)
  <2>1. Live(c)
    BY DEF Report, Live
  <2> QED BY <2>1, LiveIsSole
<1>2. runtime' = [task |-> IF end = "completed" THEN Promote(task, t) ELSE task,
                  result |-> [runtime.result EXCEPT ![t] = result],
                  failures |-> runtime.failures, ctx |-> Settled(t, end)]
  BY RuntimeFields DEF Report, RuntimeInv
<1>3. /\ result \in Result
      /\ end \in {"completed", "failed"}
      /\ result.by \in LiveOn(t)
      /\ end = IF result.outcome = "succeeded" THEN "completed" ELSE "failed"
  BY <1>1 DEF Result
<1> HIDE DEF result, end, task
<1>4. task = [runtime.task EXCEPT ![t] = end]
  BY DEF task
<1> HIDE DEF t
<1> QED BY <1>1, <1>2, <1>3, <1>4, EndKeepsInv

\* updateTaskStatus keeps it: a status that is no end waits for the live context.
LEMMA UpdateKeepsInv ==
  ASSUME RuntimeInv, NEW t \in Tasks,
         NEW status \in {"completed", "failed", "ready", "blocked"}, Update(t, status)
  PROVE  RuntimeInv'
<1> DEFINE task == [runtime.task EXCEPT ![t] = status]
<1>1. /\ runtime.task \in [Tasks -> RuntimeTaskStatus]
      /\ runtime.ctx \in [Contexts -> Context]
      /\ runtime.result \in [Tasks -> Result]
      /\ runtime.failures \in [Tasks -> 0 .. BreakerLimit]
  BY RuntimeFields DEF RuntimeInv
<1>2. CASE status \in {"completed", "failed"}
  <2>1. runtime' = [task |-> IF status = "completed" THEN Promote(task, t) ELSE task,
                    result |-> [runtime.result EXCEPT ![t] = PushedResult],
                    failures |-> runtime.failures, ctx |-> Settled(t, status)]
    BY <1>2, RuntimeFields DEF Update, RuntimeInv
  <2>2. PushedResult \in Result /\ PushedResult.by = None
    BY DEF PushedResult, Result
  <2>3. task = [runtime.task EXCEPT ![t] = status]
    OBVIOUS
  <2> HIDE DEF task
  <2> QED BY <1>2, <2>1, <2>2, <2>3, EndKeepsInv
<1>3. CASE status \in {"ready", "blocked"}
  <2>1. runtime' = [task |-> task, result |-> runtime.result,
                    failures |-> runtime.failures, ctx |-> runtime.ctx]
    <3>1. [runtime.result EXCEPT ![t] = runtime.result[t]] = runtime.result
      BY <1>1
    <3> QED BY <1>3, <3>1, RuntimeFields DEF Update, RuntimeInv
  <2>2. LiveOn(t) = {}
    BY <1>3 DEF Update, Updatable
  <2>3. \A d \in Contexts : Live(d) => runtime.ctx[d].task # t
    BY <2>2 DEF LiveOn, Live
  <2>4. \A u \in Tasks : runtime'.task[u] = IF u = t THEN status ELSE runtime.task[u]
    BY <1>1, <2>1
  <2>5. RuntimeTypeOK'
    BY <1>1, <1>3, <2>1 DEF RuntimeTypeOK, RuntimeTaskStatus
  <2>6. Used' /\ Sole' /\ ReportMatchesContext'
    BY <2>1 DEF Used, Sole, ReportMatchesContext, Live, RuntimeInv
  <2>7. Owned'
    BY <2>1, <2>3, <2>4 DEF Owned, Used, Live, RuntimeInv
  <2>8. Held'
    BY <1>3, <2>1, <2>4 DEF Held, Live, RuntimeInv
  <2>9. NoStrandedTask'
    BY <1>1, <1>3, <2>4, RuntimeAssumption DEF NoStrandedTask, RuntimeInv
  <2> QED BY <2>5, <2>6, <2>7, <2>8, <2>9 DEF RuntimeInv
<1> QED BY <1>2, <1>3

\* So the invariant is inductive.
LEMMA RuntimeNextInv == RuntimeInv /\ [RuntimeNext]_runtime => RuntimeInv'
<1> SUFFICES ASSUME RuntimeInv, [RuntimeNext]_runtime PROVE RuntimeInv'
  OBVIOUS
<1>1. ASSUME NEW c \in Contexts, NEW t \in Tasks, NEW w \in Workers, Claim(c, t, w)
      PROVE  RuntimeInv'
  BY <1>1, ClaimKeepsInv
<1>2. ASSUME NEW c \in Contexts, Fail(c) PROVE RuntimeInv'
  BY <1>2, FailKeepsInv
<1>3. ASSUME NEW c \in Contexts, NEW outcome \in {"succeeded", "failed"}, Report(c, outcome)
      PROVE  RuntimeInv'
  BY <1>3, ReportKeepsInv
<1>4. ASSUME NEW c \in Contexts, Release(c) PROVE RuntimeInv'
  BY <1>4, ReleaseKeepsInv
<1>5. ASSUME NEW t \in Tasks, NEW status \in {"completed", "failed", "ready", "blocked"},
             Update(t, status)
      PROVE  RuntimeInv'
  BY <1>5, UpdateKeepsInv
<1>6. CASE UNCHANGED runtime
  BY <1>6 DEF RuntimeInv, RuntimeTypeOK, Used, Owned, Sole, Held, Live,
     ReportMatchesContext, NoStrandedTask
<1> QED BY <1>1, <1>2, <1>3, <1>4, <1>5, <1>6 DEF RuntimeNext

\* Every reachable database satisfies it.
LEMMA RuntimeInvHolds == RuntimeSpec => []RuntimeInv
<1> QED BY RuntimeInitInv, RuntimeNextInv, PTL DEF RuntimeSpec

\* A context once used stays used, by its own task and terminal, and a settled one
\* does not change at all.
LEMMA ContextKept ==
  ASSUME RuntimeInv, [RuntimeNext]_runtime,
         NEW c \in Contexts, runtime.ctx[c].status # "unused"
  PROVE  /\ runtime'.ctx[c].status # "unused"
         /\ runtime'.ctx[c].task = runtime.ctx[c].task
         /\ runtime'.ctx[c].worker = runtime.ctx[c].worker
         /\ runtime.ctx[c].status # "dispatched" => runtime'.ctx[c] = runtime.ctx[c]
<1> DEFINE Keeps == /\ runtime'.ctx[c].status # "unused"
                    /\ runtime'.ctx[c].task = runtime.ctx[c].task
                    /\ runtime'.ctx[c].worker = runtime.ctx[c].worker
                    /\ runtime.ctx[c].status # "dispatched" => runtime'.ctx[c] = runtime.ctx[c]
<1>1. /\ runtime \in [task : [Tasks -> RuntimeTaskStatus], result : [Tasks -> Result],
                      failures : [Tasks -> 0 .. BreakerLimit], ctx : [Contexts -> Context]]
      /\ runtime.ctx[c] \in Context
  BY DEF RuntimeInv, RuntimeTypeOK
<1>2. ASSUME NEW t \in Tasks, NEW s, s # "unused", runtime'.ctx = Settled(t, s) PROVE Keeps
  BY <1>1, <1>2 DEF Settled, LiveOn, Context
<1>3. ASSUME NEW d \in Contexts, NEW t \in Tasks, NEW w \in Workers, Claim(d, t, w)
      PROVE  Keeps
  BY <1>1, <1>3 DEF Claim, NoContext
<1>4. ASSUME NEW d \in Contexts, Fail(d) PROVE Keeps
  BY <1>1, <1>4 DEF Fail, Context
<1>5. ASSUME NEW d \in Contexts, NEW outcome \in {"succeeded", "failed"}, Report(d, outcome)
      PROVE  Keeps
  <2>1. runtime.ctx[d].task \in Tasks
    BY <1>5 DEF Report, RuntimeInv, Used
  <2>2. runtime'.ctx = Settled(runtime.ctx[d].task,
                               IF outcome = "succeeded" THEN "completed" ELSE "failed")
    BY <1>1, <1>5 DEF Report
  <2> QED BY <1>2, <2>1, <2>2
<1>6. ASSUME NEW d \in Contexts, Release(d) PROVE Keeps
  BY <1>1, <1>6 DEF Release, Context
<1>7. ASSUME NEW t \in Tasks, NEW s \in {"completed", "failed", "ready", "blocked"}, Update(t, s)
      PROVE  Keeps
  <2>1. runtime'.ctx = IF s \in {"completed", "failed"} THEN Settled(t, s) ELSE runtime.ctx
    BY <1>1, <1>7 DEF Update
  <2> QED BY <1>2, <2>1
<1>8. CASE UNCHANGED runtime
  BY <1>8
<1> QED BY <1>3, <1>4, <1>5, <1>6, <1>7, <1>8 DEF RuntimeNext

-----------------------------------------------------------------------------
\* The tables keep their types, whatever calls are made.
THEOREM RuntimeTypeCorrect == RuntimeSpec => []RuntimeTypeOK
<1>1. RuntimeInv => RuntimeTypeOK
  BY DEF RuntimeInv
<1> QED BY <1>1, RuntimeInvHolds, PTL

\* Tasks, contexts and terminals agree: a dispatched task has exactly one live
\* context, a terminal at most one, and a stored report is its own context's.
THEOREM HoldingsAlwaysAgree == RuntimeSpec => []HoldingsAgree
<1>1. ASSUME RuntimeInv PROVE HoldingsAgree
  <2>1. DispatchedIffHeld
    <3> SUFFICES ASSUME NEW t \in Tasks
                 PROVE  IF runtime.task[t] = "dispatched" THEN \E c \in Contexts : LiveOn(t) = {c}
                        ELSE LiveOn(t) = {}
      BY DEF DispatchedIffHeld
    <3>1. CASE runtime.task[t] = "dispatched"
      <4>1. PICK c \in Contexts : Live(c) /\ runtime.ctx[c].task = t
        BY <1>1, <3>1 DEF RuntimeInv, Held
      <4>2. LiveOn(t) = {c}
        BY <1>1, <4>1, LiveIsSole
      <4> QED BY <3>1, <4>2
    <3>2. CASE runtime.task[t] # "dispatched"
      BY <1>1, <3>2 DEF RuntimeInv, Owned, LiveOn, Live
    <3> QED BY <3>1, <3>2
  <2>2. OneContextPerWorker
    BY <1>1 DEF RuntimeInv, Sole, Live, OneContextPerWorker, LiveAt
  <2> QED BY <1>1, <2>1, <2>2 DEF HoldingsAgree, RuntimeInv
<1> QED BY <1>1, RuntimeInvHolds, PTL

\* A task whose dependencies are completed is never left waiting.
THEOREM NoTaskIsStranded == RuntimeSpec => []NoStrandedTask
<1>1. RuntimeInv => NoStrandedTask
  BY DEF RuntimeInv
<1> QED BY <1>1, RuntimeInvHolds, PTL

\* A settled context is never revived or settled again.
THEOREM SettledContextsAreFinal == RuntimeSpec => SettledContextIsFinal
<1> DEFINE Final == \A c \in Contexts :
                      runtime.ctx[c].status \notin {"unused", "dispatched"} =>
                        runtime'.ctx[c] = runtime.ctx[c]
<1>1. ASSUME RuntimeInv, [RuntimeNext]_runtime PROVE [Final]_runtime
  BY <1>1, ContextKept
<1> QED BY <1>1, RuntimeInvHolds, PTL DEF RuntimeSpec, SettledContextIsFinal

=============================================================================
