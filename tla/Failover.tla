------------------------------- MODULE Failover -------------------------------
(***************************************************************************)
(* Recovery of a running dispatch whose Codex agent has hit its account's    *)
(* usage limit.  A recovery refreshes the capacity ledger, selects another   *)
(* account, switches Codex to it, stops the old context and its terminal,    *)
(* launches a replacement, dispatches the same Orca task to it, and records  *)
(* the new context in the work ledger and the outcome in the audit.          *)
(*                                                                         *)
(* The two ledgers are two files, each accepting only the successor of its   *)
(* revision.  A recovery goes on when its page is closed, so a second one,   *)
(* a refresh or a stop can run beside it; a reload of the window ends all of *)
(* them, a restart of the process also settles an interrupted attempt.       *)
(* A step ends where the code awaits; every recovery of "Recoveries" runs    *)
(* once.                                                                    *)
(***************************************************************************)
EXTENDS Integers, FiniteSets, Sequences

CONSTANTS
  Accounts,     \* the Codex accounts of the host lane
  First,        \* the account in use at first
  Default,      \* the system's own login: what Codex uses with no account selected
  Recoveries,   \* clicks on "recover"
  Task,         \* the Orca task of the dispatch
  Terminals,
  Contexts,     \* Orca dispatch contexts
  Term0, Ctx0,  \* the terminal and the context of the dispatch at first
  Ceiling,      \* BARKOS_MAX_FAILOVER_ATTEMPTS
  BreakerLimit, \* DISPATCH_CIRCUIT_BREAK_FAILURES
  MaxFaults,    \* bound on lost answers, failed effects, reloads and disturbing clicks
  None

ASSUME FailoverAssumption ==
  /\ {First, Default} \subseteq Accounts /\ Term0 \in Terminals /\ Ctx0 \in Contexts
  /\ Ceiling \in Nat \ {0}
  /\ MaxFaults \in Nat
  /\ BreakerLimit \in Nat \ {0}
  /\ None \notin {Task} \cup Terminals \cup Contexts

VARIABLES
  capacity,  \* the capacity ledger: revision, last observation, audit
  work,      \* the dispatch in the work ledger, and the ledger's revision
  runtime,   \* Orca's task and contexts
  agents,    \* the agent in each terminal
  session,   \* the terminal the worker's session is bound to
  active,    \* the account Codex uses
  free,      \* the accounts with usage left
  switched,  \* how often recoveries asked for each account (history)
  flow,      \* the recoveries
  stopping,  \* the user's stop
  faults

vars == <<capacity, work, runtime, agents, session, active, free, switched, flow, stopping, faults>>

Orca == INSTANCE OrcaRuntime WITH
  Tasks <- {Task}, Deps <- [t \in {Task} |-> {}], Workers <- Terminals

\* "active" is the state of an audit without an ending; before the first
\* selection is saved there is none.
NoAudit == [state |-> "active", attempts |-> <<>>, replacement |-> None]

Audit ==
  [state : {"active", "succeeded", "stopped", "uncertain"},
   attempts : UNION {[1 .. n -> [account : Accounts,
                                 outcome : {"selected", "failed", "succeeded", "uncertain"}]]
                     : n \in 0 .. Ceiling},
   replacement : Contexts \cup {None}]

Phases == {"new", "checking", "selecting", "switching", "reading", "settling", "stopping",
           "closing", "launching", "readying", "dispatching", "injecting", "saving",
           "succeeding", "failing", "orphan", "over", "failed"}

Idle == [phase |-> "new", capacity |-> [revision |-> 0, active |-> First, free |-> Accounts, audit |-> NoAudit],
         work |-> [revision |-> 0, state |-> "running", stop |-> "none", bound |-> Ctx0],
         terminal |-> Term0, context |-> None, answer |-> "none", response |-> First]

Init ==
  /\ capacity = [revision |-> 0, active |-> First, free |-> Accounts, audit |-> NoAudit]
  /\ work = [revision |-> 0, state |-> "running", stop |-> "none", bound |-> Ctx0]
  /\ runtime =
       [task |-> [t \in {Task} |-> "dispatched"],
        result |-> [t \in {Task} |-> Orca!NoResult],
        failures |-> [t \in {Task} |-> 0],
        ctx |-> [c \in Contexts |->
                   IF c = Ctx0 THEN [status |-> "dispatched", task |-> Task, worker |-> Term0]
                   ELSE Orca!NoContext]]
  /\ agents = [t \in Terminals |-> IF t = Term0 THEN "working" ELSE "unused"]
  /\ session = Term0
  /\ active = First
  /\ free = Accounts
  /\ switched = [a \in Accounts |-> 0]
  /\ flow = [r \in Recoveries |-> Idle]
  /\ stopping = [phase |-> "new", revision |-> 0, terminal |-> Term0]
  /\ faults = 0

Disturb == faults < MaxFaults /\ faults' = faults + 1

Alive(t) == agents[t] \in {"working", "halted", "idle"}
Latest(audit) == audit.attempts[Len(audit.attempts)]
Pending(audit) ==
  audit.state = "active" /\ audit.attempts # <<>> /\ Latest(audit).outcome = "selected"

-----------------------------------------------------------------------------
(* The audit: provider-failover-policy.ts.                                   *)

Tried(audit) == {audit.attempts[i].account : i \in DOMAIN audit.attempts}

\* selectBarkosFailoverAccount, but for the order it tries them in.
Selectable(cap) ==
  IF Len(cap.audit.attempts) >= Ceiling THEN {} ELSE cap.free \ Tried(cap.audit)

Selected(audit, a) ==
  [audit EXCEPT !.attempts = Append(@, [account |-> a, outcome |-> "selected"])]

\* settleBarkosProviderFailoverAttempt.  Defect: the outcome is taken for the
\* state.
SettledAsOutcome(audit, outcome, c) ==
  [audit EXCEPT
     !.attempts[Len(audit.attempts)].outcome = outcome,
     !.replacement = c,
     !.state = outcome]

Settled(audit, outcome, c) ==
  [audit EXCEPT
     !.attempts[Len(audit.attempts)].outcome = outcome,
     !.replacement = c,
     !.state = CASE outcome = "succeeded" -> "succeeded"
                 [] outcome = "uncertain" -> "uncertain"
                 [] OTHER -> IF Len(audit.attempts) >= Ceiling THEN "stopped" ELSE "active"]

-----------------------------------------------------------------------------
(* The two files.                                                           *)

Fits(cap) == cap.revision = capacity.revision

Saved(cap, audit) == [cap EXCEPT !.revision = @ + 1, !.audit = audit]

\* nextBarkosLedgerRevision: a stop names the context it is about.
Recordable(w, c) == w.stop = "none" \/ w.bound = c

-----------------------------------------------------------------------------
(* A recovery.                                                              *)

At(f, phase) ==
  IF phase \in {"over", "failed"} THEN [Idle EXCEPT !.phase = phase] ELSE [f EXCEPT !.phase = phase]

Go(r, f) == flow' = [flow EXCEPT ![r] = f]
To(r, phase) == Go(r, At(flow[r], phase))

\* recover, persistCurrentBarkosProviderCapacitySnapshot.  The work ledger is
\* the page's at the click.
Recover(r) ==
  /\ flow[r].phase = "new"
  /\ capacity' = [capacity EXCEPT !.revision = @ + 1, !.active = active, !.free = free]
  /\ Go(r, [flow[r] EXCEPT !.phase = "checking", !.capacity = capacity', !.work = work])
  /\ UNCHANGED <<work, runtime, agents, session, active, free, switched, stopping, faults>>

\* validateBarkosCodexLocalFailoverEligibility.
Eligible(r) ==
  LET f == flow[r] IN
  /\ f.work.state = "running"
  /\ agents[session] = "halted"
  /\ runtime.ctx[f.work.bound].worker = session
  /\ runtime.ctx[f.work.bound].status = "dispatched"
  /\ f.capacity.active \notin f.capacity.free
  /\ f.capacity.audit.state = "active" /\ ~Pending(f.capacity.audit)

Check(r) ==
  /\ flow[r].phase = "checking"
  /\ IF Eligible(r) THEN Go(r, [flow[r] EXCEPT !.phase = "selecting", !.terminal = session])
     ELSE To(r, "over")
  /\ UNCHANGED <<capacity, work, runtime, agents, session, active, free, switched, stopping, faults>>

\* The selection, or the end of the audit, is saved first; a refused save ends
\* the recovery.
Select(r) ==
  LET cap == flow[r].capacity
      choices == Selectable(cap)
      Save(audit, phase) ==
        IF Fits(cap)
        THEN /\ capacity' = Saved(cap, audit)
             /\ Go(r, At([flow[r] EXCEPT !.capacity = capacity'], phase))
        ELSE /\ capacity' = capacity
             /\ To(r, "over")
  IN /\ flow[r].phase = "selecting"
     /\ \/ choices = {} /\ Save([cap.audit EXCEPT !.state = "stopped"], "over")
        \/ \E a \in choices : Save(Selected(cap.audit, a), "switching")
     /\ UNCHANGED <<work, runtime, agents, session, active, free, switched, stopping, faults>>

\* codexAccounts.select answers with the account it leaves Codex with: the one
\* asked for, or the system's login when that account's home turns out to be
\* unusable.  It can fail before, between or after these effects.
Selection(a) == {a, Default}

Target(r) == Latest(flow[r].capacity.audit).account

Switch(r) ==
  /\ flow[r].phase = "switching"
  /\ switched' = [switched EXCEPT ![Target(r)] = @ + 1]
  /\ \/ /\ active' \in Selection(Target(r))
        /\ IF active' = Target(r) THEN UNCHANGED faults ELSE Disturb
        /\ Go(r, [flow[r] EXCEPT !.phase = "reading", !.answer = "returned", !.response = active'])
     \/ /\ Disturb
        /\ active' \in {active} \cup Selection(Target(r))
        /\ Go(r, [flow[r] EXCEPT !.phase = "reading", !.answer = "threw"])
  /\ UNCHANGED <<capacity, work, runtime, agents, session, free, stopping>>

\* classifyBarkosProviderAccountMutation: only reading back proves the switch;
\* another account proves that it failed when the call threw or answered with
\* that account itself.  Defect: without "requireAuthoritativeReadback" the
\* answer is believed.
OutcomeAsAnswered(r, read) ==
  CASE flow[r].answer = "returned" /\ flow[r].response = Target(r) -> "applied"
    [] read /\ active = Target(r) -> "applied"
    [] OTHER -> IF read /\ flow[r].answer = "threw" THEN "failed" ELSE "uncertain"

Outcome(r, read) ==
  CASE ~read -> "uncertain"
    [] read /\ active = Target(r) -> "applied"
    [] OTHER -> IF flow[r].answer = "threw" \/ flow[r].response = active
                THEN "failed" ELSE "uncertain"

ReadBack(r) ==
  /\ flow[r].phase = "reading"
  /\ \E read \in BOOLEAN :
       /\ IF read THEN UNCHANGED faults ELSE Disturb
       /\ Go(r, [flow[r] EXCEPT
                   !.phase = IF Outcome(r, read) = "applied" THEN "stopping" ELSE "settling",
                   !.answer = Outcome(r, read), !.response = First])
  /\ UNCHANGED <<capacity, work, runtime, agents, session, active, free, switched, stopping>>

\* The end of a recovery: what became of the attempt is saved.  "failing" is
\* the catch around the replacement.
Settle(r) ==
  LET f == flow[r]
      outcome == CASE f.phase = "settling" -> f.answer
                   [] f.phase = "succeeding" -> "succeeded"
                   [] OTHER -> "uncertain"
      refused == CASE f.phase = "settling" -> "over"
                   [] f.phase = "succeeding" -> "failing"
                   [] OTHER -> "failed"
  IN /\ f.phase \in {"settling", "succeeding", "failing"}
     /\ \/ /\ Fits(f.capacity)
           /\ capacity' = Saved(f.capacity, Settled(f.capacity.audit, outcome,
                                  IF outcome = "succeeded" THEN f.context ELSE None))
           /\ To(r, IF f.phase = "failing" THEN "failed" ELSE "over")
           /\ UNCHANGED faults
        \/ /\ IF Fits(f.capacity) THEN Disturb ELSE UNCHANGED faults
           /\ capacity' = capacity
           /\ To(r, refused)
     /\ UNCHANGED <<work, runtime, agents, session, active, free, switched, stopping>>

\* From here on every error leads to "failing".  Lost(effect): the call fails,
\* and may have had its effect all the same.
Lost(r, effect, no) ==
  /\ Disturb
  /\ effect \/ no
  /\ To(r, "failing")

\* replaceBarkosCodexDispatchAuthority, orchestration.workerStop: the receipt
\* must say "stopped".
StopOld(r) ==
  LET c == flow[r].work.bound IN
  /\ flow[r].phase = "stopping"
  /\ \/ /\ Orca!Release(c)
        /\ To(r, IF runtime'.ctx[c].status = "stopped" THEN "closing" ELSE "failing")
        /\ UNCHANGED faults
     \/ Lost(r, Orca!Release(c), UNCHANGED runtime)
  /\ UNCHANGED <<capacity, work, agents, session, active, free, switched, stopping>>

\* terminal.close: only an answer that the process was killed is proof.  It is
\* not killed when it is gone already or the kill cannot be confirmed.  Defect:
\* any answer is proof.
Kill(t) == Alive(t) /\ agents' = [agents EXCEPT ![t] = "dead"]
Spare(t) == UNCHANGED agents

ProvenAnyhow(killed) == TRUE

Proven(killed) == killed

CloseOld(r) ==
  LET t == flow[r].terminal
      After(killed) == To(r, IF Proven(killed) THEN "launching" ELSE "failing")
  IN /\ flow[r].phase = "closing"
     /\ \/ Kill(t) /\ After(TRUE) /\ UNCHANGED faults
        \/ ~Alive(t) /\ Spare(t) /\ After(FALSE) /\ UNCHANGED faults
        \/ Alive(t) /\ Disturb /\ Spare(t) /\ After(FALSE)
        \/ Lost(r, Kill(t), Spare(t))
     /\ UNCHANGED <<capacity, work, runtime, session, active, free, switched, stopping>>

\* launchBarkosCodexFailoverSession: the session is bound to the new terminal
\* before the agent is ready.
Launched(t) ==
  /\ agents' = [agents EXCEPT ![t] = "idle"]
  /\ session' = t

Launch(r) ==
  /\ flow[r].phase = "launching"
  /\ \/ \E t \in Terminals :
          /\ agents[t] = "unused"
          /\ Launched(t)
          /\ Go(r, [flow[r] EXCEPT !.phase = "readying", !.terminal = t])
          /\ UNCHANGED faults
     \/ Lost(r, \E t \in Terminals : agents[t] = "unused" /\ Launched(t),
                UNCHANGED <<agents, session>>)
  /\ UNCHANGED <<capacity, work, runtime, active, free, switched, stopping>>

\* orchestration.taskUpdate.  The rebinding of a lead's run has no state here;
\* its failure is one of this step's.
Ready(r) ==
  /\ flow[r].phase = "readying"
  /\ \/ /\ Orca!Update(Task, "ready")
        /\ To(r, "dispatching")
        /\ UNCHANGED faults
     \/ /\ ~Orca!Updatable(Task, "ready")
        /\ To(r, "failing")
        /\ UNCHANGED <<runtime, faults>>
     \/ Lost(r, Orca!Update(Task, "ready"), UNCHANGED runtime)
  /\ UNCHANGED <<capacity, work, agents, session, active, free, switched, stopping>>

\* orchestration.dispatch up to the prompt: the task must be ready and the
\* terminal must run an agent.
Claimable(r) ==
  /\ runtime.task[Task] = "ready"
  /\ Alive(flow[r].terminal)
  /\ Orca!LiveAt(flow[r].terminal) = {}

Dispatch(r) ==
  /\ flow[r].phase = "dispatching"
  /\ \/ \E c \in Contexts :
          /\ Claimable(r)
          /\ Orca!Claim(c, Task, flow[r].terminal)
          /\ Go(r, [flow[r] EXCEPT !.phase = "injecting", !.context = c])
          /\ UNCHANGED faults
     \/ /\ ~Claimable(r)
        /\ To(r, "failing")
        /\ UNCHANGED <<runtime, faults>>
     \/ Lost(r, UNCHANGED runtime, UNCHANGED runtime)
  /\ UNCHANGED <<capacity, work, agents, session, active, free, switched, stopping>>

\* The prompt, which the runtime sends whether or not the caller is still
\* there, and the answer of orchestration.dispatch.
Inject(r) ==
  LET c == flow[r].context
      t == flow[r].terminal
      prompted == /\ agents' = [agents EXCEPT ![t] = "working"]
                  /\ UNCHANGED runtime
      refused == /\ UNCHANGED agents
                 /\ IF runtime.ctx[c].status = "dispatched" THEN Orca!Fail(c) ELSE UNCHANGED runtime
      After(phase) == To(r, IF flow[r].phase = "orphan" THEN "over" ELSE phase)
  IN /\ flow[r].phase \in {"injecting", "orphan"}
     /\ \/ Alive(t) /\ prompted /\ After("saving") /\ UNCHANGED faults
        \/ ~Alive(t) /\ refused /\ After("failing") /\ UNCHANGED faults
        \/ Disturb /\ Alive(t) /\ (prompted \/ refused) /\ After("failing")
     /\ UNCHANGED <<capacity, work, session, active, free, switched, stopping>>

\* The replacement is recorded in the copy of the work ledger made at the click.
\* Defect: a save that is refused is taken for done.
SaveOutcomeIgnored(r, accepted) == "succeeding"

SaveOutcome(r, accepted) == IF accepted THEN "succeeding" ELSE "failing"

SaveWork(r) ==
  LET f == flow[r]
      fits == f.work.revision = work.revision /\ Recordable(f.work, f.context)
  IN /\ f.phase = "saving"
     /\ \/ /\ fits
           /\ work' = [f.work EXCEPT !.revision = @ + 1, !.bound = f.context]
           /\ To(r, SaveOutcome(r, TRUE))
           /\ UNCHANGED faults
        \/ /\ IF fits THEN Disturb ELSE UNCHANGED faults
           /\ work' = work
           /\ To(r, SaveOutcome(r, FALSE))
     /\ UNCHANGED <<capacity, runtime, agents, session, active, free, switched, stopping>>

Recovery(r) ==
  \/ Recover(r) \/ Check(r) \/ Select(r) \/ Switch(r) \/ ReadBack(r) \/ Settle(r)
  \/ StopOld(r) \/ CloseOld(r) \/ Launch(r) \/ Ready(r) \/ Dispatch(r) \/ Inject(r) \/ SaveWork(r)

-----------------------------------------------------------------------------
(* The user stops the dispatch: request, proof of the context, proof of the  *)
(* terminal, each saved; a refused save ends the stop where it is.           *)

SaveStop(state, phase) ==
  IF stopping.revision = work.revision
  THEN /\ work' = [work EXCEPT !.revision = @ + 1, !.stop = state,
                               !.state = IF state = "completed" THEN "cancelled" ELSE @]
       /\ stopping' = [stopping EXCEPT !.phase = phase, !.revision = @ + 1]
  ELSE /\ work' = work
       /\ stopping' = [stopping EXCEPT !.phase = "over"]

RequestStop ==
  /\ stopping.phase = "new"
  /\ work.state = "running" /\ work.stop = "none"
  /\ Alive(session)
  /\ work' = [work EXCEPT !.revision = @ + 1, !.stop = "requested"]
  /\ stopping' = [phase |-> "proving", revision |-> work.revision + 1, terminal |-> session]
  /\ UNCHANGED <<capacity, runtime, agents, session, active, free, switched, flow, faults>>

ProveStop ==
  /\ stopping.phase = "proving"
  /\ \/ /\ Orca!Release(work.bound)
        /\ IF runtime'.ctx[work.bound].status = "stopped" THEN SaveStop("stopped", "closing")
           ELSE SaveStop("uncertain", "over")
        /\ UNCHANGED faults
     \/ /\ Disturb
        /\ Orca!Release(work.bound) \/ UNCHANGED runtime
        /\ SaveStop("uncertain", "over")
  /\ UNCHANGED <<capacity, agents, session, active, free, switched, flow>>

CloseStop ==
  LET t == stopping.terminal
      After(killed) == IF Proven(killed) THEN SaveStop("completed", "over") ELSE SaveStop("uncertain", "over")
  IN /\ stopping.phase = "closing"
     /\ \/ Kill(t) /\ After(TRUE) /\ UNCHANGED faults
        \/ ~Alive(t) /\ Spare(t) /\ After(FALSE) /\ UNCHANGED faults
        \/ Alive(t) /\ Disturb /\ Spare(t) /\ After(FALSE)
        \/ Disturb /\ (Kill(t) \/ Spare(t)) /\ SaveStop("uncertain", "over")
     /\ UNCHANGED <<capacity, runtime, session, active, free, switched, flow>>

-----------------------------------------------------------------------------
(* What goes on around it.                                                  *)

\* An agent's turn ends at its account's limit.
Halt(t) ==
  /\ agents[t] = "working" /\ active \notin free
  /\ agents' = [agents EXCEPT ![t] = "halted"]
  /\ UNCHANGED <<capacity, work, runtime, session, active, free, switched, flow, stopping, faults>>

UseUp ==
  /\ active \in free
  /\ free' = free \ {active}
  /\ UNCHANGED <<capacity, work, runtime, agents, session, active, switched, flow, stopping, faults>>

\* The user chooses an account, or refreshes the capacity page.
UserSelects(a) ==
  /\ a # active /\ Disturb
  /\ active' = a
  /\ UNCHANGED <<capacity, work, runtime, agents, session, free, switched, flow, stopping>>

Refresh ==
  /\ Disturb
  /\ capacity' = [capacity EXCEPT !.revision = @ + 1, !.active = active, !.free = free]
  /\ UNCHANGED <<work, runtime, agents, session, active, free, switched, flow, stopping>>

\* A worker reports, and the sync applies it to the running dispatch.
Reports(c, outcome) ==
  /\ agents[runtime.ctx[c].worker] = "working"
  /\ Orca!Report(c, outcome)
  /\ UNCHANGED <<capacity, work, agents, session, active, free, switched, flow, stopping, faults>>

SyncReport ==
  /\ runtime.task[Task] \in {"completed", "failed"} /\ runtime.result[Task].by # None
  /\ work.state = "running" /\ work.stop = "none"
  /\ work' = [work EXCEPT !.revision = @ + 1, !.state = "reported"]
  /\ UNCHANGED <<capacity, runtime, agents, session, active, free, switched, flow, stopping, faults>>

\* Another flow saves the work ledger, or pushes the task's status.
OtherSave ==
  /\ Disturb
  /\ work' = [work EXCEPT !.revision = @ + 1]
  /\ UNCHANGED <<capacity, runtime, agents, session, active, free, switched, flow, stopping>>

PushStatus ==
  /\ work.state = "running" /\ runtime.task[Task] # "blocked" /\ Disturb
  /\ Orca!Update(Task, "blocked")
  /\ UNCHANGED <<capacity, work, agents, session, active, free, switched, flow, stopping>>

\* failActiveDispatchOnExit.
Exits(c) ==
  /\ runtime.ctx[c].status = "dispatched" /\ agents[runtime.ctx[c].worker] = "dead"
  /\ Orca!Fail(c)
  /\ UNCHANGED <<capacity, work, agents, session, active, free, switched, flow, stopping, faults>>

\* A reload of the window ends every flow, but not a prompt the runtime is
\* sending; a restart ends that too and settles the attempts that were
\* interrupted, at the first load.
Gone(prompts) ==
  /\ flow' = [r \in Recoveries |->
                At(flow[r], CASE flow[r].phase = "new" -> "new"
                              [] flow[r].phase \in prompts -> "orphan"
                              [] OTHER -> "over")]
  /\ stopping' = [stopping EXCEPT !.phase = IF @ = "new" THEN "new" ELSE "over"]

Reload ==
  /\ Disturb
  /\ Gone({"injecting", "orphan"})
  /\ UNCHANGED <<capacity, work, runtime, agents, session, active, free, switched>>

\* recoverInterruptedBarkosProviderFailovers.
Recovered(audit) == IF Pending(audit) THEN Settled(audit, "uncertain", None) ELSE audit

Restart ==
  /\ Disturb
  /\ Gone({})
  /\ capacity' = IF Pending(capacity.audit)
                 THEN [capacity EXCEPT !.revision = @ + 1, !.audit = Recovered(@)]
                 ELSE capacity
  /\ UNCHANGED <<work, runtime, agents, session, active, free, switched>>

-----------------------------------------------------------------------------
Next ==
  \/ \E r \in Recoveries : Recovery(r)
  \/ RequestStop \/ ProveStop \/ CloseStop
  \/ \E t \in Terminals : Halt(t)
  \/ UseUp
  \/ \E a \in Accounts : UserSelects(a)
  \/ Refresh
  \/ \E c \in Contexts \ {c \in Contexts : runtime.ctx[c].worker = None},
        outcome \in {"succeeded", "failed"} : Reports(c, outcome)
  \/ SyncReport \/ OtherSave \/ PushStatus
  \/ \E c \in Contexts : Exits(c)
  \/ Reload \/ Restart

Spec == Init /\ [][Next]_vars

-----------------------------------------------------------------------------
Capacity == [revision : Nat, active : Accounts, free : SUBSET Accounts, audit : Audit]

Work == [revision : Nat, state : {"running", "reported", "cancelled"},
         stop : {"none", "requested", "stopped", "uncertain", "completed"}, bound : Contexts]

FailoverTypeOK ==
  /\ capacity \in Capacity
  /\ work \in Work
  /\ Orca!RuntimeTypeOK
  /\ agents \in [Terminals -> {"unused", "idle", "working", "halted", "dead"}]
  /\ session \in Terminals
  /\ active \in Accounts /\ free \subseteq Accounts
  /\ switched \in [Accounts -> Nat]
  /\ flow \in [Recoveries ->
                 [phase : Phases, capacity : Capacity, work : Work, terminal : Terminals,
                  context : Contexts \cup {None},
                  answer : {"none", "returned", "threw", "applied", "failed", "uncertain"},
                  response : Accounts]]
  /\ stopping \in [phase : {"new", "proving", "closing", "over"}, revision : Nat,
                   terminal : Terminals]
  /\ faults \in 0 .. MaxFaults

\* A recovery asks for an account only while its selection is on disk, and no
\* account is asked for twice, whoever clicks and whatever is interrupted:
\* "never selects the same account twice and stops after at most three attempts".
SelectionComesFirst ==
  [][\A a \in Accounts : switched'[a] # switched[a] =>
       /\ switched[a] = 0
       /\ Pending(capacity.audit) /\ Latest(capacity.audit).account = a]_vars

\* An audit with an uncertain or a successful attempt, or one that was stopped,
\* never changes again, and an open one loses no attempt: "an ambiguous possible
\* side effect ... cannot advance to another account".
AuditIsFinal ==
  [][LET old == capacity.audit
         new == capacity'.audit
         outcomes == {old.attempts[i].outcome : i \in DOMAIN old.attempts}
     IN /\ (old.state # "active" \/ outcomes \cap {"uncertain", "succeeded"} # {}) => new = old
        /\ \A i \in DOMAIN old.attempts :
             /\ i \in DOMAIN new.attempts
             /\ \/ new.attempts[i] = old.attempts[i]
                \/ /\ old.attempts[i].outcome = "selected"
                   /\ new.attempts[i].account = old.attempts[i].account]_vars

\* A recovery goes on to replace the agent only when it has read back that Codex
\* uses the account asked for; an attempt is recorded as failed, so that the next
\* account may be tried, only when its recovery has read back another one.
Disproved(r) == flow[r].phase = "settling" /\ flow[r].answer = "failed"

OutcomeIsRead ==
  [][/\ \A r \in Recoveries :
          /\ flow[r].phase = "reading" /\ flow'[r].phase = "stopping" =>
               active = Latest(capacity.audit).account
          /\ Disproved(r)' /\ ~Disproved(r) => active # Latest(capacity.audit).account
     /\ \A i \in DOMAIN capacity.audit.attempts :
          capacity'.audit.attempts[i].outcome = "failed" =>
            \/ capacity.audit.attempts[i].outcome = "failed"
            \/ \E r \in Recoveries : Disproved(r)]_vars

\* The audit moves forward only, and on proof only: a selection is on disk before
\* its account is asked for, an account is asked for once, what became of it is
\* read and not assumed, and an outcome is never revised.
AuditMovesForward == SelectionComesFirst /\ AuditIsFinal /\ OutcomeIsRead

\* No second agent is launched for the worker while one is still alive, and
\* Orca gives the task to one context only.
OneWriter ==
  /\ \A s, t \in Terminals : Alive(s) /\ Alive(t) => s = t
  /\ Cardinality(Orca!LiveOn(Task)) <= 1

\* A recovery recorded as successful has bound the dispatch to the context it
\* names, and has taken every authority from the one before.
SuccessIsBound ==
  capacity.audit.state = "succeeded" =>
    /\ work.bound = capacity.audit.replacement
    /\ work.bound # Ctx0
    /\ runtime.ctx[Ctx0].status = "stopped" /\ agents[Term0] = "dead"

\* A dispatch shown as stopped has no agent left, and no context but one that
\* its agent's exit is about to end, although a recovery was on its way.
StoppedIsDead ==
  work.state = "cancelled" =>
    /\ \A t \in Terminals : ~Alive(t)
    /\ \A c \in Orca!LiveOn(Task) : agents[runtime.ctx[c].worker] = "dead"

\* "injects a new Dispatch, and persists its identifier in the existing BarkOS
\* Dispatch": nothing but a newer work ledger or the disk refuses that.
RecoveryIsSaved ==
  \A r \in Recoveries :
    flow[r].phase = "saving" /\ flow[r].work.revision = work.revision =>
      Recordable(flow[r].work, flow[r].context)

=============================================================================
