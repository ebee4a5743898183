# BarkOS delegation: a TLA+ development

BarkOS is a desktop application in which a user gives work to AI agents. A goal
becomes an *objective* with an approved *plan* of *tasks*; tasks are *assigned*
to workers of a virtual company, *dispatched* to an agent terminal through Orca
(the runtime BarkOS is built on), *stopped*, *reassigned*, and finally completed
by *evidence* that is reviewed. Agents act on real repositories, terminals fail,
calls time out and several clients edit the same record. The development models
that core: the durable **delegation ledger**, the part of **Orca's orchestration
database** it drives, the **flows** of concurrent sessions between the two, and
the protocols around them: how **decisions** reach the user and are answered, how
a tool call gets its **approval**, how a **remote worker's reports** travel home,
how a dispatch **fails over** to another provider account, and how a coordinator
reads the **mailbox of its Run**.

Contents: [inventory](#inventory) · [modules](#modules) · [runs](#runs) ·
[fairness](#fairness) · [proofs](#proofs) · [findings](#findings) ·
[abstractions](#abstractions) · [not modelled](#not-modelled) · [plan](#plan).

## Inventory

Paths below are relative to `src/src/` of the repository. *SB* is `shared/barkos`,
*MB* `main/barkos`, *RL* `renderer/src/lib`, *MO* `main/runtime/orchestration`, *OD*
*MO*`/db`. The last column names the module that models the component.

| Component | State it keeps | Operations | What is hard | What makes it correct | Module |
|---|---|---|---|---|---|
| **Delegation ledger** (SB `work-ledger*.ts`, `assignment-*.ts`, `orchestration-dispatch-state.ts`, `dispatch-stop*.ts`, `evidence-review.ts`, `worker-report-reconciliation.ts`) | one snapshot: objectives, plans, tasks, assignments, approval gates, dispatch attempts with their stop, evidence, a revision | assign, decide gate, reassign, prepare / commit / fail attempt, request / prove / complete / doubt stop, submit, review, reconcile report | long legal sequences; rules that relate several records; an outcome that must be recordable after the effect | one authority per task, no attempt before approval, settlement never refused, what is settled is final | LedgerOperations, WorkLedger |
| **Ledger store and slice** (MB `work-ledger-store.ts`, `renderer/src/store/slices/barkos-work-ledger.ts`) | the stored snapshot; each client's copy | load, save only the direct successor revision | stale copies of several clients | all clients together behave as one user of the ledger | Delegation |
| **Dispatch and stop adapters** (SB `orchestration-dispatch-adapter.ts`, `orchestration-dispatch-stop.ts`) | none of their own; a flow over several awaits | save intent, call Orca, save outcome | crash, time-out, error, late effect, refused save at each await | effects only under a durable record; only a proven stop is recorded; every attempt is settled | Delegation |
| **Worker report sync** (RL `sync-barkos-worker-reports.ts`) | none | list tasks, reconcile and save one by one | reports of earlier attempts; concurrent pushes | a report counts for the attempt that made it and is not lost | Delegation |
| **Plan materialisation** (SB `orchestration-plan-adapter.ts`) | bindings in the ledger | create run, create tasks, push statuses | lost answers, retries, concurrent reports | one Orca task per BarkOS task; pushes do not undo progress | Delegation (the pushes) |
| **Project automation** (RL `barkos-project-automation-runtime.ts`, `barkos-autonomous-recovery.ts`) | a loop over the ledger | sync, materialise, assign, dispatch | runs beside the user | as one more session | Delegation |
| **Orca task and context database** (OD `tasks/`, `dispatch-context/`) | tasks, dispatch contexts, failure counts | claim, fail, report, release, update status | any order of a report, a failure, a stop and a status push | a task is dispatched iff one context holds it; a settled context is final; nothing is stranded | OrcaRuntime |
| **Orca RPC and lifecycle** (`main/runtime/rpc/methods/orchestration*.ts`, `lifecycle-reconciliation.ts`, `orca-runtime.ts`) | none durable | dispatch, workerStop, taskUpdate, worker_done, agent exit | requests outlive their callers | as above, across late calls | Delegation |
| **Control and assignment policy** (SB `control-policy.ts`, `assignment-policy.ts`) | limits, pause, approvals | evaluate a decision | checked once, relied on later | limits hold of the ledger itself | LedgerOperations (limits) |
| **Decision inbox** (SB `decision-inbox.ts`, MB `decision-inbox-store.ts`, `renderer/src/components/barkos-company/use-barkos-decision-inbox.ts`) | requests: pending, resolving, uncertain, resolved; each mount's copy | discover, merge, begin, complete, mark uncertain, recover | the answer is sent between two saves; two mounts and a controller write; cut-off at the limit | answered at most once; a resolved request was answered so; no answer is undone | DecisionInbox |
| **Side-effect approvals** (MB `side-effect-approval-controller.ts`, `paired-side-effect-approval-broker.ts`) | requests in the inbox, calls held by the broker | request, approve, consume, expire | expiry against a late decision, time-outs, a limit that drops requests and reuses ids | an approval is used once, for the input it was given for | SideEffectApproval |
| **Federation relay** (MO `federation-sync.ts`, `federation-ack-checkpoints.ts`, OD `federation/`) | the worker's queue and attachments, the home cursor, receipts, checkpoints | enqueue, pull, import, acknowledge, settle, stop | lost answers, a death inside an acknowledgment, restarts, quota, two protocol versions | a report is imported once, decided, and both sides agree on the verdict | FederationRelay |
| **Provider failover** (SB `provider-failover-*.ts`, `provider-account-failover-executor.ts`, RL `barkos-codex-failover.ts`) | audits in the capacity ledger, the dispatch's binding | select, switch account, read back, stop, close, relaunch, dispatch, save | partial failure before the only save; two recoveries; a stop meanwhile | one agent works on the task; a success is bound; a proven stop is dead | Failover |
| **Run mailbox** (`main/runtime/rpc/methods/orchestration.ts`, OD `messages/`, `orca-runtime.ts`) | messages with read, delivery and handle; deliveries; generations | send, check, acknowledge, wait, reply, take over, reset | a check routes, acknowledges and reads over several awaits; handles change under it | a batch has one reader at a time, no mail is lost, a waiting check is woken | RunMailbox |
| **Worker sessions** (SB `worker-session.ts`, MB `worker-session-store.ts`) | worker ↔ terminal bindings | launch, bind, rebind, retire | a terminal closed under a second dispatch | — | — |
| **Memory vault, company and staffing, provider cost, timeline and live office** | their own stores | edit, observe, project | migrations, growth | independent of delegation state | — |
| **Orca coordinator; terminal daemon and relay; application shell** | — | — | — | inherited from Orca, not used by BarkOS's own runs, or user interface and I/O | — |

How they interact: a session (a user action in any client, or the automation
loop) works on *its copy* of the ledger. Every mutation builds the next ledger,
parses it with the schema (which throws on a broken cross-record rule) and saves
it over IPC; the store accepts only the direct successor of the revision it
holds. A dispatch saves `prepared`, calls `orchestration.dispatch`, which claims a
context and injects a prompt into the worker's terminal, and saves `running` or
`failed`. The agent reports to Orca (`worker_done`), which completes the Orca
task; the sync reads Orca's task list and reconciles it into the ledger. A stop
saves `requested`, calls `orchestration.workerStop`, saves the proof, closes the
terminal, and saves the completion, or `uncertain` when a proof is missing.

A worker on a paired host reports into a queue there; the home runtime pulls it,
imports each item, decides reports, and acknowledges with the verdicts. A tool
call of an agent that needs approval becomes a request in the decision inbox,
which the page shows and answers; gates, questions and messages of Orca are
discovered into the same inbox and answered back. A dispatch whose account runs
out is stopped, relaunched under another account and dispatched again.

The hazards this exposes the code to, each at its line, are listed in
`PROJECT.json` under `hazards`, with the properties that cover them or the reason
none does yet.

## Modules

```
LedgerOperations             the ledger as a value: CanX, X, Valid
   |            \
WorkLedger       Delegation  --INSTANCE-->  OrcaRuntime  <--INSTANCE--  Failover
   |                 |  implements WorkLedger       |                      |
WorkLedgerProofs     |                      OrcaRuntimeProofs       FailoverProofs
              DelegationProofs

SideEffectApproval  --implements-->  OneUsePermission      DecisionInbox
   |                                                          |
SideEffectApprovalProofs                                   DecisionInboxProofs

FederationRelay  --implements-->  ReportChannel            RunMailbox
   |                                                          |
FederationRelayProofs                                      RunMailboxProofs
```

**LedgerOperations** holds the ledger as a record and every operation as a pure
pair: `CanX(L, ..)` is what operation X checks, `X(L, ..)` is the ledger it builds,
`Valid(L)` what the schema's `superRefine` rules demand. Keeping them pure lets the
same translation serve one ledger (WorkLedger), many copies (Delegation) and the
proofs. Assignments are numbered in the order the code creates them and an attempt
is `<<assignment, number>>`, as in `barkosDispatchId`. `PlanAssumption`,
`AcyclicAssumption` and `LimitAssumption` state what the schema and the policy
demand of the plan and the limits.

**WorkLedger** is the abstract specification: one ledger, each operation atomic,
each next ledger `Valid`. It states what the ledger promises whoever uses it.

**OrcaRuntime** models the tasks of a run and the dispatch contexts that give a
terminal authority over a task: `Claim` (`createDispatchContext`), `Fail`
(`failDispatch` with its circuit breaker), `Report` (`settleWorkerReport` with
`promoteReadyTasks`), `Release` (`releaseContextOnlyDispatch`), `Update`
(`updateTaskStatus`). Each is one SQLite transaction, hence one action.

**Delegation** composes them. `stored` is the snapshot, `sess[s]` a session with
its phase and copy, `call[d]` what became of the dispatch call of attempt `d`,
`runtime` Orca's state; the context claimed for attempt `d` is identified with
`d`. A step of a session ends where the code awaits; `Save` is
`persistBarkosLedgerMutation` with the store's check, and a refused save ends the
flow. `ClaimDispatch`, `InjectPrompt` and `ServeStop` are Orca's side of a call and
go on when the caller has timed out or crashed. `WorkerReports` and `WorkerExits`
are the agents. `UpdateTask` is one step of a re-materialisation.

**DecisionInbox** models the inbox of one company. `stored` maps every possible
request to its status and answer; `view` is the renderer's copy and whether its
revision is still the stored one (`fresh`), `hooks[h]` the promise a mount of the
page has under way. Discovery is read, then merged with `Limit` (`Cut`), then
saved; an answer is `BeginResolve`, `SavePrepared`, `Call`, `SaveCompleted` or
`SaveUncertain`, each ending at an await. The controller writes tool approvals
through a second store object (`ToolUse`, `DecideSideEffect`), each store recovers
interrupted answers at its first load (`Recover`), and `source` is what Orca holds,
where others answer too (`ForeignAnswer`). A mount's discovery may carry rows read
before another mount's answer to a gate; such rows show the gate pending until the
next poll, so they change what is shown, not what is sent.

**SideEffectApproval** models a tool call from the hook to its end. `requests` are
the controller's requests, with a `sequence` from which the id is made and a
`born` that orders them; `calls[c]` where the call is held and what is on the wire
of the paired connection. `Evaluate` is the controller's decision on a call
(consume, refuse, expire, ask), `UseTool`, `GiveUp`, `Deliver`, `Lose`, `Subscribe`
and `Unsubscribe` the broker, `Run` the tool. **OneUsePermission** is its abstract
specification: a run needs a permission granted for its input, and a permission
serves one run. `granted` and `permit` are history.

**FederationRelay** models one dispatch to an agent on another runtime: `relay` is
the worker's queue, `worker` its attachment, `receipts` its mutation receipts,
`home` the home's dispatch row and cursors, `inbox` the messages of the Run. `Send`
includes the quota and the merging of heartbeats; `Pull`, `Import`, `Ack` and
`DeliverMail` are the awaits of one sync; `Ack` is the worker's handler with the
receipt it replays (`Replayed`) or refuses, and `LoseAck` the ways an
acknowledgment can be lost, also with its effect done. `Stop` is the home's stop
of a worker; restarts renew an epoch and forget the checkpoint. **ReportChannel** is
its abstract specification: a first-in, first-out channel from which only a heartbeat that
a newer message replaces may vanish. `pending` maps to what is queued and not
imported, `received` to the home's inbox.

**Failover** models the recovery of a Codex dispatch whose account ran out. It
takes Orca's operations from OrcaRuntime with one task. `capacity` is the capacity
ledger with the audit of the failover, `work` the dispatch in the work ledger, `agents`
what runs in each terminal, `flow[r]` a click on "recover" with the copies it read.
`Select`, `Switch`, `ReadBack`, `Settle`, `StopOld`, `CloseOld`, `Launch`, `Dispatch`,
`SaveWork` and the audit's two saves follow the code from await to await, each with
the ways it fails. An account selection that returns leaves Codex with the account
asked for or with `Default`, the system's own login, to which the service falls back
when the account's home is unusable; one that throws has done either or nothing.
`response` is what it answered, and `Outcome` tells apart, as the code does, a switch
that is applied, one disproved (the next account may be tried) and one in doubt;
`RequestStop`, `ProveStop` and `CloseStop` are the user's stop of
the same dispatch beside it.

**RunMailbox** models the mailbox of one Run: `mail` the rows of `messages`,
`deliveries` their batches, `run` the coordinator's handle and the consumer
generation, `known` the handles that coordinated the Run, `calls` the checks in
progress. `Check` runs to its first await, `Proceed` goes on from a page of routed
mail, `Resume` after a notification and `GiveUp` at the time-out. `Send` is any mail
but a worker's; a row has a type and the dispatch it is about. `Heartbeat` and `Report`
are the handler's second half, `reconcileLifecycleMessage`: a heartbeat about a
dispatch that is over (`dispatch[d]`) is stored as read and notifies nobody, an
accepted report marks the heartbeats before it read. `End` is a dispatch that ends
without a report. `Use` takes over,
`Leave` unbinds, `Remint` gives a terminal a new handle, `Restart` drops the
waiters, `Reset` clears messages. `told` and `handed` are history: the deliveries and the
messages some agent was answered with.

The `*Proofs` modules hold the theorems; those of Delegation and Failover instantiate
those of WorkLedger and OrcaRuntime. The `MC*` modules give the constants
values. In each module a definition that follows a comment beginning "Defect" is a
plausible bug used to show that a property notices it; no specification uses one.
`PROJECT.json` maps every other definition to its lines.

## Runs

| Run | Instance | Shows |
|---|---|---|
| `ledger` | 3 tasks (two independent, one of them risk-gated; a policy-gated third needs both; one auto-reviewable), 2 workers, 4 assignments, 2 attempts each, 1 active assignment per worker, 2 concurrent, 4 dispatches | the type invariant and the properties of WorkLedger |
| `runtime` | the same shape of plan, 2 terminals, 3 contexts, breaker at 2 | the type invariant and the properties of OrcaRuntime |
| `sessions` | 1 task, 2 workers, 2 assignments of up to 2 attempts, 3 dispatches in all, 2 sessions that may crash, breaker at 2 | stale copies, late answers and crashes never make the stored ledger move in a way WorkLedger does not (`ImplementsLedger`), effects follow records, only proven stops are recorded |
| `settlement` | 1 gated task, 1 session, no crash, `FairSpec` | every prepared attempt and every requested stop is settled |
| `inbox` | a gate, a question and a tool approval, room for 2 requests, 2 answers, 2 mounts, 1 fault | no answer is sent twice, offered again, erased or undone, and what is resolved was answered so |
| `approval` | 5 calls over 2 inputs, 2 of them on a paired host, room for 2 requests, a lifetime of 1 | every run has an approval of its own (`ImplementsPermission`), and no input more runs than grants (`RunsWithinGrants`), although requests are dropped and ids given again; a denied call stays denied |
| `relay` | both protocol versions, quota and page of 2, 2 pages, 3 messages among reports (finished, gave up, about another task), statuses and heartbeats, 1 control message, any one fault of six, a stop | what is acknowledged was decided, both sides agree on the verdict and never take it back, nothing is left behind when syncing ends |
| `relay_live` | the settling protocol below its quota, a lost request or a restart, a stop, `LiveSpec` | a queued report is decided, the worker learns the verdict, the relay implements `ReportChannel`, and the inbox keeps the order of sending |
| `failover` | 2 recoveries, 2 accounts to go to, 3 terminals and contexts, at most 2 attempts, 2 faults | one agent works on the task, a success is bound to the live context, a proven stop is dead, the audit only moves forward, and on what was read back |
| `mailbox` | 2 panes, 2 checks at once, 2 messages of any type, of which a filtered check leaves heartbeats out, pages of 1, 2 generations; and one of: a second delivery, new handles, a dispatch that ends or is reported and mail about it | batches are replayed, never shared and never lost, only obsolete heartbeats are hidden; a waiting check is woken |
| `stale_report`, `relay_lost_ack` | smallest instance with the behaviour | the [findings](#findings) |

Beside these, the configurations named under [findings](#findings) show one
behaviour each, and two more that pass: `MCDelegationChain.cfg` checks
`ImplementsLedger` with a policy-gated task that needs an auto-reviewable one, where
promotion, re-materialisation and approval interleave, and
`MCDecisionInboxLive.cfg` checks `GateAnswerIsNoticed`: while the page polls, the
answer somebody else gave to a gate is noticed.

*Bounds.* `MaxAssignments`, `MaxAttempts`, `MaxDispatches`, `Limit`, `Quota`, `Page`,
`MaxPages`, `PageLimit`, `Ceiling` and `BreakerLimit` are limits of the code itself
(2000, 3, a policy number, 500 requests, ...); the runs only make them small, so
that each one binds. Every ledger operation spends an assignment, an attempt or a
settlement, so under these bounds all behaviours are finite and `revision`, though
unbounded in the model, needs no cap. Three tasks give each dependency shape the
rules tell apart (none, several, several open dependants); two workers give the
reassignment its other worker; two attempts give the retry its earlier attempt, and
two assignments the reassignment its replacement. Two sessions (two mounts, two
recoveries, two checks) suffice for staleness, because what one sees of all others is
the stored state. A failure count at `BreakerLimit` is not raised further: `>=` is
all the code asks of it. The bounds that are not the code's are `MaxFaults` (one or
two faults in a row, of every kind at every await), `MaxSends` and `MaxMail` (three
messages fill the quota of two), `MaxTime` (a request can expire), `MaxMints`,
`MaxGeneration` and `MaxDeliveries` (a takeover, a changed handle, and a batch after
the first). The constraint of `mailbox` lets one of a second batch, a changed handle and
mail about a dispatch happen, not two of them, which keeps it below a million states; the
theorems about the mailbox cover them together, for every value of these bounds. The type invariants of the approvals,
the relay and the mailbox are proved for all constants and not run.

*Deadlock* is checked in `inbox` and `approval`, where the page can always poll or be reloaded,
respectively a subscription be opened. Elsewhere `CHECK_DEADLOCK FALSE`, because the system may stop: the plan is
completed, an objective has failed, attempts or bounds are used up.

*Symmetry* is used over workers, sessions, contexts, terminals, mounts, answers,
calls of a kind, panes and accounts that differ in nothing, and over the two
interchangeable tasks of `runtime`, in safety runs only; the runs with liveness use
none.

*Properties.* Those that are conjunctions keep their parts as named definitions.

- WorkLedger: `OneAuthorityPerTask`, `NoUnapprovedAttempt`,
  `AttemptFollowsAssignment`; `CompletionIsSound` (`EarnedCompletion`: exactly one
  accepted attempt completes a task, and `ClosedObjectiveIsQuiet`);
  `AssignmentsAreSound` (`DispatchedHasOwner`: no path leaves capacity taken by
  nothing, `ReassignmentMovesWork`, `CapacityRespected`);
  `SettlementIsNeverRefused` (what must be recorded after an effect is never thrown
  away by the schema); `RecordsAreFinal` (`PendingStopFreezes`, `SettledIsFinal`).
- OrcaRuntime: `HoldingsAgree` (`DispatchedIffHeld`, `OneContextPerWorker`,
  `ReportMatchesContext`), `NoStrandedTask`, `SettledContextIsFinal`.
- Delegation: `RecordsMatchEffects` (`EffectsAreRecorded`, `RunningWasClaimed`,
  `RevisionsIdentifyLedgers`), `StopWasProven`, `ImplementsLedger`,
  `EffectsAreSettled` (`AttemptIsSettled`, `StopIsSettled`).
- DecisionInbox: `OneAnswer` (`AnsweredOnce`, `AnsweredIsNotOffered`),
  `ResolvedWasAnswered`, `DecisionsMoveForward`.
- SideEffectApproval: `OneOpenRequest`, `RunsWithinGrants`, `ImplementsPermission`,
  `DenialIsFinal`.
- FederationRelay: `NothingIsForgotten` (`AckedReportIsDecided`,
  `NoReportStranded`), `VerdictsAgree`, `DecisionIsFinal`, `ArrivesInOrder`
  (`Contiguous`, `InSendingOrder`), `ReportIsDecided`, `VerdictReachesWorker`,
  `ImplementsChannel`.
- Failover: `OneWriter`, `SuccessIsBound`, `StoppedIsDead`, `AuditMovesForward`
  (`SelectionComesFirst`, `AuditIsFinal`, `OutcomeIsRead`: a switch counts as done, and an
  attempt as failed, on what was read back only).
- RunMailbox: `DeliveryIsExclusive` (`OneCurrentDelivery`, `DeliveredOnce`),
  `MailIsKept` (`ReadWasHanded`: only heartbeats about a dispatch that is over are read
  unseen, and `NoMailLeftBehind`), `NoMissedWakeup`.

Each has a mutant in `PROJECT.json`: a changed definition that breaks it.

## Fairness

*Delegation.* `FairSpec` assumes that each awaited call ends, with its answer, an
error or the client's time-out (`timeoutMs` is passed to every runtime call), and
that the code after the await then runs: weak fairness of `SettleDispatch`, of
`ProveStop \/ DoubtStop`, and of `SettleStop \/ DoubtStop`, for each session. Nothing
is assumed of Orca's side of a call, of agents or of users. The liveness
properties hold for one session that does not crash; with a crash, or with another
client's save between the two saves of a flow, an attempt stays `prepared` or a
stop `requested`, and no code of the repository reconciles it.

*FederationRelay.* `LiveSpec` assumes weak fairness of `Syncing`, which stands for the
sync timer of one second and the handlers it calls, and of `Stop`, the rest of a
stop that was begun. Sends, faults and restarts get none; faults are finitely many.

*DecisionInbox.* `LiveSpec` assumes that the snapshot is loaded, that promises settle,
and that the poll (two seconds) runs while the snapshot is `ready`, as its effect
does. After a refused save the poll has stopped until the user reloads, and no
fairness is given to that.

Failover, SideEffectApproval and RunMailbox state safety only: a recovery, an
approval and a read of mail are all begun by a user or an agent who need not. That
a waiting check is woken is `NoMissedWakeup`, which is safety.

## Proofs

All theorems hold for every value of the constants. Of the assumptions on constants
only those a theorem cites are used.

| Module | Theorem | States |
|---|---|---|
| `WorkLedgerProofs` | `TypeCorrect` | `Spec => []TypeOK` |
| | `InvHolds` | `Spec => []Inv`, `Inv == TypeOK /\ Valid(ledger) /\ Lifecycle(ledger)` |
| | `AttemptsFollowAssignments` | `Spec => []AttemptFollowsAssignment` |
| | `SingleAuthority` | `Spec => []OneAuthorityPerTask` |
| | `ApprovalComesFirst` | `Spec => []NoUnapprovedAttempt` |
| | `SafetyHolds` | `Spec => []SafeInv`, `SafeInv` adds `Progress`, `Order` and `Capacity` to `Inv` |
| | `RecordsStayFinal` | `Spec => RecordsAreFinal` |
| | `CompletionSound` | `Spec => []CompletionIsSound` |
| | `SettlementNeverRefused` | `Spec => []SettlementIsNeverRefused` |
| | `AssignmentsSound` | `Spec => []AssignmentsAreSound` |
| `OrcaRuntimeProofs` | `RuntimeTypeCorrect` | `RuntimeSpec => []RuntimeTypeOK` |
| | `HoldingsAlwaysAgree` | `RuntimeSpec => []HoldingsAgree` |
| | `NoTaskIsStranded` | `RuntimeSpec => []NoStrandedTask` |
| | `SettledContextsAreFinal` | `RuntimeSpec => SettledContextIsFinal` |
| `SideEffectApprovalProofs` | `ApprovalTypeCorrect` | `Spec => []ApprovalTypeOK` |
| | `OneRequestIsOpen` | `Spec => []OneOpenRequest` |
| | `PermitsAreOwn` | `Spec => []OwnPermit` |
| | `DenialsAreFinal` | `Spec => DenialIsFinal` |
| | `PermissionIsImplemented` | `Spec => ImplementsPermission` |
| | `PermissionsServeOnce` | of OneUsePermission: `PermissionSpec => []OneUse` |
| | `NoRunBeyondGrants` | `Spec => []RunsWithinGrants` |
| `RunMailboxProofs` | `DeliveriesAreExclusive` | `Spec => []DeliveryIsExclusive` |
| | `NoMailIsLost` | `Spec => []MailIsKept` |
| | `NoWakeupIsMissed` | `Spec => []NoMissedWakeup` |
| | `MailboxTypeCorrect` | `Spec => []MailboxTypeOK` |
| `DelegationProofs` | `DelegationTypeCorrect` | `Spec => []DelegationTypeOK` |
| | `RecordsAlwaysMatchEffects` | `Spec => []RecordsMatchEffects` |
| | `StopsAreProven` | `Spec => []StopWasProven` |
| | `DelegationImplementsLedger` | `Spec => ImplementsLedger` |
| | `SharedLedgerIsSound` | the properties of WorkLedger, of the shared ledger |
| `FederationRelayProofs` | `RelayTypeCorrect` | `Spec => []RelayTypeOK` |
| | `NothingIsEverForgotten` | `Spec => []NothingIsForgotten` |
| | `VerdictsAlwaysAgree` | `Spec => []VerdictsAgree` |
| | `ChannelWithoutOverflow` | `Spec /\ [](~Full) => ImplementsChannel` |
| | `ChannelBelowQuota` | `MaxSends < Quota` gives `Spec => ImplementsChannel` |
| | `DecisionsAreFinal` | `Spec => DecisionIsFinal` |
| | `InOrderWithoutOverflow` | `Spec /\ [](~Full) => []ArrivesInOrder` |
| | `InOrderBelowQuota` | `MaxSends < Quota` gives `Spec => []ArrivesInOrder` |
| | `ReportsAreDeliverable` | without resets, `Spec /\ [](~Full) => []AcceptedReportIsDeliverable` |
| `FailoverProofs` | `FailoverTypeCorrect` | `Spec => []FailoverTypeOK` |
| | `OneWriterHolds` | `Spec => []OneWriter` |
| | `SuccessIsAlwaysBound` | `Spec => []SuccessIsBound` |
| | `StoppedMeansDead` | `Spec => []StoppedIsDead` |
| | `AuditOnlyAdvances` | `Spec => AuditMovesForward` |
| `DecisionInboxProofs` | `InboxTypeCorrect` | `Spec => []DecisionInboxTypeOK` |
| | `AnswersAreGivenOnce` | `Spec => []OneAnswer` |
| | `ResolvedMeansAnswered` | `Spec => []ResolvedWasAnswered` |
| | `EntriesMoveForward` | `Spec => DecisionsMoveForward` |

*The ledger.* `OneAuthorityPerTask` is not inductive: the schema keeps the active
assignment of a task unique, but says nothing of how many attempts an assignment
has in flight. `Lifecycle` adds that: no attempt without an assignment, each live
attempt in the state of its assignment, at most one live attempt per assignment,
none before approval. `Lifecycle` in turn needs the schema's rules: evidence only
with a succeeded attempt, a pending stop only with a running one, so that an
operation on one attempt leaves the other conjuncts alone. `Valid` is kept because
each step ends in `Advance`, which is the parse of the next ledger. The
proof has one lemma for the fields each operation writes, one for the type it
keeps, and one for the lifecycle; operations that settle or move an attempt share
`AdvanceAttempt`. `SingleAuthority` follows from `Inv`: two attempts in flight for
one task belong to active assignments of that task, which `Valid` makes one, which
by `Lifecycle` has one live attempt. None of the assumptions on the constants is
needed.

The other properties of the ledger relate tasks, attempts and assignments, and none
is inductive. `Progress` says that the task of an approved assignment is ready, that
of a running attempt running, of one under review in review, and of an accepted one
completed, with a completed assignment; that a task has one accepted attempt at most;
that a dispatched assignment has its attempt. It is why nothing is under way when all
tasks are completed, and why accepting evidence of one task leaves the others alone.
`Order` says that ids are used without gaps and that an active assignment, or a
stopped one that waits for its successor, is the last of its task: so the successor
of a reassigned one is its next and a task is never taken twice from the same stop.
`Capacity` is inductive by itself once a step is known to free or to take one place.
The operations fall into three kinds, whose common effect is proved to keep
everything once: those that move one attempt (`Moved`, `Coherent`), those that add an
assignment (`Added`), and the decision of a gate (`Decided`). For the first kind
`MovedValid` shows the schema's rules to follow, which is `SettlementNeverRefused`:
there the parse is a check that never fails, while a report or an evidence
during a pending stop is refused, which `RecordsStayFinal` rests on. The proofs use
`PlanAssumption` and `LimitAssumption`; that the plan has no cycle is not needed.

*Orca's database.* `RuntimeInv` splits `HoldingsAgree` into what each transaction
disturbs apart: a context that was ever used is about a task of the run (`Used`), the
task of a live context is dispatched (`Owned`), two live contexts differ in task and
terminal (`Sole`), and a dispatched task has a live context (`Held`). Failing or
releasing one context then leaves no second holder whose task is no longer
dispatched. `NoStrandedTask` is inductive given the type, because each transaction
that completes a task promotes what became ready in the same step.

*Approvals.* `ImplementsPermission` needs that the permit a call carries was granted
for its input, was consumed once, and is in nobody else's hands: `ApprovalInv` adds to
the type that births number the requests (`Numbered`), that at most one request of an
input can still be answered or used (`OneOpenRequest`), that an approved request is
in no call's hands (`Unspent`), that the permit of a call is its own (`OwnPermit`), and that
a call without an answer has none (`Unanswered`). That the limit drops requests, and
that ids are then given again, is harmless because what a call carries is its
consumption, not the id. Every step then maps to `Grant`, to `Run` or to a stutter.
What the abstract specification promises is proved of it alone (`OneUse`: a run has a
permission that was granted, and no two runs share one) and holds of the system
because it implements it. `RunsWithinGrants` is then a matter of counting: the
permission of each run of an input is an injection into the grants of that input,
which are finitely many (`GrantsCountable`).

*The mailbox.* `MailboxInv` says of the tables that a message is there once, that
Deliveries bear the numbers given out, that the outstanding one is of the current
generation (`CurrentOK`), that acknowledged messages are read (`BatchOK`), that two
Deliveries which were not fenced share no message (`DisjointOK`), that whoever was
told of a Delivery was handed its messages, and that what is read was handed over or is a
heartbeat about a dispatch that is over (`HandedOK`), and that unread mail of a
coordinator is in the mailbox (`HomeOK`); and of the checks that one acknowledges only
what some agent was told (`CallsOK`), which closes the circle. Mail is marked read by an
acknowledgment and by a reply, which come after an answer, and by the reconciliation of a
worker's message, which marks heartbeats about its own dispatch once that is over; and
no dispatch runs again (`Ending`), so what was rightly hidden stays so. The tables are parameters of these conjuncts, so that
`Check`, which routes, acknowledges and reads in one step, is proved piece by piece.

`NoMissedWakeup` needs to know where mail may be, because routing moves it into the
mailbox without waking anybody. `WakeInv` adds that mail is addressed to handles that
exist (`Addressed`), so that a new handle has none, and that nothing unread is at the
handle the coordinator's pane has at the moment, even while the Run still records the
former one (`Drained`): a check that routes that mail has none to route, and the
binding of another coordinator, which does route, cancels whoever waits. What waits
found nothing it had asked for, and every insertion of unread mail notifies it
(`Listening`); marking only takes away from what it could find (`NoMoreWanted`). A batch
is the first page of the unread mail, so it is neither empty nor larger than a page
(`BatchIsPage`), which the type `MailboxTypeOK` says.

*Delegation.* The sessions share the ledger of WorkLedger and the tables of
OrcaRuntime, so `DelegationProofs` instantiates the proof modules of both (`W`, on the
stored ledger, and `O`, with attempts for contexts) and shows, in bridging lemmas,
that the instances define what Delegation uses. `DelegationInv` is `W!SafeInv`,
`O!RuntimeInv` and what ties the two and the sessions together: a copy of the stored
revision is the stored ledger, and a session with a call under way finds its attempt
on record as it left it (`SessionsAgree`); two sessions never call about one attempt
(`TargetsDiffer`); a call is about an attempt on record, and what was claimed or is on
record as run has a context of its own task and worker (`CallsAgree`). A save is
accepted only on the stored revision, hence on the stored ledger itself, where the
session's operation is one of WorkLedger's: that is `DelegationImplementsLedger`, and
all theorems about WorkLedger's properties carry over (`SharedLedgerIsSound`). A save of one
session disturbs no other's call because each operation leaves alone the attempts that
are not its target, as far as `Recorded` and `Claimed` speak of them
(one lemma per operation). Settled contexts are final in the runtime, so a proven
stop stays proven.

*The relay.* `RelayInv` orders the cursors of the two sides (`CursorsOrdered`), says
that an answered receipt was acted on (`ReceiptsServed`), that the page in flight is what
the queue held, but for heartbeats that a report took the place of (`PageIsQueued`),
that only what was imported is acknowledged (`ImportsPrecedeAck`), and that the verdicts
about to be sent hold of the dispatch (`SettlementsHold`); with these
`AckedReportIsDecided` and `VerdictsAgree` are inductive. `Imports` decides a page item
by item in a recursive function. What it does is shown by induction on the position in
the page, as a set of naturals with a least element outside it (`LeastNat`, from the
library's `WFMin`), since the library's induction rule takes an operator as parameter.
`ImplementsChannel` does not hold of a full outbox: there a report takes the sequence of
a heartbeat that home may have imported (finding 11). The theorems say so in their
hypotheses: no state is `Full`, or fewer reports can be sent than the quota holds,
as in `relay_live`. Then the page is exactly what the queue holds (`PageIsExact`), ids
rise along it, and the inbox has nothing that was not imported (`Arrived`), so an import
is a sequence of deliveries the abstract channel makes in one step.

That the inbox is in order needs more than the channel, since a reset of the messages
may empty it and leave the cursor. `InboxInv` says that the inbox is the last part of
what was imported (`Contiguous`), which an import extends, a replay leaves alone
(`Filed`) and a reset empties; and that it is all of it when there are no resets
(`NothingCleared`). That ids rise along the queue (`ChannelInv`) makes this the order of
sending, and the second part is why a report home takes for imported is in the
inbox: findings 11 and 13, where it is not, need exactly the overflow and the reset
that `ReportsAreDeliverable` excludes. `DecisionsAreFinal` goes through the steps:
a verdict other than "rejected" is only reached from an undecided dispatch, and a
stop settles only what no report settled.

*Failover.* A recovery works on copies of two files, made at the click, and several may
be under way. The argument is that a selection can be saved only on the latest
copy of an open audit. From then on that recovery is the driver (`SoleDriver`): the
pending attempt is its own, nobody else is eligible and nobody else's save fits, until
it settled the attempt or was reloaded. `FailoverInv` is `O!RuntimeInv` of the one task,
the type, and for each recovery what its copies are worth (`Copied`), why it was
eligible (`Eligibly`) and what the driver did so far, phase by phase (`Driven`: the
account is asked for once; the first context is stopped before the terminal is closed;
no agent is alive when one is launched; the binding is saved before the success). A
dispatch bound to a replacement is open to no further recovery (`BoundOnce`), an open
audit has only failed attempts but for the selected one (`AuditOpen`), and whoever was
asked for is on it (`AskedIsTried`). The steps are of three kinds: those that leave all
this alone (`CalmStep`), an effect of the driver that goes on to its next phase or
fails (`EffectGoesOn`, `EffectFails`), and the few that need their own argument: the
selection, the switch, the settlement, the launch, the dispatch, the save of the work
ledger, and the restart. `OneWriter`, `StoppedIsDead` and `SuccessIsBound` then follow,
and `AuditOnlyAdvances` because a save of the audit is the driver's: it saves "failed"
only from the phase it entered with the account it had read, when that was not the
one asked for (`ReadBackReads`, `FailureIsRead`), and neither a reload nor a restart
enters that phase. The user's stop is
the hard neighbour. Both close a terminal, and only a kill of a living agent is taken as
proof; one agent lives at most (`OneAlive`), so whichever of the two kills it leaves
nobody for the other to kill: a stop that is recorded as complete saw the last agent
die (`CancelledIsDead`), and a recovery launches only after a kill of its own.

*The inbox.* Three kinds of writer save whole snapshots made from copies, and a save
fits only if nobody wrote since. `InboxInv` says for each promise of the page what its
snapshot is compared with the file, if it is still fresh: a merge of rows that were
read (`MergeReady`), or the file with the entry of its own request begun, resolved or
uncertain (`PrepareReady`, `CallReady`, `CompleteReady`, `SettleReady`). All a writer can
do is then one of a few changes of entries (`Changes`), followed by the cut or adding
nothing (`Advances`), and `EntriesMoveForward` follows. An answer is sent only after
`resolving` was saved over `pending`; from then on it is on record (`OnRecord`), which no
writer undoes, so no second promise gets that far (`CallersDiffer`) and `AnswersAreGivenOnce`
follows. The limit is the difficulty: an entry that was answered can be dropped and its
row discovered again. `CutIsOutside` shows that a request outside the limit stays
outside in what the cut leaves, and so in every later snapshot: among the requests
outside that are no older, the one with the fewest newer ones has `Limit` of them, and none
of these is dropped. That needs the counts of finite sets, and a least element among
them (`LeastNat`).

The assumptions on constants the last ones rest on are those of their modules: the
plan's and the limits' (`PlanAssumption`, `AcyclicAssumption`, `LimitAssumption`), that
the null id is no id and the breaker's limit is positive (`SessionAssumption`,
`FailoverAssumption`), and for the relay that bounds are naturals and pages are not
empty (`BoundsAssumption`). Those of the mailbox use that its bounds are naturals, pages are not
empty, there is a first generation, and the Run's address is nobody's handle
(`MailboxAssumption`). `InboxAssumption` says that a company has finitely many requests,
each of one kind, and that the limit is positive.

*Model-checked only.* Every invariant and action property the runs check is proved.
Liveness under fairness is out of the prover's reach and stays with TLC
(`EffectsAreSettled`, `ReportIsDecided`, `VerdictReachesWorker`,
`GateAnswerIsNoticed`). `ImplementsChannel` and `ArrivesInOrder` are proved for a queue
that does not overflow; of one that does both are false, for the reason of
finding 11.

## Findings

Each is a property that TLC finds violated by what the code does, the first two in
the runs of those names, whose lines `PROJECT.json` quotes, and the others in a configuration kept
beside them.

1. `stale_report` (`ReportOfItsAttempt`): the sync applies a task's report to
   whichever attempt of the task is running; which context made it is not compared.
2. `relay_lost_ack` (`LostAckIsRetried`): the request id of an acknowledgment names
   the dispatch and the cursor only. When its answer is lost, the retry has the same
   id without the settlements and is refused as another request, in every later sync.
3. `MCRetry.cfg` (`RetryAfterReconciliation`): a dispatch call that times out fails
   the attempt in the ledger, and the assignment may be dispatched again while the
   first context is live or about to be claimed. The architecture document says an
   ambiguous effect blocks retries until reconciled.
4. `MCHiddenReport.cfg` (`ReportStaysVisible`): re-materialisation pushes `blocked`
   onto a task whose report has arrived and was not synced; the sync, which looks at
   completed and failed tasks only, then no longer finds the report. It needs a
   second task that is ready and was never tried, which is what makes the automation
   re-materialise.
5. `MCReassigned.cfg` (`ReassignedCanStart`): the stop leaves the Orca task
   `blocked`, the reassignment action dispatches without pushing a status, and Orca
   refuses.
6. `MCAutoReview.cfg` (`OnlyReviewAccepts`): a report can be accepted by policy in the
   revision that submits it, while the architecture document reserves acceptance for
   the user.
7. `MCSilentResolving.cfg` (`NoSilentResolving`): a tool approval written between the
   two saves of an answer makes both later saves stale, and the request stays
   `resolving` in the running process.
8. `MCInterrupted.cfg` (`InFlightIsNotInterrupted`): the controller's first write in a
   process recovers, as interrupted, an answer that the page is still working on.
9. `MCExpiry.cfg` (`ExpiryBlocks`): an approved request is consumed after its expiry.
10. `MCReplay.cfg` (`ReplayCreatesRequest`): once the limit has dropped the first
    request for an input, the next one would have the id of one still present, and the
    action is blocked without a request.
11. `MCRelayQuota.cfg` (`AcceptedReportIsDeliverable`): with a full queue a report
    takes the sequence of an unacknowledged heartbeat, which home may have imported
    already.
12. `MCRelayStop.cfg` (`RemoteReportPending`): a sync inside a stop imports the report
    as rejected; the stop then leaves the dispatch waiting for a report that will not
    come.
13. `MCRelayReset.cfg` (`RelaySurvivesReset`): after a reset of the messages an item
    that is pulled again (its acknowledgment was lost) has no message, which ends every
    later sync before anything new is imported.
14. `MCFailoverStop.cfg` (`RecoveryIsSaved`): the eligibility of a recovery does not
    look at the dispatch's stop (`provider-failover-execution.ts:86`), so a dispatch
    whose stop is requested or in doubt can be recovered, but its final save is
    always refused (`work-ledger-stop-validation.ts:29`), although
    `BARKOS_ARCHITECTURE.md:456-457` says that the recovery "injects a new Dispatch,
    and persists its identifier in the existing BarkOS Dispatch".
15. `MCExitedTask.cfg` (`ExitedTaskIsPending`): the comment on
    `failActiveDispatchOnExit` (`orca-runtime.ts:16753`) says that when an agent exits
    "the task is set back to 'pending' so it can be re-dispatched"; `failDispatch`, which
    it calls, makes the task `ready` (`dispatch-completion.ts:130`: "'pending' would strand
    it"). The code is the one that is right: `NoStrandedTask` holds because of it, and
    its mutant in `runtime` does what the comment says.

Two more facts met while modelling, which no configuration isolates: a refresh of
the capacity page during a recovery makes its `succeeded` and its `uncertain` saves
refused, so the audit stays open until the next start of the process, where the
document (`:457-458`) has any failure after a possible effect freeze it as uncertain;
and a save of the work ledger by another flow during the launch makes the final
save of the recovery refused.

## Abstractions

- Texts, hashes, prompts, memory receipts, host and run identifiers and timestamps
  are left out. Assignment ids stand for `assignedAt`: a clock set back is not modelled.
- Schema values no code writes are left out (`draft` plans, `assigned` status,
  `expired` gates, ...). Orca's `failed` merges `circuit_broken`; `stopped` is a failed
  context whose last failure is `stopped`. Contexts made for BarkOS have no
  supervised-worker record, so those branches are absent.
- Which eligible worker is preferred, which task the automation picks, and whether
  policy accepts a report of an auto-reviewable task are left open: the model has
  every choice the code could make.
- Reading the receipt of a stop and saving what it proves is one step: a settled
  context is final (`SettledContextIsFinal`), so nothing can come between.
- The plan is materialised from the start. A re-materialisation is begun only when
  the automation would (`Recoverable`); the button that prepares a plan by hand is
  hidden once the plan is bound.
- A worker has one terminal for good (except in Failover); `terminal.close` is the
  exit of its agent. One objective and one company: objectives share only the limits.
- DecisionInbox: a copy carries `fresh` for its revision, since a save is accepted iff
  nothing was written since the copy was read. Rows that are malformed are skipped in
  the code and absent here.
- SideEffectApproval: a call is one that the classification holds; an identity that
  does not match is a blocked call.
- FederationRelay: one dispatch; questions and answers travel as messages without
  effect on it; the worker has been started.
- Failover: only one window uses the capacity ledger, and a save between two awaits of
  the page is atomic; the page's copy of the work ledger is that of the click; the
  transfer of a conversation is part of the launch. A dispatch call that times out has
  claimed its context by then or never does.
- Failover, the account service: the selections it can return with are the account
  asked for and the system's login (`clearSelfContainedManagedSelection`); no code path
  of `doSelectAccount` returns with a third account, though another flow may select one
  before the account is read (`UserSelects`).
- RunMailbox: who is rejected, and why, is left open: any heartbeat or report may be, and
  then stays unread mail. Escalations and decision gates that are rejected become status
  messages, which is what `Send` sends. A message to a group is a `Send` for each member.
  A check under a former handle of the pane is not modelled (it can route
  direct mail without a notification, and leave another check waiting), nor are checks
  of terminals that coordinate no Run, Runs adopted from the first version of the
  database, and the pointers written into terminals. Mail to a handle whose terminal is
  gone and that never coordinated the Run stays where it is in the model; the code may
  route it by the handle's last pane, and then notifies the mailbox
  (`mailbox-notification-coordinator.ts:105-118`, `resolveDetachedMailbox`).

## Not modelled

- *Mailboxes of dispatched workers.* They mark mail read before the answer arrives, so
  that a lost answer loses it (compare `skill-guides/orchestration.md:139` for
  coordinators); the properties of RunMailbox are about the Run's own mailbox.
- *Supervised worker records, abandoned contexts, decision gates that block an Orca
  task, Orca's autonomous coordinator*: BarkOS's own runs do not use them.
- *Worker sessions*, *the control policy's own store* and *plan creation* are on the plan.
- *Memory vault, company and staffing, usage cost, timeline and live office*:
  configuration and read-only projections, no step of delegation depends on them.
- *Terminal daemon and relay, windows, views, editors, git and issue trackers, CLI and
  mobile clients*: below or above the calls the models start and end at. They are most
  of the repository's lines, and their behaviour is I/O or user interface.

The notes of `PROJECT.json` under `components` say what is left out of each part.

## Plan

Done: the ledger, its sessions and Orca's database; the decision inbox, approvals,
relay, failover and mailbox; the theorems above. To come, the most important first:

1. **PlanMaterialization**: run and task creation with a save after each, a
   lost answer, retries by two sessions. Abstract specification: a map from BarkOS
   tasks to Orca tasks that only grows and is injective.
2. **ControlPolicy**: pause and edits between check and use; **WorkerSessions**:
   terminals that change hands, so that `terminal.close` and agent exits hit the
   wrong dispatch.
3. **DecisionGates** of Orca that block a task, and supervised worker records, in
   OrcaRuntime; the dispatch mailboxes in RunMailbox.
4. **AssignmentSelection**: the ranking as a pure function against a reference
   definition.

Theorems: the invariants of the modules above as they are written, and their
refinements where an abstract specification is named.
