----------------------------- MODULE DecisionInbox -----------------------------
(***************************************************************************)
(* The decision inbox: one durable snapshot per company, written by the     *)
(* renderer (discovery and the user's answers) and by the main process      *)
(* (tool side-effect approvals), each through a store object of its own.    *)
(*                                                                         *)
(* A snapshot is saved only if its revision follows the stored one, which   *)
(* holds exactly when nothing was written since the copy it was made from   *)
(* was read.  So a copy carries "fresh" in the place of its revision, and   *)
(* every write makes the other copies stale.                                *)
(***************************************************************************)
EXTENDS Integers, FiniteSets

CONSTANTS
  Gates,        \* decision gates of the current run
  Questions,    \* questions asked through a dispatch's question thread
  Messages,     \* escalations and decision_gate messages
  SideEffects,  \* approval requests for a tool's side effect
  CreatedAt,    \* the creation time of each request
  Limit,        \* BARKOS_MAX_DECISION_REQUESTS
  Answers,      \* what the user or another reader can answer
  Hooks,        \* mounts of the Company page, one after the other
  None,
  MaxFaults     \* bound on lost calls, failed writes, remounts and restarts

Discovered == Gates \cup Questions \cup Messages
Requests == Discovered \cup SideEffects

\* A request is of one kind.
ASSUME InboxAssumption ==
  /\ IsFiniteSet(Requests)
  /\ Questions \cap (Gates \cup Messages) = {}
  /\ SideEffects \cap Discovered = {}
  /\ CreatedAt \in [Requests -> Nat]
  /\ Limit \in Nat \ {0}
  /\ None \notin Requests \cup Answers \cup Hooks
  /\ {"approved", "rejected"} \cap Answers = {}
  /\ MaxFaults \in Nat

VARIABLES
  stored,      \* the requests of the stored snapshot
  recovered,   \* the store objects that recovered interrupted answers
  view,        \* the renderer's copy: requests, fresh, load state
  hooks,       \* the promise each mount of the page has under way
  mounted,     \* the mount whose buttons and timer are live
  source,      \* the gates, questions and messages in the runtime
  emitted,     \* how often the inbox sent an answer to each request
  faults

vars == <<stored, recovered, view, hooks, mounted, source, emitted, faults>>

\* The renderer's IPC handler and the approval controller each make a store.
Stores == {"renderer", "controller"}

\* "consumed" is a resolved approval whose consumedAt is set.  The contract asks
\* for an answer from the time one is under way.
Entry ==
  [status : {"absent", "pending", "expired"}, answer : {None}]
    \cup [status : {"resolving", "resolved", "uncertain", "consumed"},
          answer : Answers \cup {"approved", "rejected"}]

Absent == [status |-> "absent", answer |-> None]
Pending == [status |-> "pending", answer |-> None]

Present(inbox) == {r \in Requests : inbox[r].status # "absent"}

\* The snapshot keeps the newest requests.
Cut(inbox) ==
  [r \in Requests |->
     IF Cardinality({q \in Present(inbox) : CreatedAt[q] > CreatedAt[r]}) >= Limit
     THEN Absent ELSE inbox[r]]

\* What the runtime says of a gate, question or message.
Row == [status : {"none", "pending", "answered", "closed"}, answer : Answers \cup {None}]
NoRow == [status |-> "none", answer |-> None]

InFlight == {"prepare", "call", "complete", "settle"}
Idle ==
  [pc |-> "idle", request |-> None, answer |-> None, rows |-> [r \in Discovered |-> NoRow],
   next |-> [r \in Requests |-> Absent], fresh |-> FALSE]

\* A promise remembers the rows it read and the snapshot it will save next.
HookState ==
  [pc      : {"idle", "discover", "merge"} \cup InFlight,
   request : Discovered \cup {None},
   answer  : Answers \cup {None},
   rows    : [Discovered -> Row],
   next    : [Requests -> Entry],
   fresh   : BOOLEAN]

Init ==
  /\ stored = [r \in Requests |-> Absent]
  /\ recovered = {}
  /\ view = [requests |-> stored, fresh |-> FALSE, load |-> "idle"]
  /\ hooks = [h \in Hooks |-> Idle]
  /\ mounted \in Hooks
  /\ source = [r \in Discovered |-> NoRow]
  /\ emitted = [r \in Discovered |-> 0]
  /\ faults = 0

-----------------------------------------------------------------------------
(* The store. *)

\* recoverInterruptedBarkosDecisionResolutions.
Recover(inbox) ==
  [r \in Requests |->
     IF inbox[r].status = "resolving" THEN [inbox[r] EXCEPT !.status = "uncertain"] ELSE inbox[r]]

\* What load() of a store object returns, and leaves in the file.
Loaded(s) == IF s \in recovered THEN stored ELSE Recover(stored)

\* A write makes every copy but the writer's stale.
StaleHooks == [h \in Hooks |-> [hooks[h] EXCEPT !.fresh = FALSE]]

\* save of the snapshot a hook holds.  Defect: the revision is not compared
\* with the stored one.
SaveUnchecked(h, ok) ==
  /\ ok
  /\ stored' = hooks[h].next
  /\ view' = [requests |-> hooks[h].next, fresh |-> TRUE, load |-> "ready"]

Saves(h, ok) == ok /\ hooks[h].fresh

Save(h, ok) ==
  /\ Saves(h, ok)
  /\ stored' = hooks[h].next
  /\ view' = [requests |-> hooks[h].next, fresh |-> TRUE, load |-> "ready"]

\* A stale revision, or a write that fails on its own.
SaveRefused(h, ok) ==
  /\ ~Saves(h, ok)
  /\ view' = [view EXCEPT !.load = "error"]
  /\ UNCHANGED stored

Others(h, ok) == IF Saves(h, ok) THEN StaleHooks ELSE hooks

Fault(ok) == IF ok THEN UNCHANGED faults ELSE faults < MaxFaults /\ faults' = faults + 1

-----------------------------------------------------------------------------
(* Discovery. *)

\* load() for the renderer: an interrupted answer is recovered and written back.
ReadStore ==
  /\ stored' = Loaded("renderer")
  /\ recovered' = recovered \cup {"renderer"}
  /\ view' = [requests |-> Loaded("renderer"), fresh |-> TRUE, load |-> "ready"]

\* The page loads the snapshot when it opens.
Load ==
  /\ view.load = "idle"
  /\ ReadStore
  /\ hooks' = IF stored' = stored THEN hooks ELSE StaleHooks
  /\ UNCHANGED <<mounted, source, emitted, faults>>

\* refresh after an error loads the snapshot again and does no more.
Reload(h) ==
  /\ mounted = h
  /\ hooks[h].pc = "idle"
  /\ view.load = "error"
  /\ ReadStore
  /\ hooks' = IF stored' = stored THEN hooks ELSE StaleHooks
  /\ UNCHANGED <<mounted, source, emitted, faults>>

\* refresh, by the poll or the user: synchronise, then ask the runtime.
Refresh(h) ==
  /\ mounted = h
  /\ hooks[h].pc = "idle"
  /\ view.load = "ready"
  /\ ReadStore
  /\ LET others == IF stored' = stored THEN hooks ELSE StaleHooks
     IN hooks' = [others EXCEPT ![h].pc = "discover", ![h].rows = source]
  /\ UNCHANGED <<mounted, source, emitted, faults>>

\* A request whose answer is under way is not touched by what was discovered.
Mergeable(rows, inbox) ==
  {r \in Discovered : rows[r].status # "none" /\ inbox[r].status \notin {"resolving", "uncertain"}}

\* Only a gate's row says that it was answered; a message row never does.
Observed(rows, r) ==
  IF r \in Gates /\ rows[r].status = "answered"
  THEN [status |-> "resolved", answer |-> rows[r].answer]
  ELSE Pending

\* Known requests take over the answer that the runtime knows of.
Merge(rows, inbox) ==
  Cut([r \in Requests |->
        IF r \in Mergeable(rows, inbox) /\ (inbox[r].status = "absent" \/ Observed(rows, r) # Pending)
        THEN Observed(rows, r)
        ELSE inbox[r]])

\* The rows that were read are merged into the copy the renderer has by then.
\* Any request merged moves its lastSeenAt, so there is a change to save.
Discover(h) ==
  /\ hooks[h].pc = "discover"
  /\ IF Mergeable(hooks[h].rows, view.requests) = {}
     THEN /\ hooks' = [hooks EXCEPT ![h] = Idle]
          /\ UNCHANGED view
     ELSE /\ hooks' = [hooks EXCEPT ![h] = [Idle EXCEPT !.pc = "merge", !.fresh = view.fresh,
                                              !.next = Merge(hooks[h].rows, view.requests)]]
          /\ view' = [view EXCEPT !.load = "saving"]
  /\ UNCHANGED <<stored, recovered, mounted, source, emitted, faults>>

\* The runtime does not answer.
DiscoverFails(h) ==
  /\ hooks[h].pc = "discover"
  /\ Fault(FALSE)
  /\ hooks' = [hooks EXCEPT ![h] = Idle]
  /\ UNCHANGED <<stored, recovered, view, mounted, source, emitted>>

SaveMerged(h, ok) ==
  /\ hooks[h].pc = "merge"
  /\ Save(h, ok) \/ SaveRefused(h, ok)
  /\ hooks' = [Others(h, ok) EXCEPT ![h] = Idle]
  /\ Fault(ok)
  /\ UNCHANGED <<recovered, mounted, source, emitted>>

-----------------------------------------------------------------------------
(* The user's answer: resolve(). *)

\* beginBarkosDecisionResolution.  Defects: the answer is not recorded; a request
\* whose answer is uncertain is accepted.
BegunUnrecorded(inbox, r, a) == [inbox EXCEPT ![r] = [status |-> "resolving", answer |-> None]]
Begun(inbox, r, a) == [inbox EXCEPT ![r] = [status |-> "resolving", answer |-> a]]
CanBeginAgain(inbox, r) == inbox[r].status \in {"pending", "uncertain"}
CanBegin(inbox, r) == inbox[r].status = "pending"

BeginResolve(h, r, a) ==
  /\ mounted = h
  /\ hooks[h].pc = "idle"
  /\ view.load # "idle"
  /\ CanBegin(view.requests, r)
  /\ hooks' = [hooks EXCEPT ![h] = [Idle EXCEPT !.pc = "prepare", !.request = r, !.answer = a,
                                      !.fresh = view.fresh, !.next = Begun(view.requests, r, a)]]
  /\ view' = [view EXCEPT !.load = "saving"]
  /\ UNCHANGED <<stored, recovered, mounted, source, emitted, faults>>

\* What follows a save that succeeds and one that fails.
AfterPrepare(h, ok) ==
  IF Saves(h, ok) THEN [hooks[h] EXCEPT !.pc = "call", !.fresh = TRUE] ELSE Idle

SavePrepared(h, ok) ==
  /\ hooks[h].pc = "prepare"
  /\ Save(h, ok) \/ SaveRefused(h, ok)
  /\ hooks' = [Others(h, ok) EXCEPT ![h] = AfterPrepare(h, ok)]
  /\ Fault(ok)
  /\ UNCHANGED <<recovered, mounted, source, emitted>>

\* gateResolve overwrites whatever the gate holds; reply answers a question once
\* and adds a message to any other thread.
Accepts(r, a) ==
  \/ r \in Gates \cup Messages
  \/ source[r].status = "pending"
  \/ source[r] = [status |-> "answered", answer |-> a]

Answered(r, a) == [source EXCEPT ![r] = [status |-> "answered", answer |-> a]]

Completed(inbox, r) == [inbox EXCEPT ![r].status = "resolved"]
Uncertain(inbox, r) == [inbox EXCEPT ![r].status = "uncertain"]

Proceed(h, next) ==
  hooks' = [hooks EXCEPT ![h].pc = next,
              ![h].next = IF next = "complete" THEN Completed(@, hooks[h].request)
                                               ELSE Uncertain(@, hooks[h].request)]

\* One call to the runtime.  Its answer may be lost after it took effect.
Call(h) ==
  /\ hooks[h].pc = "call"
  /\ LET r == hooks[h].request
         a == hooks[h].answer
     IN \/ /\ Accepts(r, a)
           /\ source' = Answered(r, a)
           /\ emitted' = [emitted EXCEPT ![r] = @ + 1]
           /\ \E next \in {"complete", "settle"} : Fault(next = "complete") /\ Proceed(h, next)
        \/ /\ ~Accepts(r, a)
           /\ Proceed(h, "settle")
           /\ UNCHANGED <<source, emitted, faults>>
        \/ /\ Fault(FALSE)
           /\ Proceed(h, "settle")
           /\ UNCHANGED <<source, emitted>>
  /\ view' = [view EXCEPT !.load = "saving"]
  /\ UNCHANGED <<stored, recovered, mounted>>

\* The receipt is recorded.  If that fails, the same prepared snapshot is marked
\* uncertain instead.  Defect: it is marked resolved in any case.
SaveCompleted(h, ok) ==
  /\ hooks[h].pc = "complete"
  /\ \/ /\ Save(h, ok)
        /\ hooks' = [StaleHooks EXCEPT ![h] = Idle]
     \/ /\ ~Saves(h, ok)
        /\ view' = [view EXCEPT !.load = "saving"]
        /\ Proceed(h, "settle")
        /\ UNCHANGED stored
  /\ Fault(ok)
  /\ UNCHANGED <<recovered, mounted, source, emitted>>

\* The last attempt: whatever comes of it, the promise is over.
SaveUncertain(h, ok) ==
  /\ hooks[h].pc = "settle"
  /\ Save(h, ok) \/ SaveRefused(h, ok)
  /\ hooks' = [Others(h, ok) EXCEPT ![h] = Idle]
  /\ Fault(ok)
  /\ UNCHANGED <<recovered, mounted, source, emitted>>

-----------------------------------------------------------------------------
(* Approvals of side effects: mutate() of the controller's own store. *)

\* append, resolve, consume and expire of side-effect-approval.ts.
SideEffectStep(before, after) ==
  \/ before = Absent /\ after = Pending
  \/ before = Pending /\ \E d \in {"approved", "rejected"} : after = [status |-> "resolved", answer |-> d]
  \/ before = Pending /\ after = [status |-> "expired", answer |-> None]
  \/ /\ before = [status |-> "resolved", answer |-> "approved"]
     /\ after = [before EXCEPT !.status = "consumed"]

\* Requests appear in the order of their creation.
InOrder(r) ==
  /\ \A q \in Discovered : CreatedAt[q] > CreatedAt[r] => source[q].status = "none"
  /\ \A q \in SideEffects : CreatedAt[q] > CreatedAt[r] => stored[q].status = "absent"

\* Only the user's decision is handed back to the renderer's copy.
Mutate(s, after) ==
  /\ SideEffectStep(Loaded("controller")[s], after)
  /\ stored[s] = Absent => InOrder(s)
  /\ stored' = Cut([Loaded("controller") EXCEPT ![s] = after])
  /\ recovered' = recovered \cup {"controller"}
  /\ hooks' = StaleHooks
  /\ UNCHANGED <<mounted, source, emitted, faults>>

ToolUse(s, after) ==
  /\ after.answer = None \/ after.status = "consumed"
  /\ Mutate(s, after)
  /\ view' = [view EXCEPT !.fresh = FALSE]

\* A call that finds nothing to change, or that throws, still loads.
ToolUseUnchanged ==
  /\ stored' = Loaded("controller")
  /\ recovered' = recovered \cup {"controller"}
  /\ hooks' = IF stored' = stored THEN hooks ELSE StaleHooks
  /\ view' = [view EXCEPT !.fresh = @ /\ stored' = stored]
  /\ UNCHANGED <<mounted, source, emitted, faults>>

DecideSideEffect(h, s, after) ==
  /\ mounted = h
  /\ hooks[h].pc = "idle"
  /\ view.load # "idle"
  /\ view.requests[s].status = "pending"
  /\ after.status = "resolved"
  /\ Mutate(s, after)
  /\ view' = [requests |-> stored', fresh |-> TRUE, load |-> "ready"]

-----------------------------------------------------------------------------
(* The runtime and the application. *)

Appear(r) ==
  /\ source[r].status = "none"
  /\ InOrder(r)
  /\ source' = [source EXCEPT ![r] = [status |-> "pending", answer |-> None]]
  /\ UNCHANGED <<stored, recovered, view, hooks, mounted, emitted, faults>>

\* A coordinator agent answers, a gate even again, or the question's dispatch
\* ends.
ForeignAnswer(r, a) ==
  /\ source[r].status = "pending" \/ (r \in Gates /\ source[r].status = "answered")
  /\ source' = Answered(r, a)
  /\ UNCHANGED <<stored, recovered, view, hooks, mounted, emitted, faults>>

QuestionCloses(r) ==
  /\ source[r].status = "pending"
  /\ source' = [source EXCEPT ![r].status = "closed"]
  /\ UNCHANGED <<stored, recovered, view, hooks, mounted, emitted, faults>>

\* The page is left and opened again; what the old mount awaits goes on.
Remount ==
  /\ Fault(FALSE)
  /\ \E h \in Hooks \ {mounted} : hooks[h].pc = "idle" /\ mounted' = h
  /\ UNCHANGED <<stored, recovered, view, hooks, source, emitted>>

\* The process ends at any point and starts again.
Restart ==
  /\ Fault(FALSE)
  /\ recovered' = {}
  /\ view' = [requests |-> [r \in Requests |-> Absent], fresh |-> FALSE, load |-> "idle"]
  /\ hooks' = [h \in Hooks |-> Idle]
  /\ UNCHANGED <<stored, mounted, source, emitted>>

HookStep(h) ==
  \/ Discover(h)
  \/ DiscoverFails(h)
  \/ Call(h)
  \/ \E ok \in BOOLEAN :
       SaveMerged(h, ok) \/ SavePrepared(h, ok) \/ SaveCompleted(h, ok) \/ SaveUncertain(h, ok)

Next ==
  \/ Load
  \/ \E h \in Hooks :
       \/ Reload(h) \/ Refresh(h) \/ HookStep(h)
       \/ \E r \in Discovered, a \in Answers : BeginResolve(h, r, a)
       \/ \E s \in SideEffects, after \in Entry : DecideSideEffect(h, s, after)
  \/ \E s \in SideEffects, after \in Entry : ToolUse(s, after)
  \/ ToolUseUnchanged
  \/ \E r \in Discovered : Appear(r) \/ \E a \in Answers : ForeignAnswer(r, a)
  \/ \E r \in Questions : QuestionCloses(r)
  \/ Remount
  \/ Restart

Spec == Init /\ [][Next]_vars

\* Promises are settled, the page loads the snapshot, and the poll goes on while
\* the snapshot is ready.  Nothing reloads it after an error but the user.
Fairness ==
  /\ WF_vars(Load)
  /\ \A h \in Hooks : WF_vars(HookStep(h)) /\ WF_vars(Refresh(h))

LiveSpec == Spec /\ Fairness

-----------------------------------------------------------------------------
(* Properties. *)

\* The state has its type.
DecisionInboxTypeOK ==
  /\ stored \in [Requests -> Entry]
  /\ recovered \subseteq Stores
  /\ view \in [requests : [Requests -> Entry], fresh : BOOLEAN,
               load : {"idle", "ready", "saving", "error"}]
  /\ hooks \in [Hooks -> HookState]
  /\ mounted \in Hooks
  /\ source \in [Discovered -> Row]
  /\ emitted \in [Discovered -> Nat]
  /\ faults \in 0..MaxFaults

\* The inbox sends the runtime at most one answer to a request, whatever fails,
\* restarts, is remounted or is recovered in between.
AnsweredOnce == \A r \in Discovered : emitted[r] <= 1

OutsideLimit(inbox, r) ==
  Cardinality({q \in Present(inbox) : CreatedAt[q] > CreatedAt[r]}) >= Limit

\* A request the inbox answered is on record as such: it is never pending again,
\* neither in the file nor on the page, even after the limit dropped it.
AnsweredIsNotOffered ==
  \A r \in Discovered : emitted[r] > 0 =>
    /\ stored[r].status \in {"resolving", "uncertain", "resolved"} \/ OutsideLimit(stored, r)
    /\ view.requests[r].status # "pending" \/ ~view.fresh

\* A request is answered at most once and never offered again, by any mount.
OneAnswer == AnsweredOnce /\ AnsweredIsNotOffered

\* What the inbox shows as resolved was answered in the runtime, and a question
\* with the very answer shown.
ResolvedWasAnswered ==
  \A r \in Discovered : stored[r].status = "resolved" =>
    /\ source[r].status = "answered"
    /\ r \in Questions => source[r].answer = stored[r].answer

\* An entry only moves forward: an answer, an approval, its consumption and an
\* uncertain outcome are never taken back by another writer's snapshot.  (Rows
\* that were read early can show a gate's earlier answer until the next poll.)
Forward(before, after) ==
  \/ after = before
  \/ before = Absent
  \/ before = Pending /\ after.status \in {"resolving", "resolved", "expired", "uncertain"}
  \/ before.status = "resolving" /\ after.status \in {"resolved", "uncertain"} /\ after.answer = before.answer
  \/ before = [status |-> "resolved", answer |-> "approved"] /\ after.status = "consumed"

DecisionsMoveForward ==
  [][\A r \in Requests :
       \/ Forward(stored[r], stored'[r])
       \/ r \in Gates /\ stored[r].status = "resolved" /\ stored'[r].status = "resolved"
       \/ (stored'[r] = Absent /\ OutsideLimit(stored', r))]_vars

\* While the page polls, the inbox comes to show the answer a gate holds, also
\* one that another reader gave, or gave again, unless the user's own answer to
\* it went astray or a refused save has stopped the poll.
GateAnswerIsNoticed ==
  \A r \in Gates, a \in Answers :
    source[r] = [status |-> "answered", answer |-> a]
      ~> \/ stored[r] = [status |-> "resolved", answer |-> a]
         \/ source[r].answer # a
         \/ stored[r].status \in {"resolving", "uncertain"}
         \/ view.load = "error"

\* Any persistence failure after the effect becomes resolution-uncertain
\* (BARKOS_ARCHITECTURE.md:166-167): no answer stays "resolving" when nothing
\* works on it any more.
NoSilentResolving ==
  \A r \in Discovered : stored[r].status = "resolving" =>
    \/ view.load = "idle"
    \/ \E h \in Hooks : hooks[h].request = r /\ hooks[h].pc \in InFlight

\* An answer under way becomes uncertain by a failure or by the next start of
\* the process (BARKOS_ARCHITECTURE.md:166-169), never under the page's feet.
InFlightIsNotInterrupted ==
  [][\A h \in Hooks, r \in Discovered :
       (hooks[h].pc = "call" /\ hooks[h].request = r /\ stored[r].status = "resolving")
         => stored'[r].status = "resolving"]_vars

=============================================================================
