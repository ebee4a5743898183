----------------------------- MODULE RunMailbox -----------------------------
(***************************************************************************)
(* The mailbox of one Run of the orchestration database                    *)
(* (src/main/runtime/orchestration/db/runs/) and the handlers of           *)
(* orchestration.check, send, reply, runUse and reset that work on it      *)
(* (src/main/runtime/rpc/methods/orchestration.ts, orchestration-runs.ts). *)
(*                                                                         *)
(* A Run is bound to the pane of its coordinator.  Each takeover raises    *)
(* the consumer generation and fences the batch that is out; a check reads *)
(* the oldest unread mail as a Delivery, and the same Delivery again until *)
(* it is acknowledged.  Mail sent to a terminal that coordinates the Run,  *)
(* or once did, belongs in the Run's mailbox.  A worker's heartbeats and   *)
(* reports go to that mailbox too; a heartbeat about a dispatch that is    *)
(* over is kept, but marked read before anyone sees it.                    *)
(*                                                                         *)
(* A handler that does not await is one step.  check awaits twice: between *)
(* the pages of the direct mail it routes, and while it waits for mail.    *)
(* Terminals that hold a dispatch of the Run, and Runs adopted from the    *)
(* first version of the database, are not modelled.                        *)
(***************************************************************************)
EXTENDS Integers, FiniteSets, Sequences

CONSTANTS Panes,          \* panes an agent may coordinate from
          Messages,       \* messages that may be sent in the Run
          Dispatches,     \* dispatches of the Run's workers
          Waking,         \* the types a filtered check waits for
          Calls,          \* checks that may be in progress together
          RunBox,         \* the address of the Run's mailbox
          NoHandle,       \* the handle of a Run nobody coordinates
          PageLimit,      \* ORCHESTRATION_DELIVERY_BATCH_LIMIT
          MaxMints,       \* bound: new handles each terminal gets
          MaxGeneration,  \* bound: consumer generations
          MaxDeliveries   \* bound: Deliveries created

ASSUME MailboxAssumption ==
    /\ Waking \subseteq {"status", "heartbeat", "worker_done"}
    /\ NoHandle \notin Panes \X Nat
    /\ RunBox \notin Panes \X Nat
    /\ PageLimit \in Nat \ {0}
    /\ MaxMints \in Nat /\ MaxGeneration \in Nat \ {0} /\ MaxDeliveries \in Nat

VARIABLES mints,        \* handles each pane's terminal has had, less one
          run,          \* the row of runs: coordinator handle and generation
          known,        \* run_coordinator_handles
          mail,         \* the rows of messages, by sequence
          deliveries,   \* the rows of deliveries
          issued,       \* the Deliveries created so far
          calls,        \* the checks in progress
          dispatch,     \* the state of each dispatch
          told,         \* the Deliveries some agent was answered
          handed        \* the messages some agent was answered

vars == <<mints, run, known, mail, deliveries, issued, calls, dispatch, told, handed>>

NoDelivery == 0
NoDispatch == "none"

\* The types of mail the code tells apart; "status" stands for every other one.
Types == {"status", "heartbeat", "worker_done"}
NoCall == [phase |-> "idle"]

Handle(p) == <<p, mints[p]>>
Handles == {<<p, n>> : p \in Panes, n \in 0..MaxMints}

\* getCurrentRunForPane finds the Run: it is bound to this pane.
BoundTo(p) == run.handle # NoHandle /\ run.handle[1] = p

Ids(rows) == {rows[i].id : i \in DOMAIN rows}

\* The rows of the Run's mailbox that are unread, and those a check asks for.
Unread(box) == {i \in DOMAIN box : box[i].to = RunBox /\ ~box[i].read}
UnreadIds(box) == {box[i].id : i \in Unread(box)}

Matches(picky, row) == picky => row.type \in Waking
Wanted(box, picky) == {box[i].id : i \in {j \in Unread(box) : Matches(picky, box[j])}}

\* Unread mail for these terminals is moved to the Run's mailbox.
Routed(box, handles) ==
    [i \in DOMAIN box |->
        IF box[i].to \in handles /\ ~box[i].read
        THEN [box[i] EXCEPT !.to = RunBox] ELSE box[i]]

Marked(box, ids) ==
    [i \in DOMAIN box |->
        IF box[i].id \in ids THEN [box[i] EXCEPT !.read = TRUE] ELSE box[i]]

Outstanding(rows) == {d \in rows : d.status = "outstanding"}

\* fenceOutstandingDelivery.
Fenced(rows) ==
    (rows \ Outstanding(rows))
        \cup {[d EXCEPT !.status = "fenced"] : d \in Outstanding(rows)}

Init ==
    \E p \in Panes :
        /\ mints = [q \in Panes |-> 0]
        /\ run = [handle |-> <<p, 0>>, generation |-> 1]
        /\ known = {<<p, 0>>}
        /\ mail = <<>> /\ deliveries = {} /\ issued = 0
        /\ calls = [c \in Calls |-> NoCall]
        /\ dispatch = [d \in Dispatches |-> "dispatched"]
        /\ told = {} /\ handed = {}

(***************************************************************************)
(* Waiters.  At most one check waits on the mailbox; it is woken by mail   *)
(* of a type it waits for and goes on before any other handler starts.     *)
(***************************************************************************)
Waiting(c) == calls[c].phase = "waiting"

Quiet == \A c \in Calls : calls[c].phase # "notified"

Woken(box, arrived) ==
    [c \in Calls |->
        IF Waiting(c) /\ Wanted(box, calls[c].ask.picky) \cap arrived # {}
        THEN [calls[c] EXCEPT !.phase = "notified"] ELSE calls[c]]

\* cancelMessageWaiters: the check that waits is answered with nothing.
Cancelled == [c \in Calls |-> IF Waiting(c) THEN NoCall ELSE calls[c]]

(***************************************************************************)
(* Sending.  The trigger on insert moves mail for a remembered coordinator *)
(* to the mailbox; the notification does it for the terminal that has the  *)
(* coordinator's pane now.                                                 *)
(***************************************************************************)
Row(m, type, about, to) ==
    [id |-> m, type |-> type, about |-> about, to |-> to, read |-> FALSE]

Stored(box, m, to) ==
    Append(box, Row(m, "status", NoDispatch, IF to \in known THEN RunBox ELSE to))

Notified(box, to) ==
    IF \E p \in Panes : to = Handle(p) /\ BoundTo(p) THEN Routed(box, {to})
                                                     ELSE box

\* Defect: the notification is for the address the sender named.
SendUnrouted(m, to) ==
    /\ Quiet
    /\ m \notin Ids(mail)
    /\ to = RunBox \/ \E p \in Panes : \E n \in 0..mints[p] : to = <<p, n>>
    /\ mail' = Notified(Stored(mail, m, to), to)
    /\ calls' = IF to = RunBox THEN Woken(mail', {m}) ELSE calls
    /\ UNCHANGED <<mints, run, known, deliveries, issued, dispatch, told, handed>>

Send(m, to) ==
    /\ Quiet
    /\ m \notin Ids(mail)
    /\ to = RunBox \/ \E p \in Panes : \E n \in 0..mints[p] : to = <<p, n>>
    /\ mail' = Notified(Stored(mail, m, to), to)
    /\ calls' = Woken(mail', UnreadIds(mail') \ UnreadIds(mail))
    /\ UNCHANGED <<mints, run, known, deliveries, issued, dispatch, told, handed>>

(***************************************************************************)
(* A worker's heartbeats and reports go to the Run's mailbox, whoever they *)
(* are sent to, and are reconciled with the dispatch they are about before *)
(* anyone is notified.  A message from another than the dispatch's worker, *)
(* and a report the runtime does not accept, is rejected: it stays as mail *)
(* that says so.                                                           *)
(***************************************************************************)
\* A heartbeat about a dispatch that is not running any more is kept as read.
Heartbeat(m, d) ==
    /\ Quiet
    /\ m \notin Ids(mail)
    /\ \E rejected \in BOOLEAN :
        LET row == Row(m, "heartbeat", d, RunBox)
            suppressed == ~rejected /\ dispatch[d] # "dispatched"
        IN  /\ mail' = Append(mail, [row EXCEPT !.read = suppressed])
            /\ calls' = IF suppressed THEN calls ELSE Woken(mail', {m})
    /\ UNCHANGED <<mints, run, known, deliveries, issued, dispatch, told, handed>>

\* suppressEarlierHeartbeats.  Defect: it takes all the mail about the dispatch.
EarlierMail(box, d) == {box[i].id : i \in {j \in Unread(box) : box[j].about = d}}

EarlierHeartbeats(box, d) ==
    {box[i].id : i \in {j \in Unread(box) : box[j].type = "heartbeat" /\ box[j].about = d}}

\* A report settles its dispatch, or says again what the settled one said.
Report(m, d) ==
    /\ Quiet
    /\ m \notin Ids(mail)
    /\ LET row == Row(m, "worker_done", d, RunBox)
       IN  \/ /\ dispatch[d] \in {"dispatched", "reported"}
              /\ mail' = Append(Marked(mail, EarlierHeartbeats(mail, d)), row)
              /\ dispatch' = [dispatch EXCEPT ![d] = "reported"]
           \/ /\ mail' = Append(mail, row)
              /\ UNCHANGED dispatch
    /\ calls' = Woken(mail', {m})
    /\ UNCHANGED <<mints, run, known, deliveries, issued, told, handed>>

\* The dispatch is stopped, or its agent exits.
End(d) ==
    /\ Quiet
    /\ dispatch[d] = "dispatched"
    /\ dispatch' = [dispatch EXCEPT ![d] = "over"]
    /\ UNCHANGED <<mints, run, known, mail, deliveries, issued, calls, told, handed>>

\* reply marks the message it answers as read, whoever sends the reply.
Reply(m) ==
    /\ Quiet
    /\ m \in handed
    /\ mail' = Marked(mail, {m})
    /\ UNCHANGED <<mints, run, known, deliveries, issued, calls, dispatch, told, handed>>

(***************************************************************************)
(* Binding.                                                                *)
(***************************************************************************)
\* runUse: the agent of pane p coordinates the Run from now on.
Use(p) ==
    LET former == {run.handle} \ {NoHandle}
        same == run.handle = Handle(p)
    IN  /\ Quiet
        /\ same \/ run.generation < MaxGeneration
        /\ known' = known \cup former \cup {Handle(p)}
        /\ mail' = Routed(mail, former \cup {Handle(p)})
        /\ run' = IF same THEN run
                  ELSE [handle |-> Handle(p), generation |-> run.generation + 1]
        /\ deliveries' = IF same THEN deliveries ELSE Fenced(deliveries)
        /\ calls' = Cancelled
        /\ UNCHANGED <<mints, issued, dispatch, told, handed>>

\* Defect: a pane that leaves the Run leaves its batch outstanding.
LeaveUnfenced ==
    /\ Quiet
    /\ run.handle # NoHandle
    /\ run.generation < MaxGeneration
    /\ mail' = Routed(mail, {run.handle})
    /\ run' = [handle |-> NoHandle, generation |-> run.generation + 1]
    /\ calls' = Cancelled
    /\ UNCHANGED <<mints, known, deliveries, issued, dispatch, told, handed>>

\* unbindOtherRunsForPane: the coordinator's pane takes up another Run.
Leave ==
    /\ Quiet
    /\ run.handle # NoHandle
    /\ run.generation < MaxGeneration
    /\ mail' = Routed(mail, {run.handle})
    /\ run' = [handle |-> NoHandle, generation |-> run.generation + 1]
    /\ deliveries' = Fenced(deliveries)
    /\ calls' = Cancelled
    /\ UNCHANGED <<mints, known, issued, dispatch, told, handed>>

(***************************************************************************)
(* orchestration.check.                                                    *)
(***************************************************************************)
\* What a check may ask.  The filter of one that does not wait only narrows
\* what is shown, and so does the history; both are left out.
Asks == {ask \in [ack : told \cup {NoDelivery}, peek : BOOLEAN,
                  wait : BOOLEAN, picky : BOOLEAN] : ask.picky => ask.wait}

\* The check finds the Run of its pane and routes direct mail to the mailbox.
\* It names the handle its terminal has now; a check under a former handle,
\* which finds its pane by the key the caller passes, is not modelled.
Check(c, p, ask) ==
    /\ Quiet
    /\ calls[c] = NoCall
    /\ BoundTo(p)
    /\ mail' = Routed(mail, {Handle(p), run.handle})
    /\ calls' = [calls EXCEPT ![c] = [phase |-> "routing", pane |-> p,
                                      generation |-> run.generation, ask |-> ask]]
    /\ UNCHANGED <<mints, run, known, deliveries, issued, dispatch, told, handed>>

\* requireCurrentConsumer.
Current(c) == run.generation = calls[c].generation

Finished(c) == [calls EXCEPT ![c] = NoCall]

\* The check ends in an error, or in an answer that carries nothing.
Refuse(c) ==
    /\ calls' = Finished(c)
    /\ UNCHANGED <<mints, run, known, mail, deliveries, issued, dispatch, told, handed>>

\* acknowledgeRunDelivery refuses Deliveries deleted or of other generations.
Acknowledgeable(c, id) ==
    \E d \in deliveries : d.id = id /\ d.generation = calls[c].generation
                                    /\ d.status # "fenced"

\* The tables once the Delivery is acknowledged; a second time changes nothing.
Acknowledged(id) ==
    LET acked == {d \in Outstanding(deliveries) : d.id = id}
    IN  [mail |-> Marked(mail, UNION {d.batch : d \in acked}),
         deliveries |-> (deliveries \ acked)
                            \cup {[d EXCEPT !.status = "acknowledged"] : d \in acked}]

\* The agent is answered these messages, unless its connection is gone.
Answer(c, ids, delivery) ==
    \E lost \in BOOLEAN :
        /\ handed' = IF lost THEN handed ELSE handed \cup ids
        /\ told' = IF lost THEN told ELSE told \cup delivery
        /\ calls' = Finished(c)

\* getOrCreateRunDelivery, on the tables as the acknowledgement left them.
Replay(c, t) ==
    \E d \in Outstanding(t.deliveries) :
        /\ d.generation = calls[c].generation
        /\ deliveries' = t.deliveries /\ issued' = issued
        /\ Answer(c, d.batch, {d.id})

\* The oldest of the unread mail, at most a page of it.
Batch(t) ==
    {t.mail[i].id : i \in {j \in Unread(t.mail) :
        Cardinality({k \in Unread(t.mail) : k < j}) < PageLimit}}

Deliver(c, t) ==
    /\ issued < MaxDeliveries
    /\ issued' = issued + 1
    /\ deliveries' = t.deliveries
                        \cup {[id |-> issued', generation |-> calls[c].generation,
                               batch |-> Batch(t), status |-> "outstanding"]}
    /\ Answer(c, Batch(t), {issued'})

Show(c, t, ids) ==
    /\ deliveries' = t.deliveries /\ issued' = issued
    /\ Answer(c, ids, {})

\* The check waits, unless another one does.
Await(c, t) ==
    /\ deliveries' = t.deliveries /\ issued' = issued
    /\ calls' = IF \E o \in Calls : Waiting(o) THEN Finished(c)
                ELSE [calls EXCEPT ![c].phase = "waiting", ![c].ask.ack = NoDelivery]
    /\ UNCHANGED <<told, handed>>

\* What a check does with the tables it finds.
Serve(c, t, mayWait) ==
    LET ask == calls[c].ask
        wanted == Wanted(t.mail, ask.picky)
    IN  /\ mail' = t.mail
        /\ UNCHANGED <<mints, run, known, dispatch>>
        /\ CASE ask.peek /\ wanted # {} -> Show(c, t, wanted)
             [] ~ask.peek /\ Outstanding(t.deliveries) # {} -> Replay(c, t)
             [] ~ask.peek /\ wanted # {} /\ Outstanding(t.deliveries) = {} ->
                    Deliver(c, t)
             [] OTHER -> IF mayWait THEN Await(c, t) ELSE Show(c, t, {})

\* The mail is routed: the check acknowledges, then reads or waits.
Proceed(c) ==
    LET ask == calls[c].ask
    IN  /\ Quiet
        /\ calls[c].phase = "routing"
        /\ IF \/ ~BoundTo(calls[c].pane) \/ ~Current(c)
              \/ ask.ack # NoDelivery /\ ~Acknowledgeable(c, ask.ack)
           THEN Refuse(c)
           ELSE Serve(c, Acknowledged(ask.ack), ask.wait)

\* The check that waited is notified of mail and reads it.
Resume(c) ==
    /\ calls[c].phase = "notified"
    /\ IF ~Current(c) THEN Refuse(c)
       ELSE Serve(c, [mail |-> mail, deliveries |-> deliveries], FALSE)

\* The wait times out or its caller goes away.
GiveUp(c) ==
    /\ Quiet
    /\ Waiting(c)
    /\ Refuse(c)

(***************************************************************************)
(* The surroundings: a terminal comes back under a new handle, the         *)
(* application restarts with its database, the messages are reset.         *)
(***************************************************************************)
Remint(p) ==
    /\ Quiet
    /\ mints[p] < MaxMints
    /\ mints' = [mints EXCEPT ![p] = @ + 1]
    /\ UNCHANGED <<run, known, mail, deliveries, issued, calls, dispatch, told, handed>>

Restart ==
    /\ Quiet
    /\ \E c \in Calls : calls[c] # NoCall
    /\ calls' = [c \in Calls |-> NoCall]
    /\ UNCHANGED <<mints, run, known, mail, deliveries, issued, dispatch, told, handed>>

Reset ==
    /\ Quiet
    /\ mail # <<>>
    /\ mail' = <<>> /\ deliveries' = {} /\ handed' = {}
    /\ UNCHANGED <<mints, run, known, issued, calls, dispatch, told>>

Next ==
    \/ \E m \in Messages : \/ \E to \in Handles \cup {RunBox} : Send(m, to)
                           \/ \E d \in Dispatches : Heartbeat(m, d) \/ Report(m, d)
                           \/ Reply(m)
    \/ \E d \in Dispatches : End(d)
    \/ \E p \in Panes : Use(p) \/ Remint(p)
    \/ Leave
    \/ \E c \in Calls :
          \/ \E p \in Panes, ask \in Asks : Check(c, p, ask)
          \/ Proceed(c) \/ Resume(c) \/ GiveUp(c)
    \/ Restart
    \/ Reset

Spec == Init /\ [][Next]_vars

(***************************************************************************)
(* Properties.                                                             *)
(***************************************************************************)
\* Every variable has the shape its table or map has in the code.
MailboxTypeOK ==
    /\ mints \in [Panes -> 0..MaxMints]
    /\ run.handle \in Handles \cup {NoHandle} /\ run.generation \in 1..MaxGeneration
    /\ known \subseteq Handles
    /\ \A i \in DOMAIN mail : /\ mail[i].id \in Messages /\ mail[i].read \in BOOLEAN
                              /\ mail[i].type \in Types
                              /\ mail[i].about \in Dispatches \cup {NoDispatch}
                              /\ mail[i].to \in Handles \cup {RunBox}
    /\ issued \in 0..MaxDeliveries
    /\ \A d \in deliveries : /\ d.id \in 1..issued
                             /\ d.generation \in 1..run.generation
                             /\ d.status \in {"outstanding", "acknowledged", "fenced"}
                             /\ Cardinality(d.batch) \in 1..PageLimit
                             /\ d.batch \subseteq Ids(mail)
    /\ \A c \in Calls : calls[c] # NoCall => calls[c].generation \in 1..run.generation
    /\ dispatch \in [Dispatches -> {"dispatched", "reported", "over"}]
    /\ told \subseteq 1..issued
    /\ handed \subseteq Ids(mail)

\* At most one Delivery is outstanding, and it is of the generation that may
\* acknowledge it: a takeover leaves no batch behind.
OneCurrentDelivery ==
    /\ Cardinality(Outstanding(deliveries)) <= 1
    /\ \A d \in Outstanding(deliveries) : d.generation = run.generation

\* A message is in a second Delivery only when the first was fenced.
DeliveredOnce ==
    \A d, e \in deliveries :
        d # e /\ d.status # "fenced" /\ e.status # "fenced"
            => d.batch \cap e.batch = {}

\* A batch is one consumer's: two coordinators never work on a message that was
\* delivered once, unless a takeover took it from the first
\* (getOrCreateRunDelivery, acknowledgeRunDelivery, fenceOutstandingDelivery).
DeliveryIsExclusive == OneCurrentDelivery /\ DeliveredOnce

\* A message is marked read when an agent was answered it, and otherwise only if
\* it is a heartbeat about a dispatch that is over: no report, no rejection of a
\* report, and no sign of life of a running worker, is taken from the coordinator.
ReadWasHanded ==
    \A i \in DOMAIN mail : mail[i].read =>
        \/ mail[i].id \in handed
        \/ mail[i].type = "heartbeat" /\ dispatch[mail[i].about] # "dispatched"

\* Unread mail for a terminal that coordinates the Run, or once did, is in the
\* mailbox.
NoMailLeftBehind == \A i \in DOMAIN mail : mail[i].read \/ mail[i].to \notin known

\* A lost answer, a takeover or a restart loses no mail: what no agent has been
\* answered stays unread, where the coordinator of the day finds it, obsolete
\* heartbeats apart (reconcileLifecycleMessage).
MailIsKept == ReadWasHanded /\ NoMailLeftBehind

\* No wake-up is missed: a check that waits finds no unread mail in the mailbox
\* that it waits for, be it sent there, routed by another check or by a takeover
\* (notifyMessageArrived, waitForMessage).
NoMissedWakeup ==
    \A c \in Calls : Waiting(c) => Wanted(mail, calls[c].ask.picky) = {}

=============================================================================
