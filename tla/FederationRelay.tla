-------------------------- MODULE FederationRelay --------------------------
(* One federated dispatch: an agent on a worker server reports through the   *)
(* worker runtime's relay queue, and the runtime that is home to the Run     *)
(* pulls, imports and acknowledges what is queued, once a second.  Modelled  *)
(* are both databases, the sync with its pages and acknowledgments, the      *)
(* mutation receipts that make calls repeatable, control mail to the worker, *)
(* and stopping the worker.  Calls may be lost before or after they take     *)
(* effect and either runtime may restart.                                    *)
EXTENDS Naturals, Sequences, FiniteSets, SequencesExt

CONSTANTS
  Protocols,   \* protocol versions in use; from Settling on, home decides reports
  Settling,    \* the version with lifecycle settlement
  Quota,       \* unacknowledged items a dispatch may queue
  Page,        \* items one pull returns
  MaxPages,    \* pages one sync pulls
  Reports,     \* worker_done payloads: what each claims and whether it names this task
  MaxSends,    \* bound on messages the agent sends
  MaxMail,     \* bound on control messages to the worker
  Faults,      \* the faults, restarts and resets that may happen
  MaxFaults,   \* bound on their number
  MayStop      \* whether the user may stop the worker

ASSUME BoundsAssumption ==
  /\ {Settling, Quota, Page, MaxPages, MaxSends, MaxMail, MaxFaults} \subseteq Nat
  /\ Protocols \subseteq Nat /\ Page > 0 /\ MaxPages > 0
  /\ Reports \subseteq [outcome : {"succeeded", "failed"}, genuine : BOOLEAN]

VARIABLES
  protocol,   \* the version agreed when the worker was started
  relay,      \* worker: every item queued for home; the index is its sequence
  worker,     \* worker: attachment, items acknowledged, runtime epoch, mail imported
  receipts,   \* worker: mutation receipts of acknowledgments
  home,       \* home: worker dispatch state and cursors
  inbox,      \* home: messages of the Run, in order
  mail,       \* home: control messages queued for the worker and acknowledged
  sync,       \* home: the sync in progress
  bounds      \* messages sent and faults so far

vars == <<protocol, relay, worker, receipts, home, inbox, mail, sync, bounds>>

Decided == {"succeeded", "failed"}
NoReport == [outcome |-> "none", genuine |-> FALSE]
Beat == [kind |-> "heartbeat", report |-> NoReport]
Status == [kind |-> "status", report |-> NoReport]
Done(r) == [kind |-> "worker_done", report |-> r]
Contents == {Beat, Status} \cup {Done(r) : r \in Reports}
Item(id, c) == [id |-> id, kind |-> c.kind, report |-> c.report]
Modern == protocol >= Settling

Idle == [phase |-> "idle", first |-> 0, items |-> <<>>, epoch |-> 0,
         settlements |-> {}, pages |-> MaxPages]

Init ==
  /\ protocol \in Protocols
  /\ relay = <<>>
  /\ worker = [attached |-> "ready", acked |-> 0, epoch |-> 1, mail |-> 0]
  /\ receipts = {}
  /\ home = [state |-> "ready", imported |-> 0, acked |-> 0, epoch |-> 1,
             checkpoint |-> [epoch |-> 0, through |-> 0]]
  /\ inbox = <<>>
  /\ mail = [queued |-> 0, acked |-> 0]
  /\ sync = Idle
  /\ bounds = [sends |-> 0, faults |-> 0]

Fault(f) ==
  /\ f \in Faults /\ bounds.faults < MaxFaults
  /\ bounds' = [bounds EXCEPT !.faults = @ + 1]

-----------------------------------------------------------------------------
(* The worker's queue.                                                       *)

Unacked == (worker.acked + 1)..Len(relay)
OpenBeats == {i \in Unacked : relay[i].kind = "heartbeat"}
Oldest(S) == CHOOSE i \in S : \A j \in S : i <= j

(* A heartbeat, or a report already queued word for word, takes no new item. *)
Merged(c) ==
  \/ c.kind = "heartbeat" /\ OpenBeats # {}
  \/ c.kind = "worker_done" /\ \E i \in Unacked : relay[i].kind = c.kind /\ relay[i].report = c.report

Full == Cardinality(Unacked) >= Quota

(* Defect: a report takes a heartbeat's place although there is room.        *)
EnqueuedOverBeat(item) ==
  IF item.kind = "worker_done" /\ OpenBeats # {} THEN [relay EXCEPT ![Oldest(OpenBeats)] = item]
  ELSE Append(relay, item)

Enqueued(item) ==
  IF Full THEN [relay EXCEPT ![Oldest(OpenBeats)] = item] ELSE Append(relay, item)

(* A full queue still takes a report, in the place of the oldest heartbeat.  *)
HasRoom(c) == ~Full \/ (c.kind = "worker_done" /\ OpenBeats # {})

(* Below Settling the worker's runtime settles the attachment by itself.     *)
SettledOnSend(c) ==
  IF c.kind = "worker_done" /\ ~Modern THEN c.report.outcome ELSE worker.attached

(* orchestration.send by the agent of a remote dispatch.                     *)
Send(c) ==
  /\ bounds.sends < MaxSends
  /\ worker.attached = "ready"
  /\ Merged(c) \/ HasRoom(c)
  /\ bounds' = [bounds EXCEPT !.sends = @ + 1]
  /\ relay' = IF Merged(c) THEN relay ELSE Enqueued(Item(bounds.sends + 1, c))
  /\ worker' = [worker EXCEPT !.attached = SettledOnSend(c)]
  /\ UNCHANGED <<protocol, receipts, home, inbox, mail, sync>>

-----------------------------------------------------------------------------
(* The sync of the home runtime.                                             *)

(* Defects: only live dispatches are synced, or only unacknowledged ones.    *)
EligibleWhileLive == home.state \in {"ready", "stopping", "stop_unknown"}
EligibleUnacked == home.acked < home.imported

(* A dispatch is synced while it lives, and until its imports are acked.     *)
Eligible == home.state \in {"ready", "stopping", "stop_unknown"} \/ home.acked < home.imported

(* The first sequence a pull asks for: everything unacknowledged, or, from   *)
(* an older worker, what home has not imported.                              *)
PullFrom == IF Modern THEN worker.acked + 1 ELSE home.imported + 1

Pull ==
  /\ sync.phase = "idle" /\ (Eligible \/ sync.pages < MaxPages)
  /\ LET due == PullFrom..Len(relay)
         items == [i \in 1..(IF Page < Cardinality(due) THEN Page ELSE Cardinality(due)) |->
                     relay[PullFrom + i - 1]]
     IN  sync' = [sync EXCEPT !.phase = "pulled", !.items = items, !.epoch = worker.epoch,
                   !.first = IF Modern /\ items # <<>> THEN PullFrom ELSE home.imported + 1]
  /\ UNCHANGED <<protocol, relay, worker, receipts, home, inbox, mail, bounds>>

(* Defect: the report's claim decides, whatever was decided before.          *)
VerdictOfClaim(state, report) == IF report.genuine THEN report.outcome ELSE "rejected"

(* How the home database decides a report: only while the dispatch and its   *)
(* task are both 'dispatched', or again as it did before.                    *)
Verdict(state, report) ==
  IF report.genuine /\ state \in {"ready", report.outcome} THEN report.outcome ELSE "rejected"

Importable(h, seq, item) ==
  IF seq <= h.imported THEN item.id \in Range(h.inbox) ELSE seq = h.imported + 1

(* Defect: the message is inserted whether or not its id is in the inbox.    *)
FiledAgain(box, item) == Append(box, item.id)

Filed(box, item) == IF item.id \in Range(box) THEN box ELSE Append(box, item.id)

(* Importing one item is one transaction; an item that cannot be imported    *)
(* ends the sync, and the items before it stay imported.                     *)
ImportItem(h, seq, item) ==
  IF ~h.ok \/ ~Importable(h, seq, item) THEN [h EXCEPT !.ok = FALSE]
  ELSE LET verdict == Verdict(h.state, item.report)
           isReport == item.kind = "worker_done"
       IN [ok |-> TRUE,
           imported |-> IF seq > h.imported THEN seq ELSE h.imported,
           inbox |-> Filed(h.inbox, item),
           state |-> IF isReport /\ verdict # "rejected" THEN verdict ELSE h.state,
           settlements |-> IF isReport THEN h.settlements \cup {[seq |-> seq, verdict |-> verdict]}
                           ELSE h.settlements]

Imports ==
  LET Done_[i \in 0..Len(sync.items)] ==
        IF i = 0 THEN [ok |-> TRUE, imported |-> home.imported, inbox |-> inbox,
                       state |-> home.state, settlements |-> {}]
        ELSE ImportItem(Done_[i - 1], sync.first + i - 1, sync.items[i])
  IN  Done_[Len(sync.items)]

Cursor == sync.first + Len(sync.items) - 1

(* What home remembers as acknowledged for this run of the worker's runtime. *)
KnownAcked ==
  LET durable == IF home.epoch = sync.epoch THEN home.acked ELSE 0
      cached == IF home.checkpoint.epoch = sync.epoch THEN home.checkpoint.through ELSE 0
  IN  IF durable > cached THEN durable ELSE cached

Import ==
  /\ sync.phase = "pulled"
  /\ LET h == Imports
     IN /\ inbox' = h.inbox
        /\ home' = [home EXCEPT !.state = h.state, !.imported = h.imported]
        /\ sync' = IF ~h.ok THEN Idle
                   ELSE [sync EXCEPT !.phase = IF Cursor > KnownAcked THEN "ack" ELSE "mail",
                           !.settlements = IF Modern THEN h.settlements ELSE {}]
  /\ UNCHANGED <<protocol, relay, worker, receipts, mail, bounds>>

-----------------------------------------------------------------------------
(* Acknowledging: a mutation whose request id names the cursor.              *)

Terminal == {s \in sync.settlements : s.verdict # "rejected"}

(* A settlement speaks of a queued report and of the outcome that claims.    *)
MatchesQueue(s) ==
  /\ s.seq <= Cursor /\ relay[s.seq].kind = "worker_done"
  /\ s.verdict \in {"rejected", relay[s.seq].report.outcome}

(* Defect: older workers' rule for everybody.                                *)
CompleteAnyway == TRUE

(* From Settling on, no report is acknowledged without a verdict on it.      *)
Complete ==
  Modern => \A i \in Unacked : i <= Cursor /\ relay[i].kind = "worker_done"
                                => \E s \in sync.settlements : s.seq = i

Settles ==
  /\ Cardinality({s.verdict : s \in Terminal}) <= 1
  /\ \A s \in Terminal : worker.attached \in {"ready", s.verdict}

AckValid == (\A s \in sync.settlements : MatchesQueue(s)) /\ Complete /\ Settles

Request == [through |-> Cursor, settlements |-> sync.settlements]
Earlier == {r \in receipts : r.request.through = Cursor}
Replayed == \E r \in Earlier : r.request = Request /\ ~r.pending

Acknowledged ==
  [worker EXCEPT !.acked = IF Cursor > @ THEN Cursor ELSE @,
     !.attached = IF Terminal = {} THEN @ ELSE (CHOOSE s \in Terminal : TRUE).verdict]

(* orchestration.federationAck takes effect, or answers from its receipt.    *)
Served ==
  \/ Replayed /\ UNCHANGED <<worker, receipts>>
  \/ /\ Earlier = {} /\ AckValid
     /\ worker' = Acknowledged
     /\ receipts' = receipts \cup {[request |-> Request, pending |-> FALSE]}

(* After the last page of a full sync one item is left out, so that the      *)
(* dispatch stays eligible and the rest is pulled.                           *)
Remembered ==
  IF Len(sync.items) = Page /\ sync.pages = 1 THEN Cursor - 1 ELSE Cursor

Recorded ==
  [home EXCEPT !.epoch = sync.epoch,
     !.acked = IF home.epoch = sync.epoch /\ @ > Remembered THEN @ ELSE Remembered,
     !.checkpoint = IF @.epoch = sync.epoch /\ @.through >= Remembered THEN @
                    ELSE [epoch |-> sync.epoch, through |-> Remembered]]

Ack ==
  /\ sync.phase = "ack" /\ Served
  /\ home' = Recorded
  /\ sync' = [sync EXCEPT !.phase = "mail"]
  /\ UNCHANGED <<protocol, relay, inbox, mail, bounds>>

AckRefused ==
  /\ sync.phase = "ack"
  /\ ~Replayed /\ (Earlier # {} \/ ~AckValid)
  /\ sync' = Idle
  /\ UNCHANGED <<protocol, relay, worker, receipts, home, inbox, mail, bounds>>

(* The call is lost on the way, its answer is, or the worker's runtime dies  *)
(* after it noted the request: then the id is never served again.            *)
LoseAck ==
  /\ sync.phase = "ack"
  /\ sync' = Idle
  /\ \/ Fault("request lost") /\ UNCHANGED <<worker, receipts>>
     \/ Fault("answer lost") /\ Served
     \/ /\ Fault("died") /\ Earlier = {}
        /\ receipts' = receipts \cup {[request |-> Request, pending |-> TRUE]}
        /\ \E w \in {worker} \cup {v \in {Acknowledged} : AckValid} :
             worker' = [w EXCEPT !.epoch = @ + 1]
  /\ UNCHANGED <<protocol, relay, home, inbox, mail>>

-----------------------------------------------------------------------------
(* Mail for the worker: the last part of a sync.                             *)

SendMail ==
  /\ home.state = "ready" /\ mail.queued < MaxMail
  /\ mail' = [mail EXCEPT !.queued = @ + 1]
  /\ UNCHANGED <<protocol, relay, worker, receipts, home, inbox, sync, bounds>>

MailDue == home.state = "ready" /\ mail.acked < mail.queued
MailTaken == worker.mail >= mail.queued \/ worker.attached = "ready"
WorkerHasMail == [worker EXCEPT !.mail = IF mail.queued > @ THEN mail.queued ELSE @]

NextPage ==
  IF Len(sync.items) = Page /\ sync.pages > 1 THEN [Idle EXCEPT !.pages = sync.pages - 1] ELSE Idle

DeliverMail ==
  /\ sync.phase = "mail"
  /\ \/ /\ MailDue /\ MailTaken
        /\ worker' = WorkerHasMail /\ mail' = [mail EXCEPT !.acked = mail.queued]
        /\ sync' = NextPage
     \/ ~MailDue /\ sync' = NextPage /\ UNCHANGED <<worker, mail>>
     \/ MailDue /\ ~MailTaken /\ sync' = Idle /\ UNCHANGED <<worker, mail>>
  /\ UNCHANGED <<protocol, relay, receipts, home, inbox, bounds>>

LoseMail ==
  /\ sync.phase = "mail" /\ MailDue
  /\ sync' = Idle
  /\ \/ Fault("request lost") /\ UNCHANGED worker
     \/ Fault("answer lost") /\ MailTaken /\ worker' = WorkerHasMail
  /\ UNCHANGED <<protocol, relay, receipts, home, inbox, mail>>

-----------------------------------------------------------------------------
(* Stopping the worker: home blocks the task first, then asks the worker.    *)

BeginStop ==
  /\ MayStop /\ home.state = "ready"
  /\ home' = [home EXCEPT !.state = "stopping"]
  /\ UNCHANGED <<protocol, relay, worker, receipts, inbox, mail, sync, bounds>>

(* The worker closes the terminal, unless the attachment is settled already; *)
(* home then waits for the report that settled it.                           *)
Stop ==
  /\ home.state = "stopping"
  /\ \/ /\ worker.attached = "ready"
        /\ worker' = [worker EXCEPT !.attached = "stopped"]
        /\ home' = [home EXCEPT !.state = "stopped"]
     \/ /\ worker.attached \in Decided
        /\ home' = [home EXCEPT !.state = "ready"]
        /\ UNCHANGED worker
  /\ UNCHANGED <<protocol, relay, receipts, inbox, mail, sync, bounds>>

StopInDoubt ==
  /\ home.state = "stopping"
  /\ home' = [home EXCEPT !.state = "stop_unknown"]
  /\ \/ Fault("request lost") /\ UNCHANGED worker
     \/ /\ Fault("answer lost") /\ worker.attached = "ready"
        /\ \E s \in {"stopped", "stop_unknown"} : worker' = [worker EXCEPT !.attached = s]
  /\ UNCHANGED <<protocol, relay, receipts, inbox, mail, sync>>

-----------------------------------------------------------------------------
(* Restarts and resets.                                                      *)

HomeRestart ==
  /\ Fault("home restart")
  /\ sync' = Idle
  /\ home' = [home EXCEPT !.checkpoint = [epoch |-> 0, through |-> 0]]
  /\ UNCHANGED <<protocol, relay, worker, receipts, inbox, mail>>

WorkerRestart ==
  /\ Fault("worker restart")
  /\ worker' = [worker EXCEPT !.epoch = @ + 1]
  /\ UNCHANGED <<protocol, relay, receipts, home, inbox, mail, sync>>

(* orchestration.reset of messages empties the inbox and keeps the cursors   *)
(* and the sync in flight.                                                   *)
ResetMessages ==
  /\ Fault("reset")
  /\ inbox' = <<>>
  /\ UNCHANGED <<protocol, relay, worker, receipts, home, mail, sync>>

Syncing == Pull \/ Import \/ Ack \/ AckRefused \/ DeliverMail

Next ==
  \/ \E c \in Contents : Send(c)
  \/ Syncing \/ LoseAck
  \/ SendMail \/ LoseMail
  \/ BeginStop \/ Stop \/ StopInDoubt
  \/ HomeRestart \/ WorkerRestart \/ ResetMessages

Spec == Init /\ [][Next]_vars
LiveSpec == Spec /\ WF_vars(Syncing) /\ WF_vars(Stop)

-----------------------------------------------------------------------------
(* Properties.                                                               *)

States == {"ready", "stopping", "stop_unknown", "stopped"} \cup Decided

(* Every cursor and state is one the databases can hold.                     *)
RelayTypeOK ==
  /\ protocol \in Protocols
  /\ \A i \in 1..Len(relay) : \E c \in Contents : relay[i] = Item(relay[i].id, c)
  /\ worker.attached \in States \ {"stopping"} /\ home.state \in States
  /\ worker.acked \in 0..Len(relay) /\ home.imported \in 0..Len(relay)
  /\ home.acked \in 0..home.imported /\ home.checkpoint.through \in 0..home.imported
  /\ worker.mail \in mail.acked..mail.queued
  /\ sync.phase \in {"idle", "pulled", "ack", "mail"}

(* From Settling on, a report that names its task is acknowledged only once  *)
(* home has decided it: the worker never forgets a report home did not take. *)
AckedReportIsDecided ==
  Modern => \A i \in 1..worker.acked : relay[i].report.genuine => home.state # "ready"

(* An attachment is settled with the verdict home gave, whatever the agent   *)
(* claimed in other reports, retries and replays.                            *)
VerdictsAgree == Modern /\ worker.attached \in Decided => home.state = worker.attached

(* A decision is made once: no report, replay, stop or restart that comes    *)
(* later changes the verdict of home or reopens the worker's attachment.     *)
DecisionIsFinal ==
  [][/\ home.state \in Decided \cup {"stopped"} => home'.state = home.state
     /\ worker.attached # "ready" => worker'.attached = worker.attached]_vars

(* Home stops syncing a dispatch only when the worker knows that everything  *)
(* imported has arrived.                                                     *)
NoReportStranded == ~Eligible => worker.acked >= home.imported

(* What one side forgets, the other has: the worker drops a report only once *)
(* home has decided it, and home stops asking only once all is acknowledged. *)
NothingIsForgotten == AckedReportIsDecided /\ NoReportStranded

(* The inbox is the last part of what was imported, in the order of sending: *)
(* since the inbox was last cleared no message is missing, and none is there *)
(* twice, whatever was pulled, lost and pulled again.                        *)
Contiguous ==
  /\ Len(inbox) <= home.imported
  /\ \A k \in 1..Len(inbox) : inbox[k] = relay[home.imported - Len(inbox) + k].id
InSendingOrder == \A j, k \in 1..Len(inbox) : j < k => inbox[j] < inbox[k]
ArrivesInOrder == Contiguous /\ InSendingOrder

(* Reports and messages arrive in order and once, heartbeats excepted.       *)
Unreceived == [i \in 1..(Len(relay) - home.imported) |->
                [id |-> relay[home.imported + i].id, kind |-> relay[home.imported + i].kind]]
AcceptedReports == {relay[i].id : i \in {j \in 1..Len(relay) : relay[j].kind = "worker_done"}}
SendableMessages == [id : 1..MaxSends, kind : {c.kind : c \in Contents}]

Channel == INSTANCE ReportChannel WITH
  Messages <- SendableMessages, accepted <- AcceptedReports, pending <- Unreceived,
  received <- inbox

ImplementsChannel == Channel!ChannelSpec

(* A report queued for a dispatch still active at home decides it.           *)
ReportQueued == \E i \in (home.imported + 1)..Len(relay) : relay[i].report.genuine
ReportIsDecided == (ReportQueued /\ home.state = "ready") ~> (home.state # "ready")

(* The worker's attachment learns the verdict.                               *)
VerdictReachesWorker ==
  (Modern /\ home.state \in Decided) ~> (worker.attached = home.state)

(* Stated by a test ("durably relays remote completion into the home Run"):  *)
(* a report the relay has taken is in the inbox or still to be imported.     *)
AcceptedReportIsDeliverable ==
  \A i \in 1..home.imported :
     relay[i].kind = "worker_done" => relay[i].id \in Range(inbox)

(* Stated by the stage 'remote_report_pending': a stop that found the worker *)
(* settled leaves the dispatch waiting for a report that is still to come.   *)
RemoteReportPending ==
  home.state = "ready" /\ worker.attached \in Decided => ReportQueued

(* Stated by a test ("retries a lost relay acknowledgment"): what home       *)
(* imported is acknowledged in the end, also when an answer was lost.        *)
LostAckIsRetried == (home.acked < home.imported) ~> (home.acked = home.imported)

(* Stated by the comment of resetMessages: the cursors survive, so what is   *)
(* queued after a reset is imported.                                         *)
RelaySurvivesReset ==
  (home.state = "ready" /\ home.imported < Len(relay))
     ~> (home.state # "ready" \/ home.imported = Len(relay))
=============================================================================
