------------------------ MODULE FederationRelayProofs ------------------------
(***************************************************************************)
(* Proofs about FederationRelay, for any queue, page and quota and any      *)
(* number of messages and faults: its types, that neither side forgets a    *)
(* report the other does not have, that both settle a dispatch alike and    *)
(* for good, and, while the queue is not full, that the relay implements    *)
(* ReportChannel and the inbox keeps the order of sending.                  *)
(*                                                                         *)
(* The import of a page is a function defined by recursion on the page.      *)
(* What it computes is shown by induction, which rests on the least element  *)
(* of a set of naturals: the induction rule of the library takes an operator *)
(* as its parameter, the existence of a minimum does not.                    *)
(***************************************************************************)
EXTENDS FederationRelay, FiniteSetTheorems, SequenceTheorems, WellFoundedInduction, TLAPS

-----------------------------------------------------------------------------
(* Induction, and the import of a page as a function.                        *)

\* Every non-empty set of naturals has a least element.
LEMMA LeastNat ==
  ASSUME NEW T, T \subseteq Nat, T # {}
  PROVE  \E n \in T : \A m \in T : n <= m
<1>1. PICK R : R = {ss \in Nat \X Nat : ss[1] < ss[2]}
  OBVIOUS
<1>2. \A i, j \in Nat : <<i, j>> \in R <=> i < j
  BY <1>1
<1>3. IsWellFoundedOn(R, Nat)
  BY <1>1, NatLessThanWellFounded, Zenon DEF OpToRel
<1>4. PICK n \in T : \A m \in T : ~(<<m, n>> \in R)
  BY <1>3, WFMin
<1>5. ASSUME NEW m \in T, ~(n <= m) PROVE FALSE
  <2>1. m \in Nat /\ n \in Nat /\ m < n
    BY <1>5
  <2>2. <<m, n>> \in R
    BY <1>1, <2>1
  <2> QED BY <1>4, <2>2
<1> QED BY <1>5

\* Induction on the naturals, for a property given as a set.
LEMMA Induct ==
  ASSUME NEW S, 0 \in S, \A n \in Nat : n \in S => n + 1 \in S
  PROVE  \A n \in Nat : n \in S
<1> SUFFICES ASSUME NEW k \in Nat \ S PROVE FALSE
  OBVIOUS
<1>1. PICK n \in Nat \ S : \A m \in Nat \ S : n <= m
  BY LeastNat
<1>2. n # 0 /\ n - 1 \in Nat
  BY <1>1
<1>3. n - 1 \in S
  BY <1>1, <1>2
<1>4. n \in S
  BY <1>2, <1>3
<1> QED BY <1>1, <1>4

(* The state an import starts from, and the states after each of n items.    *)
Base == [ok |-> TRUE, imported |-> home.imported, inbox |-> inbox,
                       state |-> home.state, settlements |-> {}]
Runs(d, base, first, items, n) ==
  d = [i \in 0 .. n |-> IF i = 0 THEN base
                                      ELSE ImportItem(d[i - 1], first + i - 1, items[i])]
\* ImportItem can be repeated along any page: the function Imports speaks of exists.
LEMMA ImportsExist ==
  ASSUME NEW base, NEW first, NEW items, NEW k \in Nat
  PROVE  \E d : Runs(d, base, first, items, k)
<1> DEFINE F(d, i) == IF i = 0 THEN base ELSE ImportItem(d[i - 1], first + i - 1, items[i])
           S == {n \in Nat : \E d : Runs(d, base, first, items, n)}
<1>1. 0 \in S
  <2> DEFINE e == [i \in 0 .. 0 |-> base]
  <2>1. Runs(e, base, first, items, 0)
    BY DEF Runs
  <2> QED BY <2>1
<1>2. ASSUME NEW n \in Nat, n \in S PROVE n + 1 \in S
  <2>1. PICK d : d = [i \in 0 .. n |-> F(d, i)]
    BY <1>2 DEF Runs
  <2> DEFINE G(i) == ImportItem(d[i - 1], first + i - 1, items[i])
             e == [i \in 0 .. n + 1 |-> IF i = 0 THEN base ELSE G(i)]
  <2>2. \A i \in 0 .. n : e[i] = d[i]
    BY <2>1
  <2> HIDE DEF e
  <2>3. ASSUME NEW i \in 0 .. n + 1, i # 0 PROVE e[i - 1] = d[i - 1]
    <3>1. i - 1 \in 0 .. n
      BY <2>3
    <3> QED BY <2>2, <3>1
  <2> USE DEF e
  <2>4. \A i \in 0 .. n + 1 : e[i] = F(e, i)
    <3> HIDE DEF e
    <3>1. \A i \in 0 .. n + 1 : e[i] = IF i = 0 THEN base ELSE G(i)
      BY DEF e
    <3> QED BY <2>3, <3>1
  <2>5. e = [i \in 0 .. n + 1 |-> F(e, i)]
    <3> HIDE DEF F, G
    <3> QED BY <2>4
  <2>6. Runs(e, base, first, items, n + 1)
    BY <2>5 DEF Runs
  <2> HIDE DEF e
  <2> QED BY <2>6
<1>3. k \in S
  <2> HIDE DEF S
  <2> QED BY <1>1, <1>2, Induct
<1> QED BY <1>3

\* Imports is the last value of such a function.
LEMMA ImportsUnfold ==
  ASSUME Len(sync.items) \in Nat
  PROVE \E d : /\ Runs(d, Base, sync.first, sync.items, Len(sync.items))
               /\ Imports = d[Len(sync.items)]
<1> DEFINE c == CHOOSE d : Runs(d, Base, sync.first, sync.items, Len(sync.items))
<1>1. \E d : Runs(d, Base, sync.first, sync.items, Len(sync.items))
  BY ImportsExist
<1>2. Imports = c[Len(sync.items)]
  BY Zenon DEF Imports, Runs, Base
<1>3. Runs(c, Base, sync.first, sync.items, Len(sync.items))
  BY <1>1, Zenon
<1> QED BY <1>2, <1>3, Zenon

-----------------------------------------------------------------------------
(* The inductive invariant.                                                  *)

\* Items of the queue: only a worker_done carries a report.
RelayItem == [id : Nat, kind : {"heartbeat", "status", "worker_done"}, report : Reports \cup {NoReport}]

Carries(x) == x.kind = "worker_done" <=> x.report # NoReport

\* The verdicts home gives on reports.
Verdicts == Decided \cup {"rejected"}
Settlement == [seq : Nat, verdict : Verdicts]

\* The rows of both databases, and the sync in memory.
WorkerRow == [attached : States \ {"stopping"}, acked : Nat, epoch : Nat, mail : Nat]
Point == [epoch : Nat, through : Nat]
HomeRow == [state : States, imported : Nat, acked : Nat, epoch : Nat, checkpoint : Point]
MailRow == [queued : Nat, acked : Nat]
SyncRow == [phase : {"idle", "pulled", "ack", "mail"}, first : Nat, items : Seq(RelayItem),
            epoch : Nat, settlements : SUBSET Settlement, pages : Nat]
Bounds == [sends : Nat, faults : Nat]

RelayShape ==
  /\ protocol \in Protocols
  /\ relay \in Seq(RelayItem)
  /\ \A i \in 1..Len(relay) : Carries(relay[i])
  /\ worker \in WorkerRow
  /\ \A r \in receipts : r.request.through \in Nat
  /\ home \in HomeRow
  /\ inbox \in Seq(Nat)
  /\ mail \in MailRow
  /\ sync \in SyncRow
  /\ bounds \in Bounds

\* Home remembers no more than the worker acknowledged and than it imported, and no
\* cursor passes the queue.
CursorsOrdered ==
  /\ worker.acked <= Len(relay) /\ home.imported <= Len(relay)
  /\ home.acked <= home.imported /\ home.acked <= worker.acked
  /\ home.checkpoint.through <= home.imported
  /\ mail.acked <= worker.mail /\ worker.mail <= mail.queued

\* What a receipt answers for was acknowledged.
ReceiptsServed == \A r \in receipts : ~r.pending => r.request.through <= worker.acked

\* The page in flight is what the queue held; since then a report may have taken
\* the place of a heartbeat, and nothing else.
PageIsQueued ==
  sync.phase # "idle" =>
    /\ sync.first >= 1 /\ Cursor <= Len(relay)
    /\ \A k \in 1..Len(sync.items) :
         relay[sync.first + k - 1] = sync.items[k] \/ sync.items[k].kind = "heartbeat"

\* An empty page starts at the cursor, and only what is imported is acknowledged.
ImportsPrecedeAck ==
  /\ sync.phase = "pulled" /\ sync.items = <<>> => sync.first = home.imported + 1
  /\ sync.phase = "ack" => Cursor <= home.imported

\* A verdict to be acknowledged is about a queued report and holds of the dispatch.
HoldOf(settlements, state) ==
  \A s \in settlements :
    /\ s.seq \in 1..Len(relay) /\ relay[s.seq].kind = "worker_done"
    /\ relay[s.seq].report.genuine => state # "ready"
    /\ s.verdict # "rejected" => state = s.verdict

SettlementsHold ==
  /\ sync.settlements # {} => Modern /\ sync.phase \in {"ack", "mail"}
  /\ HoldOf(sync.settlements, home.state)

RelayInv ==
  /\ RelayShape
  /\ CursorsOrdered
  /\ ReceiptsServed
  /\ PageIsQueued
  /\ ImportsPrecedeAck
  /\ SettlementsHold
  /\ AckedReportIsDecided
  /\ VerdictsAgree

-----------------------------------------------------------------------------
(* Importing a page.                                                         *)

(* After i items: the cursor passed them unless the import stopped, the      *)
(* dispatch was decided once at most, and each verdict so far holds.         *)
Prefix(h, i) ==
  /\ h \in [ok : BOOLEAN, imported : Nat, inbox : Seq(Nat), state : States,
            settlements : SUBSET Settlement]
  /\ home.imported <= h.imported /\ h.imported <= Len(relay)
  /\ h.ok /\ i > 0 => sync.first + i - 1 <= h.imported
  /\ h.state = home.state \/ (home.state = "ready" /\ h.state \in Decided)
  /\ HoldOf(h.settlements, h.state)

\* A verdict decides a dispatch only where nothing else decided it before.
LEMMA VerdictKinds ==
  ASSUME NEW st \in States, NEW r \in Reports \cup {NoReport}
  PROVE  /\ Verdict(st, r) \in Verdicts
         /\ r.genuine => st # "ready" \/ Verdict(st, r) # "rejected"
         /\ Verdict(st, r) # "rejected" => Verdict(st, r) \in Decided /\ st \in {"ready", Verdict(st, r)}
BY BoundsAssumption DEF Verdict, Verdicts, Decided, NoReport, States

\* The record an import has reached.
LEMMA ProgressTyped ==
  ASSUME NEW im \in Nat, NEW box \in Seq(Nat), NEW st \in States, NEW ss \in SUBSET Settlement
  PROVE  [ok |-> TRUE, imported |-> im, inbox |-> box, state |-> st, settlements |-> ss]
           \in [ok : BOOLEAN, imported : Nat, inbox : Seq(Nat), state : States,
               settlements : SUBSET Settlement]
OBVIOUS

\* One item is imported: Prefix is kept.
LEMMA ImportItemKeeps ==
  ASSUME RelayInv, sync.phase = "pulled", NEW i \in 1..Len(sync.items), NEW h, Prefix(h, i - 1)
  PROVE  Prefix(ImportItem(h, sync.first + i - 1, sync.items[i]), i)
<1> PICK seq : seq = sync.first + i - 1
  OBVIOUS
<1> PICK item : item = sync.items[i]
  OBVIOUS
<1> PICK g : g = ImportItem(h, seq, item)
  OBVIOUS
<1> PICK verdict : verdict = Verdict(h.state, item.report)
  OBVIOUS
<1>1. /\ seq \in 1..Len(relay) /\ item \in RelayItem
      /\ item.kind = "worker_done" => relay[seq] = item
      /\ Len(relay) \in Nat /\ home.imported \in Nat /\ sync.first \in Nat
  <2>1. /\ relay \in Seq(RelayItem) /\ sync.items \in Seq(RelayItem)
        /\ home.imported \in Nat /\ sync.first \in Nat /\ sync.first >= 1
        /\ sync.first + Len(sync.items) - 1 <= Len(relay)
        /\ \A k \in 1..Len(sync.items) :
             relay[sync.first + k - 1] = sync.items[k] \/ sync.items[k].kind = "heartbeat"
    BY DEF RelayInv, RelayShape, HomeRow, SyncRow, PageIsQueued, Cursor
  <2>2. Len(relay) \in Nat /\ Len(sync.items) \in Nat
    BY <2>1
  <2>3. item \in RelayItem
    BY <2>1
  <2>4. seq \in 1..Len(relay)
    BY <2>1, <2>2
  <2>5. item.kind = "worker_done" => relay[seq] = item
    BY <2>1
  <2> QED BY <2>1, <2>2, <2>3, <2>4, <2>5
<1>2. /\ verdict \in Verdicts
      /\ item.report.genuine => h.state # "ready" \/ verdict # "rejected"
      /\ verdict # "rejected" => verdict \in Decided /\ h.state \in {"ready", verdict}
  <2>1. h.state \in States /\ item.report \in Reports \cup {NoReport}
    BY <1>1 DEF Prefix, RelayItem
  <2> QED BY <2>1, VerdictKinds
<1>3. CASE ~h.ok \/ ~Importable(h, seq, item)
  <2>1. g = [h EXCEPT !.ok = FALSE]
    BY <1>3 DEF ImportItem
  <2> QED BY <2>1 DEF Prefix
<1>4. CASE h.ok /\ Importable(h, seq, item)
  <2>1. /\ g \in [ok : BOOLEAN, imported : Nat, inbox : Seq(Nat), state : States,
                  settlements : SUBSET Settlement]
        /\ g.imported = IF seq > h.imported THEN seq ELSE h.imported
        /\ g.state = IF item.kind = "worker_done" /\ verdict # "rejected" THEN verdict ELSE h.state
        /\ g.settlements = IF item.kind = "worker_done"
             THEN h.settlements \cup {[seq |-> seq, verdict |-> verdict]} ELSE h.settlements
    <3>1. g = [ok |-> TRUE,
               imported |-> IF seq > h.imported THEN seq ELSE h.imported,
               inbox |-> Filed(h.inbox, item),
               state |-> IF item.kind = "worker_done" /\ verdict # "rejected" THEN verdict ELSE h.state,
               settlements |-> IF item.kind = "worker_done"
                 THEN h.settlements \cup {[seq |-> seq, verdict |-> verdict]} ELSE h.settlements]
      BY <1>4 DEF ImportItem
    <3>2. /\ h.inbox \in Seq(Nat) /\ item.id \in Nat /\ h.imported \in Nat /\ seq \in Nat
          /\ h.state \in States /\ h.settlements \in SUBSET Settlement
      BY <1>1 DEF Prefix, RelayItem
    <3>3. verdict # "rejected" => verdict \in States
      BY <1>2 DEF States
    <3>4. [seq |-> seq, verdict |-> verdict] \in Settlement
      BY <1>2, <3>2 DEF Settlement
    <3>5. PICK box : box = Filed(h.inbox, item)
      OBVIOUS
    <3>6. box \in Seq(Nat)
      BY <3>2, <3>5 DEF Filed
    <3>7. PICK ss : ss = IF item.kind = "worker_done"
            THEN h.settlements \cup {[seq |-> seq, verdict |-> verdict]} ELSE h.settlements
      OBVIOUS
    <3>8. ss \in SUBSET Settlement
      BY <3>2, <3>4, <3>7
    <3>9. PICK im, st : /\ im = IF seq > h.imported THEN seq ELSE h.imported
                        /\ st = IF item.kind = "worker_done" /\ verdict # "rejected" THEN verdict
                                ELSE h.state
      OBVIOUS
    <3>10. im \in Nat /\ st \in States
      BY <3>2, <3>3, <3>9
    <3>11. g = [ok |-> TRUE, imported |-> im, inbox |-> box, state |-> st, settlements |-> ss]
      BY <3>1, <3>5, <3>7, <3>9, Zenon
    <3>12. g \in [ok : BOOLEAN, imported : Nat, inbox : Seq(Nat), state : States,
                  settlements : SUBSET Settlement]
      <4>1. [ok |-> TRUE, imported |-> im, inbox |-> box, state |-> st, settlements |-> ss]
             \in [ok : BOOLEAN, imported : Nat, inbox : Seq(Nat), state : States,
                 settlements : SUBSET Settlement]
        BY <3>6, <3>8, <3>10, ProgressTyped, Zenon
      <4> QED BY <3>11, <4>1, Zenon
    <3>13. g.imported = im /\ g.state = st /\ g.settlements = ss
      BY <3>11
    <3> QED BY <3>7, <3>9, <3>12, <3>13, Zenon
  <2>2. g.imported \in Nat /\ h.imported \in Nat /\ home.imported <= h.imported /\ h.imported <= Len(relay)
    BY <2>1 DEF Prefix
  <2>3. home.imported <= g.imported /\ g.imported <= Len(relay) /\ seq <= g.imported
    BY <1>1, <2>1, <2>2
  <2>4. g.state = h.state \/ (h.state = "ready" /\ g.state \in Decided)
    BY <1>2, <2>1
  <2>5. g.state = home.state \/ (home.state = "ready" /\ g.state \in Decided)
    BY <2>4 DEF Prefix, Decided
  <2>6. HoldOf(h.settlements, g.state)
    <3>1. \A s \in h.settlements : s.verdict \in Verdicts
      BY DEF Prefix, Settlement
    <3> QED BY <2>4, <3>1 DEF Prefix, HoldOf, Decided, Verdicts
  <2>7. ASSUME item.kind = "worker_done"
        PROVE  HoldOf({[seq |-> seq, verdict |-> verdict]}, g.state)
    BY <1>1, <1>2, <2>1, <2>7 DEF HoldOf, Decided
  <2>8. HoldOf(g.settlements, g.state)
    BY <2>1, <2>6, <2>7 DEF HoldOf
  <2> QED BY <2>1, <2>3, <2>5, <2>8 DEF Prefix
<1> QED BY <1>3, <1>4

\* The import of a whole page, however far it comes.
LEMMA ImportsKeep ==
  ASSUME RelayInv, sync.phase = "pulled"
  PROVE  Prefix(Imports, Len(sync.items))
<1>1. Len(sync.items) \in Nat
  BY DEF RelayInv, RelayShape, SyncRow
<1>2. PICK d : /\ Runs(d, Base, sync.first, sync.items, Len(sync.items))
               /\ Imports = d[Len(sync.items)]
  BY <1>1, ImportsUnfold
<1> DEFINE S == {n \in Nat : n <= Len(sync.items) => Prefix(d[n], n)}
<1>3. 0 \in S
  <2>1. d[0] = Base
    <3>1. 0 \in 0..Len(sync.items)
      BY <1>1
    <3> QED BY <1>1, <3>1, <1>2, Zenon DEF Runs
  <2>2. Prefix(Base, 0)
    <3>1. HoldOf({}, home.state)
      BY DEF HoldOf
    <3> QED BY <3>1 DEF Prefix, Base, RelayInv, RelayShape, HomeRow, CursorsOrdered
  <2> QED BY <2>1, <2>2
<1>4. ASSUME NEW n \in Nat, n \in S PROVE n + 1 \in S
  <2> SUFFICES ASSUME n + 1 <= Len(sync.items) PROVE Prefix(d[n + 1], n + 1)
    OBVIOUS
  <2>1. /\ n + 1 \in 1..Len(sync.items) /\ n + 1 \in 0..Len(sync.items)
        /\ (n + 1) - 1 = n /\ n + 1 # 0
    BY <1>1
  <2>2. d[n + 1] = ImportItem(d[(n + 1) - 1], sync.first + (n + 1) - 1, sync.items[n + 1])
    BY <1>2, <2>1, Zenon DEF Runs
  <2>3. Prefix(d[(n + 1) - 1], (n + 1) - 1)
    BY <1>1, <1>4, <2>1
  <2> QED BY <2>1, <2>2, <2>3, ImportItemKeeps
<1>5. Len(sync.items) \in S
  <2> HIDE DEF S
  <2> QED BY <1>1, <1>3, <1>4, Induct
<1> QED BY <1>1, <1>2, <1>5

-----------------------------------------------------------------------------
(* What the parts of the invariant need of a step.                           *)

\* A fault is counted.
LEMMA FaultCounted ==
  ASSUME RelayShape, NEW f, Fault(f)
  PROVE  bounds' \in Bounds
BY DEF RelayShape, Fault, Bounds

\* The sync between pages and between runs.
LEMMA IdleTyped == Idle \in SyncRow /\ NextPage.phase = "idle" /\ NextPage.settlements = {}
<1>1. <<>> \in Seq(RelayItem) /\ {} \in SUBSET Settlement /\ 0 \in Nat
  OBVIOUS
<1>2. MaxPages \in Nat
  BY BoundsAssumption
<1>3. Idle \in SyncRow
  BY <1>1, <1>2 DEF Idle, SyncRow
<1> QED BY <1>3 DEF NextPage, Idle

\* The next page of a sync is a sync record.
LEMMA NextPageTyped ==
  ASSUME sync \in SyncRow
  PROVE  NextPage \in SyncRow
<1>1. sync.pages \in Nat
  BY DEF SyncRow
<1>2. sync.pages > 1 => sync.pages - 1 \in Nat
  BY <1>1
<1> QED BY <1>1, <1>2, IdleTyped DEF NextPage, Idle, SyncRow

\* Nothing is in flight between syncs.
LEMMA BetweenSyncs ==
  ASSUME sync'.phase = "idle", sync'.settlements = {}
  PROVE  PageIsQueued' /\ ImportsPrecedeAck' /\ SettlementsHold'
BY DEF PageIsQueued, ImportsPrecedeAck, SettlementsHold, HoldOf

(* A decided dispatch stays as it is; another may become ready again only    *)
(* under an older protocol.                                                  *)
Moves ==
  home'.state = home.state \/ (home.state \notin Decided /\ (Modern => home'.state # "ready"))

\* What is in flight stays right while the queue and the cursor stay.
LEMMA SyncKept ==
  ASSUME RelayInv, UNCHANGED <<protocol, relay, sync>>, home'.imported = home.imported, Moves
  PROVE  PageIsQueued' /\ ImportsPrecedeAck' /\ SettlementsHold'
<1>1. PageIsQueued' /\ ImportsPrecedeAck'
  BY DEF RelayInv, PageIsQueued, ImportsPrecedeAck, Cursor
<1>2. Modern' <=> Modern
  BY DEF Modern
<1>3. \A s \in sync.settlements : s.verdict \in Verdicts
  BY DEF RelayInv, RelayShape, SyncRow, Settlement
<1>4. HoldOf(sync.settlements, home'.state)
  BY <1>3 DEF RelayInv, SettlementsHold, HoldOf, Moves, Verdicts
<1>5. SettlementsHold'
  BY <1>2, <1>4 DEF RelayInv, SettlementsHold, HoldOf
<1> QED BY <1>1, <1>5

\* The reports acknowledged stay decided.
LEMMA AckedKept ==
  ASSUME RelayInv, UNCHANGED <<protocol, relay>>, worker'.acked = worker.acked, Moves
  PROVE  AckedReportIsDecided'
BY DEF RelayInv, AckedReportIsDecided, Moves, Modern, Decided

\* The attachment stays settled as home decided.
LEMMA AgreementKept ==
  ASSUME RelayInv, UNCHANGED protocol, Moves,
         worker'.attached = worker.attached \/ worker'.attached \notin Decided
  PROVE  VerdictsAgree'
BY DEF RelayInv, VerdictsAgree, Moves, Modern

(* Assembling the invariant after a step that leaves the queue alone.        *)
LEMMA InvAssembled ==
  ASSUME RelayInv, UNCHANGED <<protocol, relay>>,
         worker' \in WorkerRow, home' \in HomeRow, inbox' \in Seq(Nat), mail' \in MailRow,
         sync' \in SyncRow, bounds' \in Bounds, \A r \in receipts' : r.request.through \in Nat,
         CursorsOrdered', ReceiptsServed', PageIsQueued' /\ ImportsPrecedeAck' /\ SettlementsHold',
         AckedReportIsDecided', VerdictsAgree'
  PROVE  RelayInv'
<1>1. RelayShape'
  BY DEF RelayInv, RelayShape
<1> QED BY <1>1 DEF RelayInv

(* A step that leaves the queue, its acknowledgment and its import alone,    *)
(* and ends the sync or leaves it as it is.                                  *)
Apart ==
  /\ UNCHANGED <<protocol, relay, receipts>>
  /\ worker' \in WorkerRow /\ home' \in HomeRow /\ inbox' \in Seq(Nat) /\ mail' \in MailRow
  /\ bounds' \in Bounds
  /\ worker'.acked = worker.acked /\ home'.imported = home.imported /\ home'.acked = home.acked
  /\ worker'.attached = worker.attached \/ worker'.attached \notin Decided
  /\ home'.checkpoint.through \in {0, home.checkpoint.through}
  /\ mail'.acked <= worker'.mail /\ worker'.mail <= mail'.queued
  /\ sync' \in {sync, Idle, NextPage}

\* Steps of the faults, the mail and the stop are such steps.
LEMMA ApartKeeps ==
  ASSUME RelayInv, Apart, Moves
  PROVE  RelayInv'
<1>1. home \in HomeRow /\ sync \in SyncRow /\ \A r \in receipts : r.request.through \in Nat
  BY DEF RelayInv, RelayShape
<1>2. CursorsOrdered'
  <2>1. home.imported \in Nat /\ home.checkpoint.through \in Nat
    BY <1>1 DEF HomeRow, Point
  <2>2. home'.checkpoint.through <= home.imported
    BY <2>1 DEF RelayInv, CursorsOrdered, Apart
  <2> QED BY <2>2 DEF RelayInv, CursorsOrdered, Apart
<1>3. ReceiptsServed'
  BY DEF RelayInv, ReceiptsServed, Apart
<1>4. sync' \in SyncRow
  BY <1>1, IdleTyped, NextPageTyped DEF Apart
<1>5. PageIsQueued' /\ ImportsPrecedeAck' /\ SettlementsHold'
  <2>1. CASE sync' = sync
    BY <2>1, SyncKept DEF Apart
  <2>2. CASE sync' # sync
    <3>1. sync'.phase = "idle" /\ sync'.settlements = {}
      BY <2>2, IdleTyped DEF Apart, Idle
    <3> QED BY <3>1, BetweenSyncs
  <2> QED BY <2>1, <2>2
<1>6. AckedReportIsDecided' /\ VerdictsAgree'
  BY AckedKept, AgreementKept DEF Apart
<1> QED BY <1>1, <1>2, <1>3, <1>4, <1>5, <1>6, InvAssembled DEF Apart

\* Home queues control mail.
LEMMA SendMailKeeps ==
  ASSUME RelayInv, SendMail
  PROVE  RelayInv'
<1>1. /\ worker \in WorkerRow /\ home \in HomeRow /\ mail \in MailRow /\ inbox \in Seq(Nat)
      /\ bounds \in Bounds
  BY DEF RelayInv, RelayShape
<1>2. worker' \in WorkerRow /\ home' \in HomeRow
  <2>1. worker.epoch \in Nat /\ worker.epoch + 1 \in Nat
    BY <1>1 DEF WorkerRow
  <2> QED BY <1>1, <2>1 DEF SendMail, WorkerHasMail, WorkerRow, HomeRow, Point, MailRow, States, Decided
<1>3. inbox' \in Seq(Nat) /\ mail' \in MailRow /\ bounds' \in Bounds
  BY <1>1 DEF SendMail, MailRow
<1>4. /\ worker'.acked = worker.acked /\ home'.imported = home.imported /\ home'.acked = home.acked
      /\ worker'.attached = worker.attached \/ worker'.attached \notin Decided
      /\ home'.checkpoint.through \in {0, home.checkpoint.through} /\ Moves
  BY <1>1 DEF RelayInv, VerdictsAgree, SendMail, Moves, WorkerHasMail, WorkerRow, HomeRow, Decided
<1>5. mail'.acked <= worker'.mail /\ worker'.mail <= mail'.queued
  <2>1. worker.mail \in Nat /\ mail.queued \in Nat /\ mail.acked \in Nat
    BY <1>1 DEF WorkerRow, MailRow
  <2> QED BY <1>1, <2>1 DEF RelayInv, CursorsOrdered, SendMail, WorkerHasMail, MailRow, WorkerRow
<1>6. Apart
  BY <1>2, <1>3, <1>4, <1>5 DEF Apart, SendMail
<1> QED BY <1>4, <1>6, ApartKeeps

\* A restart of home ends the sync and forgets the checkpoint.
LEMMA HomeRestartKeeps ==
  ASSUME RelayInv, HomeRestart
  PROVE  RelayInv'
<1>1. /\ worker \in WorkerRow /\ home \in HomeRow /\ mail \in MailRow /\ inbox \in Seq(Nat)
      /\ bounds \in Bounds
  BY DEF RelayInv, RelayShape
<1>2. worker' \in WorkerRow /\ home' \in HomeRow
  <2>1. worker.epoch \in Nat /\ worker.epoch + 1 \in Nat
    BY <1>1 DEF WorkerRow
  <2> QED BY <1>1, <2>1 DEF HomeRestart, WorkerHasMail, WorkerRow, HomeRow, Point, MailRow, States, Decided
<1>3. inbox' \in Seq(Nat) /\ mail' \in MailRow /\ bounds' \in Bounds
  BY <1>1, FaultCounted DEF RelayInv, HomeRestart, MailRow
<1>4. /\ worker'.acked = worker.acked /\ home'.imported = home.imported /\ home'.acked = home.acked
      /\ worker'.attached = worker.attached \/ worker'.attached \notin Decided
      /\ home'.checkpoint.through \in {0, home.checkpoint.through} /\ Moves
  BY <1>1 DEF RelayInv, VerdictsAgree, HomeRestart, Moves, WorkerHasMail, WorkerRow, HomeRow, Decided
<1>5. mail'.acked <= worker'.mail /\ worker'.mail <= mail'.queued
  <2>1. worker.mail \in Nat /\ mail.queued \in Nat /\ mail.acked \in Nat
    BY <1>1 DEF WorkerRow, MailRow
  <2> QED BY <1>1, <2>1 DEF RelayInv, CursorsOrdered, HomeRestart, WorkerHasMail, MailRow, WorkerRow
<1>6. Apart
  BY <1>2, <1>3, <1>4, <1>5 DEF Apart, HomeRestart
<1> QED BY <1>4, <1>6, ApartKeeps

\* A restart of the worker's runtime begins a new epoch.
LEMMA WorkerRestartKeeps ==
  ASSUME RelayInv, WorkerRestart
  PROVE  RelayInv'
<1>1. /\ worker \in WorkerRow /\ home \in HomeRow /\ mail \in MailRow /\ inbox \in Seq(Nat)
      /\ bounds \in Bounds
  BY DEF RelayInv, RelayShape
<1>2. worker' \in WorkerRow /\ home' \in HomeRow
  <2>1. worker.epoch \in Nat /\ worker.epoch + 1 \in Nat
    BY <1>1 DEF WorkerRow
  <2> QED BY <1>1, <2>1 DEF WorkerRestart, WorkerHasMail, WorkerRow, HomeRow, Point, MailRow, States, Decided
<1>3. inbox' \in Seq(Nat) /\ mail' \in MailRow /\ bounds' \in Bounds
  BY <1>1, FaultCounted DEF RelayInv, WorkerRestart, MailRow
<1>4. /\ worker'.acked = worker.acked /\ home'.imported = home.imported /\ home'.acked = home.acked
      /\ worker'.attached = worker.attached \/ worker'.attached \notin Decided
      /\ home'.checkpoint.through \in {0, home.checkpoint.through} /\ Moves
  BY <1>1 DEF RelayInv, VerdictsAgree, WorkerRestart, Moves, WorkerHasMail, WorkerRow, HomeRow, Decided
<1>5. mail'.acked <= worker'.mail /\ worker'.mail <= mail'.queued
  <2>1. worker.mail \in Nat /\ mail.queued \in Nat /\ mail.acked \in Nat
    BY <1>1 DEF WorkerRow, MailRow
  <2> QED BY <1>1, <2>1 DEF RelayInv, CursorsOrdered, WorkerRestart, WorkerHasMail, MailRow, WorkerRow
<1>6. Apart
  BY <1>2, <1>3, <1>4, <1>5 DEF Apart, WorkerRestart
<1> QED BY <1>4, <1>6, ApartKeeps

\* A reset empties the inbox.
LEMMA ResetMessagesKeeps ==
  ASSUME RelayInv, ResetMessages
  PROVE  RelayInv'
<1>1. /\ worker \in WorkerRow /\ home \in HomeRow /\ mail \in MailRow /\ inbox \in Seq(Nat)
      /\ bounds \in Bounds
  BY DEF RelayInv, RelayShape
<1>2. worker' \in WorkerRow /\ home' \in HomeRow
  <2>1. worker.epoch \in Nat /\ worker.epoch + 1 \in Nat
    BY <1>1 DEF WorkerRow
  <2> QED BY <1>1, <2>1 DEF ResetMessages, WorkerHasMail, WorkerRow, HomeRow, Point, MailRow, States, Decided
<1>3. inbox' \in Seq(Nat) /\ mail' \in MailRow /\ bounds' \in Bounds
  BY <1>1, FaultCounted DEF RelayInv, ResetMessages, MailRow
<1>4. /\ worker'.acked = worker.acked /\ home'.imported = home.imported /\ home'.acked = home.acked
      /\ worker'.attached = worker.attached \/ worker'.attached \notin Decided
      /\ home'.checkpoint.through \in {0, home.checkpoint.through} /\ Moves
  BY <1>1 DEF RelayInv, VerdictsAgree, ResetMessages, Moves, WorkerHasMail, WorkerRow, HomeRow, Decided
<1>5. mail'.acked <= worker'.mail /\ worker'.mail <= mail'.queued
  <2>1. worker.mail \in Nat /\ mail.queued \in Nat /\ mail.acked \in Nat
    BY <1>1 DEF WorkerRow, MailRow
  <2> QED BY <1>1, <2>1 DEF RelayInv, CursorsOrdered, ResetMessages, WorkerHasMail, MailRow, WorkerRow
<1>6. Apart
  BY <1>2, <1>3, <1>4, <1>5 DEF Apart, ResetMessages
<1> QED BY <1>4, <1>6, ApartKeeps

\* A refused acknowledgment ends the sync.
LEMMA AckRefusedKeeps ==
  ASSUME RelayInv, AckRefused
  PROVE  RelayInv'
<1>1. /\ worker \in WorkerRow /\ home \in HomeRow /\ mail \in MailRow /\ inbox \in Seq(Nat)
      /\ bounds \in Bounds
  BY DEF RelayInv, RelayShape
<1>2. worker' \in WorkerRow /\ home' \in HomeRow
  <2>1. worker.epoch \in Nat /\ worker.epoch + 1 \in Nat
    BY <1>1 DEF WorkerRow
  <2> QED BY <1>1, <2>1 DEF AckRefused, WorkerHasMail, WorkerRow, HomeRow, Point, MailRow, States, Decided
<1>3. inbox' \in Seq(Nat) /\ mail' \in MailRow /\ bounds' \in Bounds
  BY <1>1 DEF AckRefused, MailRow
<1>4. /\ worker'.acked = worker.acked /\ home'.imported = home.imported /\ home'.acked = home.acked
      /\ worker'.attached = worker.attached \/ worker'.attached \notin Decided
      /\ home'.checkpoint.through \in {0, home.checkpoint.through} /\ Moves
  BY <1>1 DEF RelayInv, VerdictsAgree, AckRefused, Moves, WorkerHasMail, WorkerRow, HomeRow, Decided
<1>5. mail'.acked <= worker'.mail /\ worker'.mail <= mail'.queued
  <2>1. worker.mail \in Nat /\ mail.queued \in Nat /\ mail.acked \in Nat
    BY <1>1 DEF WorkerRow, MailRow
  <2> QED BY <1>1, <2>1 DEF RelayInv, CursorsOrdered, AckRefused, WorkerHasMail, MailRow, WorkerRow
<1>6. Apart
  BY <1>2, <1>3, <1>4, <1>5 DEF Apart, AckRefused
<1> QED BY <1>4, <1>6, ApartKeeps

\* Home blocks the task of a worker it stops.
LEMMA BeginStopKeeps ==
  ASSUME RelayInv, BeginStop
  PROVE  RelayInv'
<1>1. /\ worker \in WorkerRow /\ home \in HomeRow /\ mail \in MailRow /\ inbox \in Seq(Nat)
      /\ bounds \in Bounds
  BY DEF RelayInv, RelayShape
<1>2. worker' \in WorkerRow /\ home' \in HomeRow
  <2>1. worker.epoch \in Nat /\ worker.epoch + 1 \in Nat
    BY <1>1 DEF WorkerRow
  <2> QED BY <1>1, <2>1 DEF BeginStop, WorkerHasMail, WorkerRow, HomeRow, Point, MailRow, States, Decided
<1>3. inbox' \in Seq(Nat) /\ mail' \in MailRow /\ bounds' \in Bounds
  BY <1>1 DEF BeginStop, MailRow
<1>4. /\ worker'.acked = worker.acked /\ home'.imported = home.imported /\ home'.acked = home.acked
      /\ worker'.attached = worker.attached \/ worker'.attached \notin Decided
      /\ home'.checkpoint.through \in {0, home.checkpoint.through} /\ Moves
  BY <1>1 DEF RelayInv, VerdictsAgree, BeginStop, Moves, WorkerHasMail, WorkerRow, HomeRow, Decided
<1>5. mail'.acked <= worker'.mail /\ worker'.mail <= mail'.queued
  <2>1. worker.mail \in Nat /\ mail.queued \in Nat /\ mail.acked \in Nat
    BY <1>1 DEF WorkerRow, MailRow
  <2> QED BY <1>1, <2>1 DEF RelayInv, CursorsOrdered, BeginStop, WorkerHasMail, MailRow, WorkerRow
<1>6. Apart
  BY <1>2, <1>3, <1>4, <1>5 DEF Apart, BeginStop
<1> QED BY <1>4, <1>6, ApartKeeps

\* A stop ends a live worker, or finds it settled under an older protocol.
LEMMA StopKeeps ==
  ASSUME RelayInv, Stop
  PROVE  RelayInv'
<1>1. /\ worker \in WorkerRow /\ home \in HomeRow /\ mail \in MailRow /\ inbox \in Seq(Nat)
      /\ bounds \in Bounds
  BY DEF RelayInv, RelayShape
<1>2. worker' \in WorkerRow /\ home' \in HomeRow
  <2>1. worker.epoch \in Nat /\ worker.epoch + 1 \in Nat
    BY <1>1 DEF WorkerRow
  <2> QED BY <1>1, <2>1 DEF Stop, WorkerHasMail, WorkerRow, HomeRow, Point, MailRow, States, Decided
<1>3. inbox' \in Seq(Nat) /\ mail' \in MailRow /\ bounds' \in Bounds
  BY <1>1 DEF Stop, MailRow
<1>4. /\ worker'.acked = worker.acked /\ home'.imported = home.imported /\ home'.acked = home.acked
      /\ worker'.attached = worker.attached \/ worker'.attached \notin Decided
      /\ home'.checkpoint.through \in {0, home.checkpoint.through} /\ Moves
  BY <1>1 DEF RelayInv, VerdictsAgree, Stop, Moves, WorkerHasMail, WorkerRow, HomeRow, Decided
<1>5. mail'.acked <= worker'.mail /\ worker'.mail <= mail'.queued
  <2>1. worker.mail \in Nat /\ mail.queued \in Nat /\ mail.acked \in Nat
    BY <1>1 DEF WorkerRow, MailRow
  <2> QED BY <1>1, <2>1 DEF RelayInv, CursorsOrdered, Stop, WorkerHasMail, MailRow, WorkerRow
<1>6. Apart
  BY <1>2, <1>3, <1>4, <1>5 DEF Apart, Stop
<1> QED BY <1>4, <1>6, ApartKeeps

\* A stop whose answer is lost leaves home in doubt.
LEMMA StopInDoubtKeeps ==
  ASSUME RelayInv, StopInDoubt
  PROVE  RelayInv'
<1>1. /\ worker \in WorkerRow /\ home \in HomeRow /\ mail \in MailRow /\ inbox \in Seq(Nat)
      /\ bounds \in Bounds
  BY DEF RelayInv, RelayShape
<1>2. worker' \in WorkerRow /\ home' \in HomeRow
  <2>1. worker.epoch \in Nat /\ worker.epoch + 1 \in Nat
    BY <1>1 DEF WorkerRow
  <2> QED BY <1>1, <2>1 DEF StopInDoubt, WorkerHasMail, WorkerRow, HomeRow, Point, MailRow, States, Decided
<1>3. inbox' \in Seq(Nat) /\ mail' \in MailRow /\ bounds' \in Bounds
  BY <1>1, FaultCounted DEF RelayInv, StopInDoubt, MailRow
<1>4. /\ worker'.acked = worker.acked /\ home'.imported = home.imported /\ home'.acked = home.acked
      /\ worker'.attached = worker.attached \/ worker'.attached \notin Decided
      /\ home'.checkpoint.through \in {0, home.checkpoint.through} /\ Moves
  BY <1>1 DEF RelayInv, VerdictsAgree, StopInDoubt, Moves, WorkerHasMail, WorkerRow, HomeRow, Decided
<1>5. mail'.acked <= worker'.mail /\ worker'.mail <= mail'.queued
  <2>1. worker.mail \in Nat /\ mail.queued \in Nat /\ mail.acked \in Nat
    BY <1>1 DEF WorkerRow, MailRow
  <2> QED BY <1>1, <2>1 DEF RelayInv, CursorsOrdered, StopInDoubt, WorkerHasMail, MailRow, WorkerRow
<1>6. Apart
  BY <1>2, <1>3, <1>4, <1>5 DEF Apart, StopInDoubt
<1> QED BY <1>4, <1>6, ApartKeeps

\* Mail is delivered and the page, or the sync, ends.
LEMMA DeliverMailKeeps ==
  ASSUME RelayInv, DeliverMail
  PROVE  RelayInv'
<1>1. /\ worker \in WorkerRow /\ home \in HomeRow /\ mail \in MailRow /\ inbox \in Seq(Nat)
      /\ bounds \in Bounds
  BY DEF RelayInv, RelayShape
<1>2. worker' \in WorkerRow /\ home' \in HomeRow
  <2>1. worker.epoch \in Nat /\ worker.epoch + 1 \in Nat
    BY <1>1 DEF WorkerRow
  <2> QED BY <1>1, <2>1 DEF DeliverMail, WorkerHasMail, WorkerRow, HomeRow, Point, MailRow, States, Decided
<1>3. inbox' \in Seq(Nat) /\ mail' \in MailRow /\ bounds' \in Bounds
  BY <1>1 DEF DeliverMail, MailRow
<1>4. /\ worker'.acked = worker.acked /\ home'.imported = home.imported /\ home'.acked = home.acked
      /\ worker'.attached = worker.attached \/ worker'.attached \notin Decided
      /\ home'.checkpoint.through \in {0, home.checkpoint.through} /\ Moves
  BY <1>1 DEF RelayInv, VerdictsAgree, DeliverMail, Moves, WorkerHasMail, WorkerRow, HomeRow, Decided
<1>5. mail'.acked <= worker'.mail /\ worker'.mail <= mail'.queued
  <2>1. worker.mail \in Nat /\ mail.queued \in Nat /\ mail.acked \in Nat
    BY <1>1 DEF WorkerRow, MailRow
  <2> QED BY <1>1, <2>1 DEF RelayInv, CursorsOrdered, DeliverMail, WorkerHasMail, MailRow, WorkerRow
<1>6. Apart
  BY <1>2, <1>3, <1>4, <1>5 DEF Apart, DeliverMail
<1> QED BY <1>4, <1>6, ApartKeeps

\* A lost delivery ends the sync, whether or not the worker took the mail.
LEMMA LoseMailKeeps ==
  ASSUME RelayInv, LoseMail
  PROVE  RelayInv'
<1>1. /\ worker \in WorkerRow /\ home \in HomeRow /\ mail \in MailRow /\ inbox \in Seq(Nat)
      /\ bounds \in Bounds
  BY DEF RelayInv, RelayShape
<1>2. worker' \in WorkerRow /\ home' \in HomeRow
  <2>1. worker.epoch \in Nat /\ worker.epoch + 1 \in Nat
    BY <1>1 DEF WorkerRow
  <2> QED BY <1>1, <2>1 DEF LoseMail, WorkerHasMail, WorkerRow, HomeRow, Point, MailRow, States, Decided
<1>3. inbox' \in Seq(Nat) /\ mail' \in MailRow /\ bounds' \in Bounds
  BY <1>1, FaultCounted DEF RelayInv, LoseMail, MailRow
<1>4. /\ worker'.acked = worker.acked /\ home'.imported = home.imported /\ home'.acked = home.acked
      /\ worker'.attached = worker.attached \/ worker'.attached \notin Decided
      /\ home'.checkpoint.through \in {0, home.checkpoint.through} /\ Moves
  BY <1>1 DEF RelayInv, VerdictsAgree, LoseMail, Moves, WorkerHasMail, WorkerRow, HomeRow, Decided
<1>5. mail'.acked <= worker'.mail /\ worker'.mail <= mail'.queued
  <2>1. worker.mail \in Nat /\ mail.queued \in Nat /\ mail.acked \in Nat /\ mail' = mail
    BY <1>1 DEF WorkerRow, MailRow, LoseMail
  <2>2. worker' = worker \/ worker' = WorkerHasMail
    BY DEF LoseMail
  <2>3. \/ worker'.mail = worker.mail
        \/ worker'.mail = IF mail.queued > worker.mail THEN mail.queued ELSE worker.mail
    BY <1>1, <2>2 DEF WorkerHasMail, WorkerRow
  <2> QED BY <2>1, <2>3 DEF RelayInv, CursorsOrdered
<1>6. Apart
  BY <1>2, <1>3, <1>4, <1>5 DEF Apart, LoseMail
<1> QED BY <1>4, <1>6, ApartKeeps

-----------------------------------------------------------------------------
(* Pulling and importing.                                                   *)

\* Only a report names its task.
LEMMA GenuineIsReport ==
  ASSUME RelayShape, NEW i \in 1..Len(relay), relay[i].report.genuine
  PROVE  relay[i].kind = "worker_done"
<1>1. relay[i] \in RelayItem /\ Carries(relay[i])
  BY DEF RelayShape
<1>2. relay[i].report # NoReport
  BY DEF NoReport
<1> QED BY <1>1, <1>2 DEF Carries

(* The page in flight is what the queue holds.                               *)
PageIsExact ==
  sync.phase # "idle" => \A k \in 1..Len(sync.items) : relay[sync.first + k - 1] = sync.items[k]

\* A pull takes a page off the queue, exactly as it stands there.
LEMMA PullKeeps ==
  ASSUME RelayInv, Pull
  PROVE  RelayInv' /\ PageIsExact'
<1>1. /\ worker \in WorkerRow /\ home \in HomeRow /\ mail \in MailRow /\ sync \in SyncRow
      /\ relay \in Seq(RelayItem)
      /\ inbox \in Seq(Nat) /\ bounds \in Bounds /\ \A r \in receipts : r.request.through \in Nat
      /\ UNCHANGED <<protocol, relay, worker, receipts, home, inbox, mail, bounds>>
  BY DEF RelayInv, RelayShape, Pull
<1>2. PICK from : from = PullFrom
  OBVIOUS
<1>3. /\ from \in Nat /\ from >= 1 /\ from <= Len(relay) + 1 /\ Len(relay) \in Nat
      /\ home.imported \in Nat /\ home.imported <= Len(relay)
  BY <1>1, <1>2 DEF PullFrom, WorkerRow, HomeRow, RelayInv, CursorsOrdered
<1>4. PICK size : size = IF Page < Cardinality(from..Len(relay)) THEN Page
                         ELSE Cardinality(from..Len(relay))
  OBVIOUS
<1>5. size \in Nat /\ from + size - 1 <= Len(relay)
  <2>1. Cardinality(from..Len(relay)) = IF from > Len(relay) THEN 0 ELSE Len(relay) - from + 1
    <3>1. from \in Int /\ Len(relay) \in Int
      BY <1>3
    <3> QED BY <3>1, FS_Interval, Zenon
  <2>2. Page \in Nat
    BY BoundsAssumption
  <2> QED BY <1>3, <1>4, <2>1, <2>2
<1>6. PICK items : items = [i \in 1..size |-> relay[from + i - 1]]
  OBVIOUS
<1>7. /\ items \in Seq(RelayItem) /\ Len(items) = size
      /\ \A k \in 1..size : items[k] = relay[from + k - 1]
  <2>1. \A k \in 1..size : from + k - 1 \in 1..Len(relay)
    BY <1>3, <1>5
  <2>2. \A k \in 1..size : relay[from + k - 1] \in RelayItem
    BY <1>1, <2>1
  <2> QED BY <1>5, <1>6, <2>2
<1>8. PICK first : first = IF Modern /\ items # <<>> THEN from ELSE home.imported + 1
  OBVIOUS
<1>9. /\ first \in Nat /\ first >= 1
      /\ first + Len(items) - 1 <= Len(relay)
      /\ items = <<>> => first = home.imported + 1
      /\ items # <<>> => first = from
  <2>1. ~Modern => from = home.imported + 1
    BY <1>2 DEF PullFrom
  <2>2. items = <<>> => Len(items) = 0
    OBVIOUS
  <2> QED BY <1>3, <1>5, <1>7, <1>8, <2>1, <2>2
<1>10. sync' = [sync EXCEPT !.phase = "pulled", !.items = items, !.epoch = worker.epoch, !.first = first]
  BY <1>2, <1>4, <1>6, <1>8, Zenon DEF Pull
<1>11. /\ sync' \in SyncRow /\ sync'.phase = "pulled" /\ sync'.items = items /\ sync'.first = first
       /\ sync'.settlements = sync.settlements
  BY <1>1, <1>7, <1>9, <1>10 DEF SyncRow, WorkerRow
<1>12. Len(sync'.items) = size /\ Cursor' = first + Len(items) - 1
  BY <1>7, <1>11 DEF Cursor
<1>13. PageIsQueued' /\ PageIsExact'
  <2>1. \A k \in 1..size : relay'[first + k - 1] = items[k]
    <3>1. items = <<>> => size = 0
      BY <1>7
    <3> QED BY <1>1, <1>5, <1>7, <1>9, <3>1
  <2> QED BY <1>1, <1>7, <1>9, <1>11, <1>12, <2>1 DEF PageIsQueued, PageIsExact
<1>14. ImportsPrecedeAck'
  BY <1>1, <1>9, <1>11 DEF ImportsPrecedeAck
<1>15. SettlementsHold'
  <2>1. sync.phase = "idle"
    BY DEF Pull
  <2>2. sync'.settlements = {}
    BY <1>11, <2>1 DEF RelayInv, SettlementsHold
  <2> QED BY <2>2 DEF SettlementsHold, HoldOf
<1>16. CursorsOrdered' /\ ReceiptsServed'
  BY <1>1 DEF RelayInv, CursorsOrdered, ReceiptsServed
<1>17. AckedReportIsDecided' /\ VerdictsAgree'
  BY <1>1 DEF RelayInv, AckedReportIsDecided, VerdictsAgree, Modern
<1> QED BY <1>1, <1>11, <1>13, <1>14, <1>15, <1>16, <1>17, InvAssembled

\* An import moves the cursor, may decide the dispatch and collects the verdicts.
LEMMA ImportKeeps ==
  ASSUME RelayInv, Import
  PROVE  RelayInv'
<1>1. /\ worker \in WorkerRow /\ home \in HomeRow /\ mail \in MailRow /\ sync \in SyncRow
      /\ relay \in Seq(RelayItem)
      /\ inbox \in Seq(Nat) /\ bounds \in Bounds /\ \A r \in receipts : r.request.through \in Nat
      /\ UNCHANGED <<protocol, relay, worker, receipts, mail, bounds>>
  BY DEF RelayInv, RelayShape, Import
<1>2. PICK h : h = Imports
  OBVIOUS
<1>3. Prefix(h, Len(sync.items))
  BY <1>2, ImportsKeep DEF Import
<1>4. h \in [ok : BOOLEAN, imported : Nat, inbox : Seq(Nat), state : States,
             settlements : SUBSET Settlement]
  BY <1>3 DEF Prefix
<1>5. /\ inbox' = h.inbox /\ home' = [home EXCEPT !.state = h.state, !.imported = h.imported]
      /\ sync' = IF ~h.ok THEN Idle
                 ELSE [sync EXCEPT !.phase = IF Cursor > KnownAcked THEN "ack" ELSE "mail",
                         !.settlements = IF Modern THEN h.settlements ELSE {}]
  BY <1>2 DEF Import
<1>6. /\ home' \in HomeRow /\ home'.state = h.state /\ home'.imported = h.imported
      /\ home'.acked = home.acked /\ home'.checkpoint = home.checkpoint
  BY <1>1, <1>4, <1>5 DEF HomeRow
<1>7. Moves
  BY <1>3, <1>6 DEF Prefix, Moves, Decided
<1>8. /\ home.imported \in Nat /\ h.imported \in Nat /\ home.acked \in Nat
      /\ home.checkpoint.through \in Nat /\ Len(relay) \in Nat
      /\ home.imported <= h.imported /\ h.imported <= Len(relay)
  BY <1>1, <1>3, <1>4 DEF HomeRow, Point, Prefix
<1>9. CursorsOrdered' /\ ReceiptsServed'
  BY <1>1, <1>6, <1>8 DEF RelayInv, CursorsOrdered, ReceiptsServed
<1>10. AckedReportIsDecided' /\ VerdictsAgree'
  BY <1>1, <1>7, AckedKept, AgreementKept
<1>11. sync' \in SyncRow /\ PageIsQueued' /\ ImportsPrecedeAck' /\ SettlementsHold'
  <2>1. CASE ~h.ok
    <3>1. sync' = Idle
      BY <1>5, <2>1
    <3>2. sync'.phase = "idle" /\ sync'.settlements = {}
      BY <3>1 DEF Idle
    <3> QED BY <3>1, <3>2, IdleTyped, BetweenSyncs
  <2>2. CASE h.ok
    <3>1. PICK phase \in {"ack", "mail"}, ss \in SUBSET Settlement :
            /\ sync' = [sync EXCEPT !.phase = phase, !.settlements = ss]
            /\ ss = IF Modern THEN h.settlements ELSE {}
      <4>1. sync' = [sync EXCEPT !.phase = IF Cursor > KnownAcked THEN "ack" ELSE "mail",
                       !.settlements = IF Modern THEN h.settlements ELSE {}]
        BY <1>5, <2>2
      <4>2. h.settlements \in SUBSET Settlement
        BY <1>4
      <4> QED BY <4>1, <4>2
    <3>2. /\ sync' \in SyncRow /\ sync'.phase = phase /\ sync'.settlements = ss
          /\ sync'.first = sync.first /\ sync'.items = sync.items
      BY <1>1, <3>1 DEF SyncRow
    <3>3. Cursor' = Cursor /\ sync.phase = "pulled"
      BY <3>2 DEF Cursor, Import
    <3>4. PageIsQueued'
      BY <1>1, <3>2, <3>3 DEF RelayInv, PageIsQueued
    <3>5. sync.first \in Nat /\ Len(sync.items) \in Nat
      BY <1>1 DEF SyncRow
    <3>6. Cursor <= h.imported
      <4>1. CASE Len(sync.items) > 0
        BY <1>3, <2>2, <3>5, <4>1 DEF Prefix, Cursor
      <4>2. CASE Len(sync.items) = 0
        <5>1. sync.items = <<>>
          BY <1>1, <4>2 DEF SyncRow
        <5>2. sync.first = home.imported + 1
          BY <3>3, <5>1 DEF RelayInv, ImportsPrecedeAck
        <5> QED BY <1>8, <4>2, <5>2 DEF Cursor
      <4> QED BY <3>5, <4>1, <4>2
    <3>7. ImportsPrecedeAck'
      BY <1>6, <3>2, <3>3, <3>6 DEF ImportsPrecedeAck
    <3>8. HoldOf(ss, h.state)
      BY <1>3, <3>1 DEF Prefix, HoldOf
    <3>9. SettlementsHold'
      BY <1>1, <1>6, <3>1, <3>2, <3>8 DEF SettlementsHold, HoldOf, Modern
    <3> QED BY <3>2, <3>4, <3>7, <3>9
  <2> QED BY <2>1, <2>2
<1>12. inbox' \in Seq(Nat)
  BY <1>4, <1>5
<1> QED BY <1>1, <1>6, <1>9, <1>10, <1>11, <1>12, InvAssembled

-----------------------------------------------------------------------------
(* What an acknowledgment may leave the worker with.                         *)
AckedRight(v) ==
  /\ v \in WorkerRow /\ v.mail = worker.mail
  /\ worker.acked <= v.acked /\ v.acked <= Len(relay)
  /\ Modern => \A i \in 1..v.acked : relay[i].report.genuine => home.state # "ready"
  /\ Modern /\ v.attached \in Decided => home.state = v.attached

\* The cursor of an acknowledgment, and what home will remember of it.
LEMMA CursorBounds ==
  ASSUME RelayInv, sync.phase = "ack"
  PROVE  /\ Cursor \in Nat /\ Remembered \in Nat /\ Remembered <= Cursor
         /\ Cursor <= home.imported /\ Cursor <= Len(relay)
<1>1. /\ sync.first \in Nat /\ sync.first >= 1 /\ sync.items \in Seq(RelayItem)
  BY DEF RelayInv, RelayShape, SyncRow, PageIsQueued
<1>2. Len(sync.items) \in Nat /\ Page \in Nat /\ Page > 0
  BY <1>1, BoundsAssumption
<1>3. Cursor \in Nat /\ (Len(sync.items) = Page => Cursor - 1 \in Nat)
  BY <1>1, <1>2 DEF Cursor
<1>4. Remembered \in {Cursor, Cursor - 1} /\ (Remembered # Cursor => Len(sync.items) = Page)
  BY DEF Remembered
<1>5. Cursor <= home.imported /\ Cursor <= Len(relay)
  BY DEF RelayInv, ImportsPrecedeAck, PageIsQueued
<1> QED BY <1>3, <1>4, <1>5

\* The worker as it is.
LEMMA UnchangedRight ==
  ASSUME RelayInv
  PROVE  AckedRight(worker)
<1>1. worker \in WorkerRow /\ worker.acked \in Nat
  BY DEF RelayInv, RelayShape, WorkerRow
<1> QED BY <1>1 DEF RelayInv, CursorsOrdered, AckedReportIsDecided, VerdictsAgree, AckedRight

\* An acknowledgment that is served: each report it passes has a verdict, and the
\* attachment takes the only one that decided.
LEMMA AcknowledgedRight ==
  ASSUME RelayInv, sync.phase = "ack", AckValid
  PROVE  AckedRight(Acknowledged) /\ Cursor <= Acknowledged.acked
<1>1. /\ worker \in WorkerRow /\ worker.acked \in Nat /\ worker.acked <= Len(relay)
      /\ Len(relay) \in Nat /\ sync.settlements \in SUBSET Settlement
  BY DEF RelayInv, RelayShape, WorkerRow, SyncRow, CursorsOrdered
<1>2. Cursor \in Nat /\ Cursor <= Len(relay)
  BY CursorBounds
<1>3. PICK acked : acked = IF Cursor > worker.acked THEN Cursor ELSE worker.acked
  OBVIOUS
<1>4. acked \in Nat /\ acked <= Len(relay) /\ worker.acked <= acked /\ Cursor <= acked
  BY <1>1, <1>2, <1>3
<1>5. PICK attached : attached = IF Terminal = {} THEN worker.attached
                                 ELSE (CHOOSE s \in Terminal : TRUE).verdict
  OBVIOUS
<1>6. attached = worker.attached \/ (attached \in Decided /\ home.state = attached)
  <2>1. CASE Terminal = {}
    BY <1>5, <2>1
  <2>2. CASE Terminal # {}
    <3>1. PICK s \in Terminal : s = CHOOSE t \in Terminal : TRUE
      BY <2>2
    <3>2. s \in sync.settlements /\ s.verdict # "rejected"
      BY <3>1 DEF Terminal
    <3>3. s.verdict \in Decided
      BY <1>1, <3>2 DEF Settlement, Verdicts
    <3>4. home.state = s.verdict
      BY <3>2 DEF RelayInv, SettlementsHold, HoldOf
    <3> QED BY <1>5, <2>2, <3>1, <3>3, <3>4
  <2> QED BY <2>1, <2>2
<1>7. PICK v : v = Acknowledged
  OBVIOUS
<1>8. v = [worker EXCEPT !.acked = acked, !.attached = attached]
  BY <1>3, <1>5, <1>7, Zenon DEF Acknowledged
<1>9. attached \in States \ {"stopping"}
  BY <1>1, <1>6 DEF WorkerRow, States, Decided
<1>10. v \in WorkerRow /\ v.acked = acked /\ v.attached = attached /\ v.mail = worker.mail
  BY <1>1, <1>4, <1>8, <1>9 DEF WorkerRow
<1>11. ASSUME Modern, NEW i \in 1..acked, relay[i].report.genuine PROVE home.state # "ready"
  <2>1. CASE i <= worker.acked
    BY <1>1, <1>11, <2>1 DEF RelayInv, AckedReportIsDecided
  <2>2. CASE ~(i <= worker.acked)
    <3>1. i \in 1..Len(relay) /\ i \in Unacked /\ i <= Cursor
      BY <1>1, <1>2, <1>3, <1>4, <2>2 DEF Unacked
    <3>2. relay[i].kind = "worker_done"
      BY <1>11, <3>1, GenuineIsReport DEF RelayInv
    <3>3. PICK s \in sync.settlements : s.seq = i
      BY <1>11, <3>1, <3>2 DEF AckValid, Complete
    <3> QED BY <1>11, <3>3 DEF RelayInv, SettlementsHold, HoldOf
  <2> QED BY <2>1, <2>2
<1>12. Modern /\ attached \in Decided => home.state = attached
  BY <1>6 DEF RelayInv, VerdictsAgree
<1> QED BY <1>4, <1>7, <1>10, <1>11, <1>12 DEF AckedRight

(* A receipt of this acknowledgment: it answers only for what took effect.   *)
Noted(r, v) == r.request.through = Cursor /\ (r.pending \/ Cursor <= v.acked)

\* An acknowledgment that answers, now or from its receipt.
LEMMA ServedRight ==
  ASSUME RelayInv, sync.phase = "ack", Served
  PROVE  /\ AckedRight(worker') /\ Cursor <= worker'.acked
         /\ \A r \in receipts' : r \in receipts \/ Noted(r, worker')
<1>1. CASE Replayed /\ UNCHANGED <<worker, receipts>>
  <2>1. PICK r \in receipts : r.request.through = Cursor /\ ~r.pending
    BY <1>1 DEF Replayed, Earlier
  <2>2. Cursor <= worker.acked
    BY <2>1 DEF RelayInv, ReceiptsServed
  <2> QED BY <1>1, <2>2, UnchangedRight
<1>2. CASE /\ Earlier = {} /\ AckValid /\ worker' = Acknowledged
           /\ receipts' = receipts \cup {[request |-> Request, pending |-> FALSE]}
  <2>1. PICK r : r = [request |-> Request, pending |-> FALSE]
    OBVIOUS
  <2>2. r.request.through = Cursor
    BY <2>1 DEF Request
  <2>3. AckedRight(worker') /\ Cursor <= worker'.acked
    BY <1>2, AcknowledgedRight
  <2>4. Noted(r, worker')
    BY <2>2, <2>3 DEF Noted
  <2>5. \A q \in receipts' : q \in receipts \/ q = r
    BY <1>2, <2>1
  <2> QED BY <2>3, <2>4, <2>5
<1> QED BY <1>1, <1>2 DEF Served

(* An acknowledgment that only moves the worker on.                          *)
LEMMA AckedRightKept ==
  ASSUME RelayInv, UNCHANGED <<protocol, relay, inbox, mail>>, NEW v, AckedRight(v),
         \/ worker' = v
         \/ worker' = [v EXCEPT !.epoch = @ + 1],
         home'.state = home.state
  PROVE  /\ worker' \in WorkerRow /\ worker'.acked = v.acked /\ worker'.mail = worker.mail
         /\ AckedReportIsDecided' /\ VerdictsAgree'
<1>1. v \in WorkerRow /\ v.epoch \in Nat /\ v.epoch + 1 \in Nat
  BY DEF AckedRight, WorkerRow
<1>2. /\ worker' \in WorkerRow /\ worker'.acked = v.acked /\ worker'.attached = v.attached
      /\ worker'.mail = v.mail
  BY <1>1 DEF WorkerRow
<1>3. Modern' <=> Modern
  BY DEF Modern
<1>4. AckedReportIsDecided'
  BY <1>2, <1>3 DEF AckedRight, AckedReportIsDecided
<1>5. VerdictsAgree'
  BY <1>2, <1>3 DEF AckedRight, VerdictsAgree
<1> QED BY <1>2, <1>4, <1>5 DEF AckedRight

(* Receipts after an acknowledgment, whether it was served or noted only.    *)
LEMMA ReceiptsKept ==
  ASSUME RelayInv, sync.phase = "ack", NEW v, worker.acked <= v.acked, v.acked \in Nat,
         worker'.acked = v.acked, \A r \in receipts' : r \in receipts \/ Noted(r, v)
  PROVE  ReceiptsServed' /\ \A r \in receipts' : r.request.through \in Nat
<1>1. Cursor \in Nat
  BY CursorBounds
<1>2. worker.acked \in Nat /\ \A s \in receipts : s.request.through \in Nat
  BY DEF RelayInv, RelayShape, WorkerRow
<1> QED BY <1>1, <1>2 DEF RelayInv, ReceiptsServed, Noted

\* Home records an acknowledgment that was answered.
LEMMA AckKeeps ==
  ASSUME RelayInv, Ack
  PROVE  RelayInv'
<1>1. /\ worker \in WorkerRow /\ home \in HomeRow /\ mail \in MailRow /\ sync \in SyncRow
      /\ inbox \in Seq(Nat) /\ bounds \in Bounds
      /\ UNCHANGED <<protocol, relay, inbox, mail, bounds>>
      /\ sync.phase = "ack" /\ Served /\ home' = Recorded /\ sync' = [sync EXCEPT !.phase = "mail"]
  BY DEF RelayInv, RelayShape, Ack
<1>2. /\ AckedRight(worker') /\ Cursor <= worker'.acked
      /\ \A r \in receipts' : r \in receipts \/ Noted(r, worker')
  BY <1>1, ServedRight
<1>3. /\ Cursor \in Nat /\ Remembered \in Nat /\ Remembered <= Cursor /\ Cursor <= home.imported
      /\ home.imported \in Nat /\ home.acked \in Nat /\ home.checkpoint \in Point /\ sync.epoch \in Nat
      /\ worker.acked \in Nat /\ worker'.acked \in Nat
      /\ worker.acked <= worker'.acked /\ worker'.acked <= Len(relay)
      /\ home.imported <= Len(relay) /\ home.acked <= worker.acked /\ home.acked <= home.imported
      /\ home.checkpoint.through \in Nat /\ home.checkpoint.through <= home.imported
  BY <1>1, <1>2, CursorBounds DEF HomeRow, Point, WorkerRow, SyncRow, AckedRight, RelayInv, CursorsOrdered
<1>4. PICK acked, point :
        /\ acked = IF home.epoch = sync.epoch /\ home.acked > Remembered THEN home.acked ELSE Remembered
        /\ point = IF home.checkpoint.epoch = sync.epoch /\ home.checkpoint.through >= Remembered
                   THEN home.checkpoint ELSE [epoch |-> sync.epoch, through |-> Remembered]
  OBVIOUS
<1>5. /\ acked \in Nat /\ point \in Point
      /\ acked <= home.imported /\ acked <= worker'.acked /\ point.through <= home.imported
  <2>1. acked \in {home.acked, Remembered}
    BY <1>4
  <2>2. [epoch |-> sync.epoch, through |-> Remembered] \in Point
    BY <1>3 DEF Point
  <2>3. point \in Point /\ point.through \in {home.checkpoint.through, Remembered}
    BY <1>3, <1>4, <2>2
  <2>4. acked <= home.imported /\ acked <= worker'.acked
    BY <1>2, <1>3, <2>1
  <2>5. point.through <= home.imported
    BY <1>3, <2>3
  <2> QED BY <1>3, <2>1, <2>3, <2>4, <2>5
<1>6. home' = [home EXCEPT !.epoch = sync.epoch, !.acked = acked, !.checkpoint = point]
  BY <1>1, <1>4, Zenon DEF Recorded
<1>7. /\ home' \in HomeRow /\ home'.state = home.state /\ home'.imported = home.imported
      /\ home'.acked = acked /\ home'.checkpoint = point
  BY <1>1, <1>3, <1>5, <1>6 DEF HomeRow
<1>8. worker' \in WorkerRow /\ worker'.mail = worker.mail /\ AckedReportIsDecided' /\ VerdictsAgree'
  BY <1>1, <1>2, <1>7, AckedRightKept
<1>9. CursorsOrdered'
  BY <1>1, <1>3, <1>5, <1>7, <1>8 DEF RelayInv, CursorsOrdered
<1>10. ReceiptsServed' /\ \A r \in receipts' : r.request.through \in Nat
  BY <1>1, <1>2, <1>3, ReceiptsKept
<1>11. /\ sync' \in SyncRow /\ sync'.phase = "mail" /\ sync'.first = sync.first
       /\ sync'.items = sync.items /\ sync'.settlements = sync.settlements
  BY <1>1 DEF SyncRow
<1>12. PageIsQueued' /\ ImportsPrecedeAck' /\ SettlementsHold'
  <2>1. Cursor' = Cursor /\ (Modern' <=> Modern)
    BY <1>1, <1>11 DEF Cursor, Modern
  <2>2. PageIsQueued' /\ ImportsPrecedeAck'
    BY <1>1, <1>11, <2>1 DEF RelayInv, PageIsQueued, ImportsPrecedeAck
  <2>3. SettlementsHold'
    BY <1>1, <1>7, <1>11, <2>1 DEF RelayInv, SettlementsHold, HoldOf
  <2> QED BY <2>2, <2>3
<1> QED BY <1>1, <1>7, <1>8, <1>9, <1>10, <1>11, <1>12, InvAssembled

(* What a lost acknowledgment leaves: the worker as it was or moved on, with *)
(* or without a restart, and a receipt that answers or only stands.          *)
LeftBy(v) ==
  /\ AckedRight(v)
  /\ worker' = v \/ worker' = [v EXCEPT !.epoch = @ + 1]
  /\ \A r \in receipts' : r \in receipts \/ Noted(r, v)

\* An acknowledgment is lost: home records nothing, whatever the worker did.
LEMMA LoseAckKeeps ==
  ASSUME RelayInv, LoseAck
  PROVE  RelayInv'
<1>1. /\ worker \in WorkerRow /\ home \in HomeRow /\ mail \in MailRow /\ sync \in SyncRow
      /\ inbox \in Seq(Nat) /\ home.imported \in Nat
      /\ UNCHANGED <<protocol, relay, home, inbox, mail>>
      /\ sync.phase = "ack" /\ sync' = Idle
  BY DEF RelayInv, RelayShape, HomeRow, LoseAck
<1>2. bounds' \in Bounds
  BY FaultCounted DEF RelayInv, LoseAck
<1>3. sync' \in SyncRow /\ PageIsQueued' /\ ImportsPrecedeAck' /\ SettlementsHold'
  <2>1. sync'.phase = "idle" /\ sync'.settlements = {}
    BY <1>1 DEF Idle
  <2> QED BY <1>1, <2>1, IdleTyped, BetweenSyncs
<1>4. PICK v : LeftBy(v)
  <2>1. CASE UNCHANGED <<worker, receipts>>
    <3>1. LeftBy(worker)
      BY <2>1, UnchangedRight DEF LeftBy
    <3> QED BY <3>1
  <2>2. CASE Served
    <3>1. LeftBy(worker')
      BY <1>1, <2>2, ServedRight DEF LeftBy
    <3> QED BY <3>1
  <2>3. CASE /\ receipts' = receipts \cup {[request |-> Request, pending |-> TRUE]}
             /\ \E w \in {worker} \cup {v \in {Acknowledged} : AckValid} :
                  worker' = [w EXCEPT !.epoch = @ + 1]
    <3>1. PICK w \in {worker} \cup {v \in {Acknowledged} : AckValid} :
            worker' = [w EXCEPT !.epoch = @ + 1]
      BY <2>3
    <3>2. AckedRight(w)
      BY <1>1, UnchangedRight, AcknowledgedRight
    <3>3. PICK r : r = [request |-> Request, pending |-> TRUE]
      OBVIOUS
    <3>4. r.request.through = Cursor /\ r.pending
      BY <3>3 DEF Request
    <3>5. \A q \in receipts' : q \in receipts \/ Noted(q, w)
      BY <2>3, <3>3, <3>4 DEF Noted
    <3>6. LeftBy(w)
      BY <3>1, <3>2, <3>5 DEF LeftBy
    <3> QED BY <3>6
  <2> QED BY <2>1, <2>2, <2>3 DEF LoseAck
<1>5. /\ worker' \in WorkerRow /\ worker'.acked = v.acked /\ worker'.mail = worker.mail
      /\ AckedReportIsDecided' /\ VerdictsAgree'
  BY <1>1, <1>4, AckedRightKept DEF LeftBy
<1>6. worker'.acked \in Nat /\ worker.acked <= worker'.acked /\ worker'.acked <= Len(relay)
      /\ worker.acked \in Nat
  BY <1>1, <1>4, <1>5 DEF LeftBy, AckedRight, WorkerRow
<1>7. CursorsOrdered'
  <2>1. home.acked \in Nat
    BY <1>1 DEF HomeRow
  <2> QED BY <1>1, <1>5, <1>6, <2>1 DEF RelayInv, CursorsOrdered
<1>8. ReceiptsServed' /\ \A r \in receipts' : r.request.through \in Nat
  BY <1>1, <1>4, <1>5, <1>6, ReceiptsKept DEF LeftBy
<1> QED BY <1>1, <1>2, <1>3, <1>5, <1>7, <1>8, InvAssembled

-----------------------------------------------------------------------------
(* Sending.                                                                  *)

\* The heartbeat a report may replace is queued and was not acknowledged.
LEMMA OldestIsOpen ==
  ASSUME RelayShape, OpenBeats # {}
  PROVE  /\ Oldest(OpenBeats) \in OpenBeats
         /\ Oldest(OpenBeats) \in 1..Len(relay) /\ Oldest(OpenBeats) > worker.acked
         /\ relay[Oldest(OpenBeats)].kind = "heartbeat"
<1>1. worker.acked \in Nat /\ Len(relay) \in Nat
  BY DEF RelayShape, WorkerRow
<1>2. OpenBeats \subseteq Nat
  BY <1>1 DEF OpenBeats, Unacked
<1>3. Oldest(OpenBeats) \in OpenBeats
  <2>1. \E i \in OpenBeats : \A j \in OpenBeats : i <= j
    BY <1>2, LeastNat
  <2> QED BY <2>1 DEF Oldest
<1> QED BY <1>1, <1>3 DEF OpenBeats, Unacked

(* A step of the queue: items are appended, or take a heartbeat's place      *)
(* that was not acknowledged.                                                *)
Extends ==
  /\ relay' \in Seq(RelayItem) /\ Len(relay) <= Len(relay')
  /\ \A i \in 1..Len(relay') : Carries(relay'[i])
  /\ \A i \in 1..Len(relay) :
       relay'[i] = relay[i] \/ (i > worker.acked /\ relay[i].kind = "heartbeat")

\* What the agent sends makes an item of the queue.
LEMMA ItemTyped ==
  ASSUME NEW c \in Contents, NEW id \in Nat
  PROVE  Item(id, c) \in RelayItem /\ Carries(Item(id, c))
<1>1. CASE c \in {Beat, Status}
  BY <1>1 DEF Beat, Status, Item, RelayItem, Carries
<1>2. CASE \E r \in Reports : c = Done(r)
  <2>1. PICK r \in Reports : c = Done(r)
    BY <1>2
  <2>2. r # NoReport
    BY BoundsAssumption DEF NoReport
  <2> QED BY <2>1, <2>2 DEF Done, Item, RelayItem, Carries
<1> QED BY <1>1, <1>2 DEF Contents

\* Sending appends, or takes the place of a heartbeat nobody acknowledged.
LEMMA SendExtends ==
  ASSUME RelayInv, NEW c \in Contents, Send(c)
  PROVE  Extends
<1>1. relay \in Seq(RelayItem) /\ Len(relay) \in Nat /\ \A i \in 1..Len(relay) : Carries(relay[i])
  BY DEF RelayInv, RelayShape
<1>2. bounds.sends + 1 \in Nat
  BY DEF RelayInv, RelayShape, Bounds
<1>3. PICK item : item = Item(bounds.sends + 1, c)
  OBVIOUS
<1>4. item \in RelayItem /\ Carries(item)
  BY <1>2, <1>3, ItemTyped
<1>5. CASE relay' = relay
  BY <1>1, <1>5 DEF Extends
<1>6. CASE relay' = Append(relay, item)
  BY <1>1, <1>4, <1>6 DEF Extends
<1>7. CASE OpenBeats # {} /\ relay' = [relay EXCEPT ![Oldest(OpenBeats)] = item]
  <2>1. PICK o : o = Oldest(OpenBeats)
    OBVIOUS
  <2>2. o \in 1..Len(relay) /\ o > worker.acked /\ relay[o].kind = "heartbeat"
    BY <1>7, <2>1, OldestIsOpen DEF RelayInv
  <2>3. relay' = [relay EXCEPT ![o] = item]
    BY <1>7, <2>1
  <2>4. relay' \in Seq(RelayItem) /\ Len(relay') = Len(relay)
    BY <1>1, <1>4, <2>2, <2>3
  <2>5. \A i \in 1..Len(relay) : relay'[i] = IF i = o THEN item ELSE relay[i]
    BY <1>1, <2>2, <2>3
  <2> QED BY <1>1, <1>4, <2>2, <2>4, <2>5 DEF Extends
<1>8. /\ Merged(c) \/ HasRoom(c)
      /\ relay' = IF Merged(c) THEN relay ELSE Enqueued(item)
  BY <1>3 DEF Send
<1> QED BY <1>5, <1>6, <1>7, <1>8 DEF HasRoom, Enqueued

\* Sending keeps the invariant: what is in flight or settled is not replaced.
LEMMA SendKeeps ==
  ASSUME RelayInv, NEW c \in Contents, Send(c)
  PROVE  RelayInv'
<1>1. /\ worker \in WorkerRow /\ home \in HomeRow /\ sync \in SyncRow
      /\ relay \in Seq(RelayItem)
      /\ UNCHANGED <<protocol, receipts, home, inbox, mail, sync>>
  BY DEF RelayInv, RelayShape, Send
<1>2. Extends
  BY SendExtends
<1>3. /\ Len(relay) \in Nat /\ Len(relay') \in Nat /\ Len(relay) <= Len(relay')
      /\ worker.acked \in Nat /\ worker.acked <= Len(relay)
      /\ home.imported \in Nat /\ home.imported <= Len(relay)
  BY <1>1, <1>2 DEF Extends, WorkerRow, HomeRow, RelayInv, CursorsOrdered
<1>4. bounds' \in Bounds
  BY DEF Send, RelayInv, RelayShape, Bounds
<1>5. /\ worker' \in WorkerRow /\ worker'.acked = worker.acked /\ worker'.mail = worker.mail
      /\ Modern => worker'.attached = worker.attached
  <2>1. SettledOnSend(c) \in States \ {"stopping"} /\ (Modern => SettledOnSend(c) = worker.attached)
    <3>1. CASE c.kind = "worker_done" /\ ~Modern
      <4>1. PICK r \in Reports : c = Done(r)
        BY <3>1 DEF Contents, Beat, Status
      <4>2. c.report.outcome \in Decided
        BY <4>1, BoundsAssumption DEF Done, Decided
      <4> QED BY <3>1, <4>2 DEF SettledOnSend, States, Decided
    <3>2. CASE ~(c.kind = "worker_done" /\ ~Modern)
      BY <1>1, <3>2 DEF SettledOnSend, WorkerRow
    <3> QED BY <3>1, <3>2
  <2>2. worker' = [worker EXCEPT !.attached = SettledOnSend(c)]
    BY DEF Send
  <2> QED BY <1>1, <2>1, <2>2 DEF WorkerRow
<1>6. RelayShape'
  BY <1>1, <1>2, <1>4, <1>5 DEF RelayInv, RelayShape, Extends
<1>7. CursorsOrdered' /\ ReceiptsServed' /\ ImportsPrecedeAck'
  BY <1>1, <1>3, <1>5 DEF RelayInv, CursorsOrdered, ReceiptsServed, ImportsPrecedeAck, Cursor
<1>8. PageIsQueued'
  <2>1. Cursor' = Cursor
    BY <1>1 DEF Cursor
  <2>2. /\ sync.first \in Nat /\ Len(sync.items) \in Nat
        /\ Cursor = sync.first + Len(sync.items) - 1
    BY <1>1 DEF SyncRow, Cursor
  <2>3. ASSUME sync.phase # "idle", NEW k \in 1..Len(sync.items)
        PROVE  relay'[sync.first + k - 1] = sync.items[k] \/ sync.items[k].kind = "heartbeat"
    <3>1. sync.first + k - 1 \in 1..Len(relay)
      BY <1>3, <2>2, <2>3 DEF RelayInv, PageIsQueued
    <3>2. relay[sync.first + k - 1] = sync.items[k] \/ sync.items[k].kind = "heartbeat"
      BY <2>3 DEF RelayInv, PageIsQueued
    <3>3. \/ relay'[sync.first + k - 1] = relay[sync.first + k - 1]
          \/ relay[sync.first + k - 1].kind = "heartbeat"
      BY <1>2, <3>1 DEF Extends
    <3> QED BY <3>2, <3>3
  <2>4. sync.phase # "idle" => sync.first >= 1 /\ Cursor <= Len(relay')
    BY <1>3, <2>2 DEF RelayInv, PageIsQueued
  <2> QED BY <1>1, <2>1, <2>3, <2>4 DEF PageIsQueued
<1>9. SettlementsHold'
  <2>1. ASSUME NEW s \in sync.settlements
        PROVE  s.seq \in 1..Len(relay') /\ relay'[s.seq] = relay[s.seq]
    <3>1. s.seq \in 1..Len(relay) /\ relay[s.seq].kind = "worker_done"
      BY DEF RelayInv, SettlementsHold, HoldOf
    <3> QED BY <1>2, <1>3, <3>1 DEF Extends
  <2>2. Modern' <=> Modern
    BY <1>1 DEF Modern
  <2> QED BY <1>1, <2>1, <2>2 DEF RelayInv, SettlementsHold, HoldOf
<1>10. AckedReportIsDecided'
  <2>1. \A i \in 1..worker.acked : relay'[i] = relay[i]
    BY <1>2, <1>3 DEF Extends
  <2> QED BY <1>1, <1>5, <2>1 DEF RelayInv, AckedReportIsDecided, Modern
<1>11. VerdictsAgree'
  BY <1>1, <1>5 DEF RelayInv, VerdictsAgree, Modern
<1> QED BY <1>6, <1>7, <1>8, <1>9, <1>10, <1>11 DEF RelayInv

-----------------------------------------------------------------------------
(* The invariant and what follows from it.                                   *)

\* The invariant holds at the start.
LEMMA RelayInit == Init => RelayInv
<1> SUFFICES ASSUME Init PROVE RelayInv
  OBVIOUS
<1>1. /\ relay = <<>> /\ receipts = {} /\ inbox = <<>> /\ sync = Idle /\ protocol \in Protocols
      /\ worker = [attached |-> "ready", acked |-> 0, epoch |-> 1, mail |-> 0]
      /\ home = [state |-> "ready", imported |-> 0, acked |-> 0, epoch |-> 1,
                 checkpoint |-> [epoch |-> 0, through |-> 0]]
      /\ mail = [queued |-> 0, acked |-> 0] /\ bounds = [sends |-> 0, faults |-> 0]
  BY DEF Init
<1>2. sync.phase = "idle" /\ sync.settlements = {}
  BY <1>1 DEF Idle
<1>3. RelayShape
  <2>1. worker \in WorkerRow /\ home \in HomeRow /\ mail \in MailRow /\ bounds \in Bounds
    BY <1>1 DEF WorkerRow, HomeRow, Point, MailRow, Bounds, States
  <2>2. relay \in Seq(RelayItem) /\ Len(relay) = 0 /\ inbox \in Seq(Nat)
    BY <1>1
  <2>3. \A i \in 1..Len(relay) : Carries(relay[i])
    BY <2>2
  <2> QED BY <1>1, <2>1, <2>2, <2>3, IdleTyped DEF RelayShape
<1>4. CursorsOrdered /\ ReceiptsServed /\ AckedReportIsDecided /\ VerdictsAgree
  BY <1>1 DEF CursorsOrdered, ReceiptsServed, AckedReportIsDecided, VerdictsAgree, Decided
<1>5. PageIsQueued /\ ImportsPrecedeAck /\ SettlementsHold
  BY <1>2 DEF PageIsQueued, ImportsPrecedeAck, SettlementsHold, HoldOf
<1> QED BY <1>3, <1>4, <1>5 DEF RelayInv

\* Every step keeps the invariant.
LEMMA RelayStep == RelayInv /\ [Next]_vars => RelayInv'
<1> SUFFICES ASSUME RelayInv, [Next]_vars PROVE RelayInv'
  OBVIOUS
<1>1. CASE UNCHANGED vars
  BY <1>1 DEF vars, RelayInv, RelayShape, CursorsOrdered, ReceiptsServed, PageIsQueued,
     ImportsPrecedeAck, SettlementsHold, HoldOf, AckedReportIsDecided, VerdictsAgree, Cursor, Modern
<1>2. CASE Next
  BY <1>2, SendKeeps, PullKeeps, ImportKeeps, AckKeeps, AckRefusedKeeps, DeliverMailKeeps,
     LoseAckKeeps, SendMailKeeps, LoseMailKeeps, BeginStopKeeps, StopKeeps, StopInDoubtKeeps,
     HomeRestartKeeps, WorkerRestartKeeps, ResetMessagesKeeps DEF Next, Syncing
<1> QED BY <1>1, <1>2

\* The inductive invariant.
LEMMA RelayInvAlways == Spec => []RelayInv
BY RelayInit, RelayStep, PTL DEF Spec

\* The types follow from it.
LEMMA InvGivesTypes == RelayInv => RelayTypeOK
<1> SUFFICES ASSUME RelayInv PROVE RelayTypeOK
  OBVIOUS
<1>1. /\ relay \in Seq(RelayItem) /\ \A i \in 1..Len(relay) : Carries(relay[i])
      /\ worker \in WorkerRow /\ home \in HomeRow /\ mail \in MailRow /\ sync \in SyncRow
      /\ protocol \in Protocols
  BY DEF RelayInv, RelayShape
<1>2. ASSUME NEW i \in 1..Len(relay)
      PROVE  \E c \in Contents : relay[i] = Item(relay[i].id, c)
  <2>1. PICK x \in RelayItem : x = relay[i] /\ Carries(x)
    BY <1>1
  <2>2. x = [id |-> x.id, kind |-> x.kind, report |-> x.report]
    BY <2>1 DEF RelayItem
  <2>3. CASE x.kind = "heartbeat"
    <3>1. x = Item(x.id, Beat)
      BY <2>1, <2>2, <2>3 DEF Carries, Item, Beat
    <3> QED BY <2>1, <3>1 DEF Contents
  <2>4. CASE x.kind = "status"
    <3>1. x = Item(x.id, Status)
      BY <2>1, <2>2, <2>4 DEF Carries, Item, Status
    <3> QED BY <2>1, <3>1 DEF Contents
  <2>5. CASE x.kind = "worker_done"
    <3>1. x.report \in Reports
      BY <2>1, <2>5 DEF Carries, RelayItem
    <3>2. x = Item(x.id, Done(x.report))
      BY <2>2, <2>5 DEF Item, Done
    <3> QED BY <2>1, <3>1, <3>2 DEF Contents
  <2> QED BY <2>3, <2>4, <2>5 DEF RelayItem
<1>3. /\ worker.acked \in 0..Len(relay) /\ home.imported \in 0..Len(relay)
      /\ home.acked \in 0..home.imported /\ home.checkpoint.through \in 0..home.imported
      /\ worker.mail \in mail.acked..mail.queued
  BY <1>1 DEF RelayInv, CursorsOrdered, WorkerRow, HomeRow, Point, MailRow
<1>4. /\ worker.attached \in States \ {"stopping"} /\ home.state \in States
      /\ sync.phase \in {"idle", "pulled", "ack", "mail"}
  BY <1>1 DEF WorkerRow, HomeRow, SyncRow
<1> QED BY <1>1, <1>2, <1>3, <1>4 DEF RelayTypeOK

\* Neither side forgets what the other does not have.
LEMMA InvForgetsNothing == RelayInv => NothingIsForgotten
<1> SUFFICES ASSUME RelayInv PROVE NothingIsForgotten
  OBVIOUS
<1>1. /\ worker.acked \in Nat /\ home.acked \in Nat /\ home.imported \in Nat
      /\ home.acked <= worker.acked
  BY DEF RelayInv, RelayShape, WorkerRow, HomeRow, CursorsOrdered
<1>2. NoReportStranded
  BY <1>1 DEF NoReportStranded, Eligible
<1> QED BY <1>2 DEF RelayInv, NothingIsForgotten

\* Every cursor and state is one the two databases can hold: no cursor runs ahead of
\* the queue, and home never remembers more than it imported.
THEOREM RelayTypeCorrect == Spec => []RelayTypeOK
BY RelayInvAlways, InvGivesTypes, PTL

\* From Settling on, the worker drops a report that names its task only once home has
\* decided the dispatch, and home stops asking only when all it imported is acknowledged,
\* for any page size, quota, number of faults, restarts and resets.
THEOREM NothingIsEverForgotten == Spec => []NothingIsForgotten
BY RelayInvAlways, InvForgetsNothing, PTL

\* From Settling on, the attachment of the worker is settled only as home decided the
\* dispatch, also when acknowledgments are lost, replayed or refused.
THEOREM VerdictsAlwaysAgree == Spec => []VerdictsAgree
<1>1. RelayInv => VerdictsAgree
  BY DEF RelayInv
<1> QED BY <1>1, RelayInvAlways, PTL

-----------------------------------------------------------------------------
(* A decision is made once.                                                  *)

\* An acknowledgment, also one that is repeated, settles only an open attachment.
LEMMA ServedSettlesOnce ==
  ASSUME RelayInv, worker.attached # "ready",
         \/ Served
         \/ \E w \in {worker} \cup {v \in {Acknowledged} : AckValid} :
              worker' = [w EXCEPT !.epoch = @ + 1]
  PROVE  worker'.attached = worker.attached
<1>1. worker \in WorkerRow
  BY DEF RelayInv, RelayShape
<1>2. ASSUME AckValid PROVE Acknowledged.attached = worker.attached
  <2>1. CASE Terminal = {}
    BY <1>1, <2>1 DEF Acknowledged, WorkerRow
  <2>2. CASE Terminal # {}
    <3>1. PICK s \in Terminal : s = CHOOSE t \in Terminal : TRUE
      BY <2>2
    <3>2. worker.attached = s.verdict
      BY <1>2, <3>1 DEF AckValid, Settles
    <3>3. Acknowledged.attached = (CHOOSE t \in Terminal : TRUE).verdict
      BY <1>1, <2>2 DEF Acknowledged, WorkerRow
    <3> QED BY <3>1, <3>2, <3>3
  <2> QED BY <2>1, <2>2
<1> QED BY <1>1, <1>2 DEF Served, WorkerRow, Acknowledged

\* Every step keeps the verdict of home and a settled attachment.
LEMMA DecisionKept ==
  ASSUME RelayInv, [Next]_vars
  PROVE  /\ home.state \in Decided \cup {"stopped"} => home'.state = home.state
         /\ worker.attached # "ready" => worker'.attached = worker.attached
<1>1. /\ home \in HomeRow /\ worker \in WorkerRow /\ home.state # "none"
  BY DEF RelayInv, RelayShape, HomeRow, States, Decided
<1>2. CASE UNCHANGED vars
  BY <1>2 DEF vars
<1>3. CASE \E c \in Contents : Send(c)
  <2>1. UNCHANGED home /\ worker.attached = "ready"
    BY <1>3 DEF Send
  <2> QED BY <2>1
<1>4. CASE Pull \/ SendMail \/ ResetMessages \/ AckRefused
  BY <1>4 DEF Pull, SendMail, ResetMessages, AckRefused
<1>5. CASE Import
  <2>1. Prefix(Imports, Len(sync.items))
    BY <1>5, ImportsKeep DEF Import
  <2>2. home'.state = Imports.state /\ UNCHANGED worker
    BY <1>1, <1>5 DEF Import, HomeRow
  <2> QED BY <2>1, <2>2 DEF Prefix, Decided
<1>6. CASE Ack
  <2>1. home'.state = home.state /\ Served
    BY <1>1, <1>6 DEF Ack, Recorded, HomeRow
  <2> QED BY <2>1, ServedSettlesOnce
<1>7. CASE LoseAck
  <2>1. UNCHANGED home
    BY <1>7 DEF LoseAck
  <2>2. CASE UNCHANGED worker
    BY <2>1, <2>2
  <2>3. CASE \/ Served
             \/ \E w \in {worker} \cup {v \in {Acknowledged} : AckValid} :
                  worker' = [w EXCEPT !.epoch = @ + 1]
    BY <2>1, <2>3, ServedSettlesOnce
  <2> QED BY <1>7, <2>2, <2>3 DEF LoseAck
<1>8. CASE DeliverMail \/ LoseMail
  <2>1. UNCHANGED home /\ worker' \in {worker, WorkerHasMail}
    BY <1>8 DEF DeliverMail, LoseMail
  <2> QED BY <1>1, <2>1 DEF WorkerHasMail, WorkerRow
<1>9. CASE BeginStop \/ Stop \/ StopInDoubt
  BY <1>1, <1>9 DEF BeginStop, Stop, StopInDoubt, HomeRow, WorkerRow, Decided
<1>10. CASE HomeRestart \/ WorkerRestart
  BY <1>1, <1>10 DEF HomeRestart, WorkerRestart, HomeRow, WorkerRow
<1> QED BY <1>2, <1>3, <1>4, <1>5, <1>6, <1>7, <1>8, <1>9, <1>10 DEF Next, Syncing

\* Whatever is reported, replayed, stopped or restarted later, a dispatch is decided once
\* on either side.
THEOREM DecisionsAreFinal == Spec => DecisionIsFinal
<1>1. ASSUME RelayInv, [Next]_vars
      PROVE  [/\ home.state \in Decided \cup {"stopped"} => home'.state = home.state
              /\ worker.attached # "ready" => worker'.attached = worker.attached]_vars
  BY <1>1, DecisionKept
<1> QED BY <1>1, RelayInvAlways, PTL DEF Spec, DecisionIsFinal

-----------------------------------------------------------------------------
(* The refinement of the abstract channel, below the quota.                  *)

RisingIds == \A i, j \in 1..Len(relay) : i < j => relay[i].id < relay[j].id

(* The inbox holds nothing that was not imported.                            *)
Arrived(box, through) == \A k \in 1..Len(box) : \E i \in 1..through : box[k] = relay[i].id

ChannelInv ==
  /\ bounds.sends \in 0..MaxSends /\ Len(relay) <= bounds.sends
  /\ \A i \in 1..Len(relay) : relay[i].id \in 1..bounds.sends
  /\ RisingIds
  /\ Arrived(inbox, home.imported)
  /\ PageIsExact

(* The inbox after an import: what was there, then what was imported now.    *)
Received(h) ==
  /\ h.inbox \in Seq(Nat)
  /\ Len(h.inbox) = Len(inbox) + (h.imported - home.imported)
  /\ \A k \in 1..Len(inbox) : h.inbox[k] = inbox[k]
  /\ \A k \in 1..(h.imported - home.imported) : h.inbox[Len(inbox) + k] = relay[home.imported + k].id

\* What an import leaves in the inbox was imported.
LEMMA ReceivedArrived ==
  ASSUME RelayInv, ChannelInv, NEW h, NEW i, Prefix(h, i), Received(h)
  PROVE  Arrived(h.inbox, h.imported)
<1>1. /\ Len(inbox) \in Nat /\ home.imported \in Nat /\ h.imported \in Nat
      /\ home.imported <= h.imported
  BY DEF RelayInv, RelayShape, HomeRow, Prefix
<1>2. ASSUME NEW k \in 1..Len(h.inbox) PROVE \E j \in 1..h.imported : h.inbox[k] = relay[j].id
  <2>1. CASE k <= Len(inbox)
    <3>1. k \in 1..Len(inbox)
      BY <1>1, <2>1
    <3>2. PICK j \in 1..home.imported : inbox[k] = relay[j].id
      BY <3>1 DEF ChannelInv, Arrived
    <3>3. j \in 1..h.imported
      BY <1>1
    <3> QED BY <3>1, <3>2, <3>3 DEF Received
  <2>2. CASE ~(k <= Len(inbox))
    <3>1. /\ k - Len(inbox) \in 1..(h.imported - home.imported)
          /\ k = Len(inbox) + (k - Len(inbox))
      BY <1>1, <2>2 DEF Received
    <3>2. PICK m \in 1..(h.imported - home.imported) : k = Len(inbox) + m
      BY <3>1
    <3>3. home.imported + m \in 1..h.imported
      BY <1>1
    <3>4. h.inbox[k] = relay[home.imported + m].id
      BY <3>2 DEF Received
    <3> QED BY <3>3, <3>4
  <2> QED BY <2>1, <2>2
<1> QED BY <1>2 DEF Arrived

\* One item is imported: below the quota it is new exactly when its cursor is.
LEMMA ImportItemReceives ==
  ASSUME RelayInv, ChannelInv, sync.phase = "pulled", NEW i \in 1..Len(sync.items), NEW h,
         Prefix(h, i - 1), Received(h)
  PROVE  Received(ImportItem(h, sync.first + i - 1, sync.items[i]))
<1> PICK seq : seq = sync.first + i - 1
  OBVIOUS
<1> PICK item : item = sync.items[i]
  OBVIOUS
<1> PICK g : g = ImportItem(h, seq, item)
  OBVIOUS
<1>1. /\ relay \in Seq(RelayItem) /\ sync.items \in Seq(RelayItem) /\ home.imported \in Nat
      /\ sync.first \in Nat /\ sync.first >= 1 /\ sync.first + Len(sync.items) - 1 <= Len(relay)
      /\ inbox \in Seq(Nat) /\ h.imported \in Nat /\ h.inbox \in Seq(Nat) /\ home.imported <= h.imported
  BY DEF RelayInv, RelayShape, HomeRow, SyncRow, PageIsQueued, Cursor, Prefix
<1>2. Len(relay) \in Nat /\ Len(sync.items) \in Nat /\ Len(inbox) \in Nat
  BY <1>1
<1>3. seq \in 1..Len(relay) /\ item = relay[seq] /\ item.id \in Nat
  <2>1. seq \in 1..Len(relay)
    BY <1>1, <1>2
  <2>2. item = relay[seq]
    BY DEF ChannelInv, PageIsExact
  <2>3. relay[seq] \in RelayItem
    BY <1>1, <2>1
  <2> QED BY <2>1, <2>2, <2>3 DEF RelayItem
<1>4. CASE ~h.ok \/ ~Importable(h, seq, item)
  <2>1. g = [h EXCEPT !.ok = FALSE]
    BY <1>4 DEF ImportItem
  <2>2. g.inbox = h.inbox /\ g.imported = h.imported
    BY <2>1 DEF Prefix
  <2> QED BY <2>2 DEF Received
<1>5. CASE h.ok /\ Importable(h, seq, item)
  <2>1. /\ g.imported = IF seq > h.imported THEN seq ELSE h.imported
        /\ g.inbox = IF item.id \in Range(h.inbox) THEN h.inbox ELSE Append(h.inbox, item.id)
    BY <1>5 DEF ImportItem, Filed
  <2>2. CASE seq <= h.imported
    <3>1. item.id \in Range(h.inbox)
      BY <1>5, <2>2 DEF Importable
    <3>2. g.inbox = h.inbox /\ g.imported = h.imported
      BY <1>1, <1>3, <2>1, <2>2, <3>1
    <3> QED BY <3>2 DEF Received
  <2>3. CASE ~(seq <= h.imported)
    <3>1. seq = h.imported + 1 /\ g.imported = h.imported + 1
      BY <1>1, <1>3, <1>5, <2>1, <2>3 DEF Importable
    <3>2. item.id \notin Range(h.inbox)
      <4>0. DOMAIN h.inbox = 1..Len(h.inbox)
        BY <1>1
      <4>1. SUFFICES ASSUME NEW k \in 1..Len(h.inbox), h.inbox[k] = item.id PROVE FALSE
        BY <4>0, Zenon DEF Range
      <4>2. PICK j \in 1..h.imported : h.inbox[k] = relay[j].id
        BY ReceivedArrived DEF Arrived
      <4>3. j \in 1..Len(relay) /\ j < seq
        <5>1. PICK n \in Nat, size \in Nat : n = h.imported /\ size = Len(relay)
          BY <1>1, <1>2
        <5>2. j \in 1..n /\ seq = n + 1 /\ seq \in 1..size
          BY <1>3, <3>1, <5>1, Zenon
        <5>3. j \in 1..size /\ j < seq
          BY <5>2
        <5> QED BY <5>1, <5>3, Zenon
      <4>4. relay[j].id < relay[seq].id
        BY <1>3, <4>3 DEF ChannelInv, RisingIds
      <4>5. relay[j] \in RelayItem
        BY <1>1, <4>3
      <4> QED BY <1>3, <4>1, <4>2, <4>4, <4>5 DEF RelayItem
    <3>3. g.inbox = Append(h.inbox, item.id)
      BY <2>1, <3>2
    <3>4. /\ g.inbox \in Seq(Nat) /\ Len(g.inbox) = Len(h.inbox) + 1
          /\ \A k \in 1..Len(h.inbox) : g.inbox[k] = h.inbox[k]
          /\ g.inbox[Len(h.inbox) + 1] = item.id
      <4>1. PICK box, id : box = h.inbox /\ id = item.id
        OBVIOUS
      <4>2. box \in Seq(Nat) /\ id \in Nat
        BY <1>1, <1>3, <4>1
      <4>3. /\ Append(box, id) \in Seq(Nat) /\ Len(Append(box, id)) = Len(box) + 1
            /\ \A k \in 1..Len(box) : Append(box, id)[k] = box[k]
            /\ Append(box, id)[Len(box) + 1] = id
        BY <4>2
      <4> QED BY <3>3, <4>1, <4>3, Zenon
    <3>5. PICK n \in Nat : n = h.imported - home.imported
      <4>1. h.imported - home.imported \in Nat
        BY <1>1
      <4> QED BY <4>1
    <3>6. g.imported - home.imported = n + 1 /\ home.imported + (n + 1) = seq
      <4>1. PICK a \in Nat, b \in Nat : a = h.imported /\ b = home.imported
        BY <1>1
      <4>2. a - b = n /\ b <= a
        BY <1>1, <3>5, <4>1
      <4>3. (a + 1) - b = n + 1 /\ b + (n + 1) = a + 1
        BY <4>2
      <4> QED BY <3>1, <4>1, <4>3
    <3>7. /\ Len(h.inbox) = Len(inbox) + n
          /\ \A k \in 1..Len(inbox) : h.inbox[k] = inbox[k]
          /\ \A k \in 1..n : h.inbox[Len(inbox) + k] = relay[home.imported + k].id
      BY <3>5 DEF Received
    <3>8. Len(g.inbox) = Len(inbox) + (n + 1) /\ \A k \in 1..Len(inbox) : g.inbox[k] = inbox[k]
      BY <1>2, <3>4, <3>7
    <3>9. ASSUME NEW k \in 1..(n + 1) PROVE g.inbox[Len(inbox) + k] = relay[home.imported + k].id
      <4>1. CASE k = n + 1
        <5>1. Len(inbox) + k = Len(h.inbox) + 1
          BY <1>2, <3>7, <4>1
        <5> QED BY <1>3, <3>4, <3>6, <4>1, <5>1
      <4>2. CASE k # n + 1
        <5>1. k \in 1..n /\ Len(inbox) + k \in 1..Len(h.inbox)
          BY <1>2, <3>7, <4>2
        <5> QED BY <3>4, <3>7, <5>1
      <4> QED BY <4>1, <4>2
    <3> QED BY <3>4, <3>6, <3>8, <3>9 DEF Received
  <2> QED BY <2>2, <2>3
<1> QED BY <1>4, <1>5

\* A whole page is imported into the inbox.
LEMMA ImportsReceive ==
  ASSUME RelayInv, ChannelInv, sync.phase = "pulled"
  PROVE  Prefix(Imports, Len(sync.items)) /\ Received(Imports)
<1>1. Len(sync.items) \in Nat /\ inbox \in Seq(Nat) /\ home.imported \in Nat
  BY DEF RelayInv, RelayShape, SyncRow, HomeRow
<1>2. PICK d : /\ Runs(d, Base, sync.first, sync.items, Len(sync.items))
               /\ Imports = d[Len(sync.items)]
  BY <1>1, ImportsUnfold
<1> DEFINE S == {n \in Nat : n <= Len(sync.items) => Prefix(d[n], n) /\ Received(d[n])}
<1>3. 0 \in S
  <2>1. d[0] = Base
    <3>1. 0 \in 0..Len(sync.items)
      BY <1>1
    <3> QED BY <1>1, <3>1, <1>2, Zenon DEF Runs
  <2>2. Prefix(Base, 0)
    <3>1. HoldOf({}, home.state)
      BY DEF HoldOf
    <3> QED BY <3>1 DEF Prefix, Base, RelayInv, RelayShape, HomeRow, CursorsOrdered
  <2>3. Received(Base)
    <3>1. Base.inbox = inbox /\ Base.imported = home.imported
      BY DEF Base
    <3> QED BY <1>1, <3>1 DEF Received
  <2> QED BY <2>1, <2>2, <2>3
<1>4. ASSUME NEW n \in Nat, n \in S PROVE n + 1 \in S
  <2> SUFFICES ASSUME n + 1 <= Len(sync.items) PROVE Prefix(d[n + 1], n + 1) /\ Received(d[n + 1])
    OBVIOUS
  <2>1. /\ n + 1 \in 1..Len(sync.items) /\ n + 1 \in 0..Len(sync.items)
        /\ (n + 1) - 1 = n /\ n + 1 # 0
    BY <1>1
  <2>2. d[n + 1] = ImportItem(d[(n + 1) - 1], sync.first + (n + 1) - 1, sync.items[n + 1])
    BY <1>2, <2>1, Zenon DEF Runs
  <2>3. Prefix(d[(n + 1) - 1], (n + 1) - 1) /\ Received(d[(n + 1) - 1])
    BY <1>1, <1>4, <2>1
  <2> QED BY <2>1, <2>2, <2>3, ImportItemKeeps, ImportItemReceives
<1>5. Len(sync.items) \in S
  <2> HIDE DEF S
  <2> QED BY <1>1, <1>3, <1>4, Induct
<1> QED BY <1>1, <1>2, <1>5

(* A step that neither queues nor imports.                                   *)
Quiet ==
  /\ UNCHANGED <<relay, inbox>> /\ bounds'.sends = bounds.sends /\ home'.imported = home.imported
  /\ \/ sync'.phase = "idle"
     \/ UNCHANGED sync
     \/ sync.phase # "idle" /\ sync'.first = sync.first /\ sync'.items = sync.items

\* Quiet steps are steps of the channel that change nothing.
LEMMA QuietKeeps ==
  ASSUME RelayInv, ChannelInv, Quiet
  PROVE  ChannelInv' /\ UNCHANGED <<AcceptedReports, Unreceived, inbox>>
<1>1. AcceptedReports' = AcceptedReports /\ Unreceived' = Unreceived
  BY DEF Quiet, AcceptedReports, Unreceived
<1>2. PageIsExact'
  BY DEF Quiet, ChannelInv, PageIsExact
<1>3. RisingIds' /\ Arrived(inbox, home.imported)'
  BY DEF Quiet, ChannelInv, RisingIds, Arrived
<1> QED BY <1>1, <1>2, <1>3 DEF Quiet, ChannelInv

\* The actions that neither queue, pull, import nor reset are quiet.
LEMMA QuietActions ==
  ASSUME RelayInv,
         \/ Ack \/ AckRefused \/ DeliverMail \/ LoseAck \/ SendMail \/ LoseMail
         \/ BeginStop \/ Stop \/ StopInDoubt \/ HomeRestart \/ WorkerRestart
  PROVE  Quiet
<1>1. home \in HomeRow /\ bounds \in Bounds /\ sync \in SyncRow
  BY DEF RelayInv, RelayShape
<1>2. ASSUME NEW f, Fault(f) PROVE bounds'.sends = bounds.sends
  BY <1>1, <1>2 DEF Fault, Bounds
<1>3. Idle.phase = "idle" /\ NextPage.phase = "idle"
  BY IdleTyped DEF Idle
<1>4. ASSUME Ack PROVE Quiet
  <2>1. home'.imported = home.imported
    BY <1>1, <1>4 DEF Ack, Recorded, HomeRow
  <2>2. sync.phase # "idle" /\ sync'.first = sync.first /\ sync'.items = sync.items
    BY <1>1, <1>4 DEF Ack, SyncRow
  <2> QED BY <1>4, <2>1, <2>2 DEF Ack, Quiet
<1>5. ASSUME AckRefused PROVE Quiet
  BY <1>3, <1>5 DEF AckRefused, Quiet
<1>6. ASSUME DeliverMail PROVE Quiet
  BY <1>3, <1>6 DEF DeliverMail, Quiet
<1>7. ASSUME LoseAck PROVE Quiet
  BY <1>2, <1>3, <1>7 DEF LoseAck, Quiet
<1>8. ASSUME LoseMail PROVE Quiet
  BY <1>2, <1>3, <1>8 DEF LoseMail, Quiet
<1>9. ASSUME SendMail \/ WorkerRestart PROVE Quiet
  BY <1>2, <1>9 DEF SendMail, WorkerRestart, Quiet
<1>10. ASSUME BeginStop \/ Stop PROVE Quiet
  BY <1>1, <1>10 DEF BeginStop, Stop, HomeRow, Quiet
<1>11. ASSUME StopInDoubt PROVE Quiet
  BY <1>1, <1>2, <1>11 DEF StopInDoubt, HomeRow, Quiet
<1>12. ASSUME HomeRestart PROVE Quiet
  BY <1>1, <1>2, <1>3, <1>12 DEF HomeRestart, HomeRow, Quiet
<1> QED BY <1>4, <1>5, <1>6, <1>7, <1>8, <1>9, <1>10, <1>11, <1>12

\* A pull copies a page and changes nothing of the channel.
LEMMA PullIsQuiet ==
  ASSUME RelayInv, ChannelInv, Pull
  PROVE  ChannelInv' /\ UNCHANGED <<AcceptedReports, Unreceived, inbox>>
<1>1. UNCHANGED <<relay, inbox, bounds, home>>
  BY DEF Pull
<1>2. AcceptedReports' = AcceptedReports /\ Unreceived' = Unreceived
  BY <1>1 DEF AcceptedReports, Unreceived
<1>3. RisingIds' /\ Arrived(inbox, home.imported)'
  BY <1>1 DEF ChannelInv, RisingIds, Arrived
<1>4. PageIsExact'
  BY PullKeeps
<1> QED BY <1>1, <1>2, <1>3, <1>4 DEF ChannelInv

(* What is left of a queue after its first items.                            *)
Message == [id : Nat, kind : {"heartbeat", "status", "worker_done"}]
Rest(q, n) == [i \in 1..(Len(q) - n) |-> [id |-> q[n + i].id, kind |-> q[n + i].kind]]

\* The rest of a queue, item by item.
LEMMA RestTyped ==
  ASSUME NEW q \in Seq(RelayItem), NEW n \in 0..Len(q)
  PROVE  /\ Rest(q, n) \in Seq(Message) /\ Len(Rest(q, n)) = Len(q) - n
         /\ \A i \in 1..(Len(q) - n) : Rest(q, n)[i] = [id |-> q[n + i].id, kind |-> q[n + i].kind]
<1>1. PICK m \in Nat : m = Len(q) - n
  <2>1. Len(q) - n \in Nat
    OBVIOUS
  <2> QED BY <2>1
<1>2. \A i \in 1..m : n + i \in 1..Len(q)
  BY <1>1
<1>3. \A i \in 1..m : q[n + i] \in RelayItem
  <2>1. \A j \in 1..Len(q) : q[j] \in RelayItem
    OBVIOUS
  <2> QED BY <1>2, <2>1, Zenon
<1>4. \A i \in 1..m : [id |-> q[n + i].id, kind |-> q[n + i].kind] \in Message
  BY <1>3 DEF RelayItem, Message
<1>5. PICK s : s = [i \in 1..m |-> [id |-> q[n + i].id, kind |-> q[n + i].kind]]
  OBVIOUS
<1>6. s \in [1..m -> Message] /\ \A i \in 1..m : s[i] = [id |-> q[n + i].id, kind |-> q[n + i].kind]
  BY <1>4, <1>5
<1>7. s \in Seq(Message) /\ Len(s) = m
  BY <1>6
<1> QED BY <1>1, <1>5, <1>6, <1>7 DEF Rest

\* Receiving the first n messages, in the words of the channel.
LEMMA TakenFromFront ==
  ASSUME NEW u \in Seq(Message), NEW v \in Seq(Message), NEW n \in 1..Len(u),
         NEW a \in Seq(Nat), NEW b \in Seq(Nat),
         Len(v) = Len(u) - n, \A i \in 1..Len(v) : v[i] = u[n + i],
         Len(b) = Len(a) + n, \A k \in 1..Len(a) : b[k] = a[k],
         \A k \in 1..n : b[Len(a) + k] = u[k].id
  PROVE  b = a \o [i \in 1..n |-> u[i].id] /\ v = SubSeq(u, n + 1, Len(u))
<1>1. Len(u) \in Nat /\ Len(a) \in Nat /\ Len(v) \in Nat /\ Len(b) \in Nat /\ n \in Nat
  OBVIOUS
<1>2. PICK ids : ids = [i \in 1..n |-> u[i].id]
  OBVIOUS
<1>3. ids \in Seq(Nat) /\ Len(ids) = n /\ \A k \in 1..n : ids[k] = u[k].id
  <2>1. \A k \in 1..n : u[k].id \in Nat
    <3>1. \A k \in 1..n : k \in 1..Len(u)
      BY <1>1
    <3>2. \A j \in 1..Len(u) : u[j] \in Message
      OBVIOUS
    <3>3. \A j \in 1..Len(u) : u[j].id \in Nat
      BY <3>2 DEF Message
    <3> QED BY <3>1, <3>3, Zenon
  <2>2. ids \in [1..n -> Nat] /\ \A k \in 1..n : ids[k] = u[k].id
    BY <1>2, <2>1
  <2>3. ids \in Seq(Nat) /\ Len(ids) = n
    <3>1. PICK m \in Nat : m = n
      BY <1>1
    <3>2. ids \in [1..m -> Nat]
      BY <2>2, <3>1
    <3>3. ids \in Seq(Nat) /\ Len(ids) = m
      BY <3>2
    <3> QED BY <3>1, <3>3
  <2> QED BY <2>2, <2>3
<1>4. b = a \o ids
  <2>1. PICK c : c = a \o ids
    OBVIOUS
  <2>2. /\ c \in Seq(Nat) /\ Len(c) = Len(a) + n
        /\ \A k \in 1..(Len(a) + n) : c[k] = IF k <= Len(a) THEN a[k] ELSE ids[k - Len(a)]
    BY <1>3, <2>1, ConcatProperties, Zenon
  <2>3. ASSUME NEW k \in 1..Len(b) PROVE b[k] = c[k]
    <3>1. CASE k <= Len(a)
      <4>1. k \in 1..Len(a) /\ k \in 1..(Len(a) + n)
        BY <1>1, <3>1
      <4> QED BY <2>2, <3>1, <4>1
    <3>2. CASE ~(k <= Len(a))
      <4>1. PICK m \in 1..n : m = k - Len(a)
        <5>1. k - Len(a) \in 1..n
          BY <1>1, <3>2
        <5> QED BY <5>1
      <4>2. k = Len(a) + m
        BY <1>1, <4>1
      <4>3. b[k] = u[m].id
        BY <4>2
      <4>4. c[k] = ids[m]
        BY <1>1, <2>2, <3>2, <4>1
      <4> QED BY <1>3, <4>3, <4>4
    <3> QED BY <3>1, <3>2
  <2> QED BY <2>1, <2>2, <2>3, SeqEqual, Zenon
<1>5. v = SubSeq(u, n + 1, Len(u))
  <2>1. PICK w : w = SubSeq(u, n + 1, Len(u))
    OBVIOUS
  <2>2. n + 1 \in Int /\ Len(u) \in Int /\ \A i \in (n + 1)..Len(u) : u[i] \in Message
    BY <1>1
  <2>3. /\ w \in Seq(Message) /\ Len(w) = IF n + 1 <= Len(u) THEN Len(u) - (n + 1) + 1 ELSE 0
        /\ \A i \in 1..(Len(u) - (n + 1) + 1) : w[i] = u[(n + 1) + i - 1]
    BY <2>1, <2>2, SubSeqProperties
  <2>4. Len(w) = Len(v)
    BY <1>1, <2>3
  <2>5. ASSUME NEW i \in 1..Len(v) PROVE v[i] = w[i]
    <3>1. i \in 1..(Len(u) - (n + 1) + 1) /\ (n + 1) + i - 1 = n + i
      BY <1>1
    <3> QED BY <2>3, <3>1
  <2> QED BY <2>1, <2>3, <2>4, <2>5, SeqEqual, Zenon
<1> QED BY <1>2, <1>4, <1>5

\* An import receives what it imported, in order, and drops it from the rest.
LEMMA ImportReceives ==
  ASSUME RelayInv, ChannelInv, Import
  PROVE  /\ ChannelInv' /\ AcceptedReports' = AcceptedReports
         /\ \/ UNCHANGED <<Unreceived, inbox>>
            \/ \E n \in 1..Len(Unreceived) :
                 /\ inbox' = inbox \o [i \in 1..n |-> Unreceived[i].id]
                 /\ Unreceived' = SubSeq(Unreceived, n + 1, Len(Unreceived))
<1>1. /\ home \in HomeRow /\ sync \in SyncRow /\ relay \in Seq(RelayItem) /\ inbox \in Seq(Nat)
      /\ UNCHANGED <<relay, bounds>> /\ sync.phase = "pulled"
  BY DEF RelayInv, RelayShape, Import
<1>2. PICK h : h = Imports
  OBVIOUS
<1>3. Prefix(h, Len(sync.items)) /\ Received(h)
  BY <1>1, <1>2, ImportsReceive
<1>4. /\ inbox' = h.inbox /\ home' = [home EXCEPT !.state = h.state, !.imported = h.imported]
      /\ sync' = Idle \/ sync' = [sync EXCEPT !.phase = IF Cursor > KnownAcked THEN "ack" ELSE "mail",
                                     !.settlements = IF Modern THEN h.settlements ELSE {}]
  BY <1>2 DEF Import
<1>5. home'.imported = h.imported
  BY <1>1, <1>4 DEF HomeRow
<1>6. PageIsExact'
  <2>1. CASE sync' = Idle
    BY <2>1 DEF PageIsExact, Idle
  <2>2. CASE sync' # Idle
    <3>1. sync'.first = sync.first /\ sync'.items = sync.items
      BY <1>1, <1>4, <2>2 DEF SyncRow
    <3> QED BY <1>1, <3>1 DEF ChannelInv, PageIsExact
  <2> QED BY <2>1, <2>2
<1>7. ChannelInv' /\ AcceptedReports' = AcceptedReports
  <2>1. Arrived(h.inbox, h.imported)
    BY <1>3, ReceivedArrived
  <2>2. Arrived(inbox, home.imported)'
    BY <1>1, <1>4, <1>5, <2>1 DEF Arrived
  <2>3. RisingIds'
    BY <1>1 DEF ChannelInv, RisingIds
  <2> QED BY <1>1, <1>6, <2>2, <2>3 DEF ChannelInv, AcceptedReports
<1>8. PICK n : n = h.imported - home.imported
  OBVIOUS
<1>9. /\ n \in 0..(Len(relay) - home.imported) /\ h.imported = home.imported + n
      /\ home.imported \in 0..Len(relay) /\ h.imported \in 0..Len(relay)
      /\ Len(relay) \in Nat /\ Len(inbox) \in Nat
  <2>1. /\ home.imported \in Nat /\ h.imported \in Nat /\ Len(relay) \in Nat /\ Len(inbox) \in Nat
        /\ home.imported <= h.imported /\ h.imported <= Len(relay)
    BY <1>1, <1>3 DEF HomeRow, Prefix
  <2>2. PICK a \in Nat, b \in Nat, c \in Nat : a = home.imported /\ b = h.imported /\ c = Len(relay)
    BY <2>1
  <2>3. b - a \in 0..(c - a) /\ b = a + (b - a) /\ a \in 0..c /\ b \in 0..c
    BY <2>1, <2>2
  <2> QED BY <1>8, <2>1, <2>2, <2>3, Zenon
<1>10. /\ Unreceived = Rest(relay, home.imported)
       /\ Unreceived' = Rest(relay, h.imported)
  BY <1>1, <1>5 DEF Unreceived, Rest
<1>11. /\ h.inbox \in Seq(Nat) /\ Len(h.inbox) = Len(inbox) + n
       /\ \A k \in 1..Len(inbox) : h.inbox[k] = inbox[k]
       /\ \A k \in 1..n : h.inbox[Len(inbox) + k] = relay[home.imported + k].id
  BY <1>3, <1>8 DEF Received
<1>12. CASE n = 0
  <2>1. h.inbox = inbox
    <3>1. Len(h.inbox) = Len(inbox)
      BY <1>9, <1>11, <1>12
    <3> QED BY <1>1, <1>11, <3>1, SeqEqual, Zenon
  <2>2. h.imported = home.imported
    BY <1>9, <1>12
  <2> QED BY <1>4, <1>7, <1>10, <2>1, <2>2
<1>13. CASE n # 0
  <2>1. PICK u, v : u = Unreceived /\ v = Unreceived'
    OBVIOUS
  <2>2. /\ u \in Seq(Message) /\ Len(u) = Len(relay) - home.imported
        /\ \A i \in 1..(Len(relay) - home.imported) :
             u[i] = [id |-> relay[home.imported + i].id, kind |-> relay[home.imported + i].kind]
    BY <1>1, <1>9, <1>10, <2>1, RestTyped
  <2>3. /\ v \in Seq(Message) /\ Len(v) = Len(relay) - h.imported
        /\ \A i \in 1..(Len(relay) - h.imported) :
             v[i] = [id |-> relay[h.imported + i].id, kind |-> relay[h.imported + i].kind]
    BY <1>1, <1>9, <1>10, <2>1, RestTyped
  <2>4. n \in 1..Len(u) /\ Len(v) = Len(u) - n
    BY <1>9, <1>13, <2>2, <2>3
  <2>5. \A i \in 1..Len(v) : v[i] = u[n + i]
    <3>1. \A i \in 1..Len(v) :
            n + i \in 1..(Len(relay) - home.imported) /\ home.imported + (n + i) = h.imported + i
      <4>1. PICK a \in Nat, b \in Nat, c \in Nat : a = home.imported /\ b = h.imported /\ c = Len(relay)
        BY <1>9
      <4>2. Len(v) = c - b /\ b = a + n /\ n \in Nat
        BY <1>9, <2>3, <4>1
      <4>3. \A i \in 1..(c - b) : n + i \in 1..(c - a) /\ a + (n + i) = b + i
        BY <4>2
      <4> QED BY <4>1, <4>2, <4>3
    <3>2. ASSUME NEW i \in 1..Len(v) PROVE v[i] = u[n + i]
      BY <2>2, <2>3, <3>1
    <3> QED BY <3>2
  <2>6. \A k \in 1..n : h.inbox[Len(inbox) + k] = u[k].id
    <3>1. \A k \in 1..n : k \in 1..(Len(relay) - home.imported)
      BY <1>9
    <3>2. ASSUME NEW k \in 1..n PROVE h.inbox[Len(inbox) + k] = u[k].id
      <4>1. u[k].id = relay[home.imported + k].id
        <5>1. k \in 1..(Len(relay) - home.imported)
          BY <3>1, Zenon
        <5>2. u[k] = [id |-> relay[home.imported + k].id, kind |-> relay[home.imported + k].kind]
          BY <2>2, <5>1, Zenon
        <5> QED BY <5>2
      <4>2. h.inbox[Len(inbox) + k] = relay[home.imported + k].id
        BY <1>11, Zenon
      <4> QED BY <4>1, <4>2, Zenon
    <3> QED BY <3>2, Zenon
  <2>7. /\ h.inbox = inbox \o [i \in 1..n |-> u[i].id]
        /\ v = SubSeq(u, n + 1, Len(u))
    BY <1>1, <1>11, <2>2, <2>3, <2>4, <2>5, <2>6, TakenFromFront, Zenon
  <2> QED BY <1>4, <1>7, <2>1, <2>4, <2>7, Zenon
<1> QED BY <1>12, <1>13

-----------------------------------------------------------------------------
(* The refinement step by step.                                              *)

\* The unacknowledged items are part of the queue.
LEMMA UnacknowledgedCount ==
  ASSUME RelayShape, worker.acked <= Len(relay)
  PROVE  Cardinality(Unacked) \in Nat /\ Cardinality(Unacked) <= Len(relay)
<1>1. worker.acked \in Nat /\ Len(relay) \in Nat
  BY DEF RelayShape, WorkerRow
<1>2. worker.acked + 1 \in Int /\ Len(relay) \in Int
  BY <1>1
<1>3. Cardinality(Unacked) = IF worker.acked + 1 > Len(relay) THEN 0
                             ELSE Len(relay) - (worker.acked + 1) + 1
  BY <1>2, FS_Interval, Zenon DEF Unacked
<1> QED BY <1>1, <1>3

\* Below the quota a message sent is accepted by the channel, or merged.
LEMMA SendAccepts ==
  ASSUME RelayInv, ChannelInv, ~Full, NEW c \in Contents, Send(c)
  PROVE  /\ ChannelInv' /\ inbox' = inbox
         /\ \/ UNCHANGED <<AcceptedReports, Unreceived>>
            \/ \E m \in SendableMessages :
                 /\ AcceptedReports' = IF m.kind = "worker_done" THEN AcceptedReports \cup {m.id}
                                       ELSE AcceptedReports
                 /\ Unreceived' = Append(Unreceived, m)
<1>1. /\ relay \in Seq(RelayItem) /\ home \in HomeRow /\ Len(relay) \in Nat
      /\ home.imported \in Nat /\ home.imported <= Len(relay) /\ bounds \in Bounds
      /\ UNCHANGED <<home, inbox, sync>>
  BY DEF RelayInv, RelayShape, HomeRow, CursorsOrdered, Send
<1>2. PICK id \in Nat : id = bounds.sends + 1
  BY <1>1 DEF Bounds
<1>3. bounds'.sends = id /\ bounds'.sends \in 0..MaxSends /\ id \in 1..MaxSends
  <2>1. bounds' = [bounds EXCEPT !.sends = @ + 1] /\ bounds.sends < MaxSends
    BY DEF Send
  <2>2. bounds.sends \in Nat /\ MaxSends \in Nat /\ bounds'.sends = bounds.sends + 1
    BY <1>1, <2>1, BoundsAssumption DEF Bounds
  <2> QED BY <1>2, <2>1, <2>2
<1>4. CASE relay' = relay
  <2>1. UNCHANGED <<AcceptedReports, Unreceived>>
    BY <1>1, <1>4 DEF AcceptedReports, Unreceived
  <2>2. \A i \in 1..Len(relay) : relay[i].id \in 1..id
    BY <1>1, <1>2 DEF ChannelInv, Bounds
  <2>3. Len(relay) <= id
    BY <1>1, <1>2 DEF ChannelInv, Bounds
  <2>4. RisingIds' /\ Arrived(inbox, home.imported)' /\ PageIsExact'
    BY <1>1, <1>4 DEF ChannelInv, RisingIds, Arrived, PageIsExact
  <2> QED BY <1>1, <1>3, <1>4, <2>1, <2>2, <2>3, <2>4 DEF ChannelInv
<1>5. CASE relay' = Append(relay, Item(id, c))
  <2>1. PICK item : item = Item(id, c)
    OBVIOUS
  <2>2. item \in RelayItem /\ item.id = id /\ item.kind = c.kind
    BY <1>2, <2>1, ItemTyped DEF Item
  <2>3. PICK size \in Nat : size = Len(relay)
    BY <1>1
  <2>4. /\ relay' \in Seq(RelayItem) /\ Len(relay') = size + 1
        /\ \A i \in 1..size : relay'[i] = relay[i]
        /\ relay'[size + 1] = item
    <3>1. /\ Append(relay, item) \in Seq(RelayItem) /\ Len(Append(relay, item)) = Len(relay) + 1
          /\ \A i \in 1..Len(relay) : Append(relay, item)[i] = relay[i]
          /\ Append(relay, item)[Len(relay) + 1] = item
      BY <1>1, <2>2
    <3>2. relay' = Append(relay, item)
      BY <1>5, <2>1, Zenon
    <3> QED BY <2>3, <3>1, <3>2, Zenon
  <2>5. bounds.sends \in Nat /\ id = bounds.sends + 1 /\ size <= bounds.sends
    BY <1>1, <1>2, <2>3 DEF ChannelInv, Bounds
  <2>6. \A i \in 1..size : relay[i].id \in 1..bounds.sends
    BY <2>3 DEF ChannelInv
  <2>7. \A i \in 1..(size + 1) : relay'[i].id \in 1..id
    <3>1. ASSUME NEW i \in 1..(size + 1) PROVE relay'[i].id \in 1..id
      <4>1. CASE i = size + 1
        BY <1>3, <2>2, <2>4, <2>5, <4>1
      <4>2. CASE i # size + 1
        <5>1. i \in 1..size
          BY <4>2
        <5>2. relay'[i].id \in 1..bounds.sends
          BY <2>4, <2>6, <5>1
        <5> QED BY <2>5, <5>2
      <4> QED BY <4>1, <4>2
    <3> QED BY <3>1
  <2>8. RisingIds'
    <3>1. ASSUME NEW i \in 1..(size + 1), NEW j \in 1..(size + 1), i < j
          PROVE  relay'[i].id < relay'[j].id
      <4>1. i \in 1..size
        BY <3>1
      <4>2. CASE j = size + 1
        <5>1. relay'[i].id \in 1..bounds.sends /\ relay'[j].id = id
          BY <2>2, <2>4, <2>6, <4>1, <4>2
        <5> QED BY <2>5, <5>1
      <4>3. CASE j # size + 1
        <5>1. j \in 1..size
          BY <4>3
        <5>2. relay[i].id < relay[j].id
          BY <2>3, <3>1, <4>1, <5>1 DEF ChannelInv, RisingIds
        <5> QED BY <2>4, <4>1, <5>1, <5>2
      <4> QED BY <4>2, <4>3
    <3> QED BY <2>4, <3>1 DEF RisingIds
  <2>9. Arrived(inbox, home.imported)'
    <3>1. \A i \in 1..home.imported : relay'[i] = relay[i]
      BY <1>1, <2>3, <2>4
    <3> QED BY <1>1, <3>1 DEF ChannelInv, Arrived
  <2>10. PageIsExact'
    <3>1. ASSUME sync.phase # "idle", NEW k \in 1..Len(sync.items)
          PROVE  relay'[sync.first + k - 1] = sync.items[k]
      <4>1. /\ sync.first \in Nat /\ sync.first >= 1 /\ Len(sync.items) \in Nat
            /\ sync.first + Len(sync.items) - 1 <= size
        BY <2>3, <3>1 DEF RelayInv, RelayShape, SyncRow, PageIsQueued, Cursor
      <4>2. sync.first + k - 1 \in 1..size
        BY <4>1
      <4> QED BY <2>4, <3>1, <4>2 DEF ChannelInv, PageIsExact
    <3> QED BY <1>1, <3>1 DEF PageIsExact
  <2>11. ChannelInv'
    BY <1>1, <1>3, <2>4, <2>5, <2>7, <2>8, <2>9, <2>10 DEF ChannelInv
  <2>12. PICK m : m = [id |-> id, kind |-> c.kind]
    OBVIOUS
  <2>13. m \in SendableMessages
    BY <1>3, <2>12 DEF SendableMessages
  <2>14. AcceptedReports' = IF m.kind = "worker_done" THEN AcceptedReports \cup {m.id}
                            ELSE AcceptedReports
    <3>1. AcceptedReports = {relay[i].id : i \in {j \in 1..size : relay[j].kind = "worker_done"}}
      BY <2>3 DEF AcceptedReports
    <3>2. AcceptedReports' = {relay'[i].id : i \in {j \in 1..(size + 1) : relay'[j].kind = "worker_done"}}
      BY <2>4 DEF AcceptedReports
    <3>3. \A j : j \in 1..(size + 1) <=> j \in 1..size \/ j = size + 1
      BY <2>3
    <3>4. m.kind = item.kind /\ m.id = item.id
      BY <2>2, <2>12
    <3>5. ASSUME NEW x PROVE
            x \in AcceptedReports' <=> x \in AcceptedReports \/ (m.kind = "worker_done" /\ x = m.id)
      <4>1. x \in AcceptedReports' <=>
              \E i \in 1..(size + 1) : relay'[i].kind = "worker_done" /\ x = relay'[i].id
        BY <3>2, Zenon
      <4>2. x \in AcceptedReports <=> \E i \in 1..size : relay[i].kind = "worker_done" /\ x = relay[i].id
        BY <3>1, Zenon
      <4> QED BY <2>4, <3>3, <3>4, <4>1, <4>2
    <3> QED BY <3>5
  <2>15. Unreceived' = Append(Unreceived, m)
    <3>1. Unreceived = Rest(relay, home.imported) /\ Unreceived' = Rest(relay', home.imported)
      BY <1>1 DEF Unreceived, Rest
    <3>2. PICK u, v : u = Unreceived /\ v = Unreceived'
      OBVIOUS
    <3>3. PICK old \in Nat : old = home.imported /\ old <= size
      BY <1>1, <2>3
    <3>4. home.imported \in 0..Len(relay) /\ home.imported \in 0..Len(relay')
      BY <2>3, <2>4, <3>3
    <3>5. /\ u \in Seq(Message) /\ Len(u) = size - old
          /\ \A i \in 1..(size - old) : u[i] = [id |-> relay[old + i].id, kind |-> relay[old + i].kind]
      BY <1>1, <2>3, <3>1, <3>2, <3>3, <3>4, RestTyped
    <3>6. PICK queue : queue = relay'
      OBVIOUS
    <3>7. /\ v \in Seq(Message) /\ Len(v) = (size + 1) - old
          /\ \A i \in 1..((size + 1) - old) : v[i] = [id |-> queue[old + i].id, kind |-> queue[old + i].kind]
      <4>1. queue \in Seq(RelayItem) /\ Len(queue) = size + 1 /\ old \in 0..Len(queue) /\ v = Rest(queue, old)
        BY <2>4, <3>1, <3>2, <3>3, <3>4, <3>6
      <4> QED BY <4>1, RestTyped
    <3>8. m \in Message
      BY <1>2, <2>2, <2>12 DEF Message, RelayItem
    <3>9. PICK w : w = Append(u, m)
      OBVIOUS
    <3>10. /\ w \in Seq(Message) /\ Len(w) = Len(u) + 1
           /\ \A i \in 1..Len(u) : w[i] = u[i]
           /\ w[Len(u) + 1] = m
      <4>1. /\ Append(u, m) \in Seq(Message) /\ Len(Append(u, m)) = Len(u) + 1
            /\ \A i \in 1..Len(u) : Append(u, m)[i] = u[i]
            /\ Append(u, m)[Len(u) + 1] = m
        BY <3>5, <3>8
      <4> QED BY <3>9, <4>1, Zenon
    <3>11. PICK n \in Nat : n = size - old /\ old + n = size /\ (size + 1) - old = n + 1
      <4>1. size - old \in Nat /\ old + (size - old) = size /\ (size + 1) - old = (size - old) + 1
        BY <3>3
      <4> QED BY <4>1
    <3>12. Len(v) = n + 1 /\ Len(w) = n + 1 /\ Len(u) = n
      BY <3>5, <3>7, <3>10, <3>11
    <3>13. ASSUME NEW i \in 1..(n + 1) PROVE v[i] = w[i]
      <4>1. CASE i = n + 1
        <5>1. old + i = size + 1 /\ i \in 1..((size + 1) - old)
          BY <3>11, <4>1
        <5>2. v[i] = [id |-> item.id, kind |-> item.kind]
          BY <2>4, <3>6, <3>7, <5>1
        <5>3. v[i] = m
          BY <2>2, <2>12, <5>2
        <5>4. w[i] = m
          BY <3>10, <3>12, <4>1, Zenon
        <5> QED BY <5>3, <5>4
      <4>2. CASE i # n + 1
        <5>1. i \in 1..n /\ i \in 1..((size + 1) - old) /\ old + i \in 1..size
          <6>1. i \in 1..n
            BY <4>2
          <6>2. i \in 1..((size + 1) - old)
            BY <3>11
          <6>3. old + i \in 1..size
            <7>1. i \in Nat /\ i >= 1 /\ i <= n /\ n \in Nat /\ old \in Nat /\ size \in Nat
              BY <6>1
            <7>2. old + n = size
              BY <3>11
            <7> QED BY <7>1, <7>2
          <6> QED BY <6>1, <6>2, <6>3
        <5>2. v[i] = [id |-> relay[old + i].id, kind |-> relay[old + i].kind]
          BY <2>4, <3>6, <3>7, <5>1
        <5>3. w[i] = u[i] /\ u[i] = [id |-> relay[old + i].id, kind |-> relay[old + i].kind]
          BY <3>5, <3>10, <3>11, <3>12, <5>1
        <5> QED BY <5>2, <5>3
      <4> QED BY <4>1, <4>2
    <3>14. v = w
      <4>1. Len(v) = Len(w) /\ \A i \in 1..Len(v) : v[i] = w[i]
        BY <3>12, <3>13
      <4> QED BY <3>7, <3>10, <4>1, SeqEqual, Zenon
    <3> QED BY <3>2, <3>9, <3>14
  <2> QED BY <1>1, <2>11, <2>13, <2>14, <2>15
<1>6. \/ relay' = relay \/ relay' = Append(relay, Item(id, c))
  BY <1>2 DEF Send, Enqueued
<1> QED BY <1>4, <1>5, <1>6

\* A reset clears the inbox of the channel.
LEMMA ResetClears ==
  ASSUME RelayInv, ChannelInv, ResetMessages
  PROVE  ChannelInv' /\ inbox' = <<>> /\ UNCHANGED <<AcceptedReports, Unreceived>>
<1>1. UNCHANGED <<relay, home, sync>> /\ inbox' = <<>> /\ bounds'.sends = bounds.sends
  BY DEF ResetMessages, Fault, RelayInv, RelayShape, Bounds
<1>2. UNCHANGED <<AcceptedReports, Unreceived>>
  BY <1>1 DEF AcceptedReports, Unreceived
<1>3. RisingIds' /\ Arrived(inbox, home.imported)' /\ PageIsExact'
  <2>1. Len(inbox') = 0
    BY <1>1
  <2>2. Arrived(inbox, home.imported)'
    BY <2>1 DEF Arrived
  <2> QED BY <1>1, <2>2 DEF ChannelInv, RisingIds, PageIsExact
<1> QED BY <1>1, <1>2, <1>3 DEF ChannelInv

\* The channel starts empty.
LEMMA ChannelInitial == Init => ChannelInv /\ Channel!ChannelInit
<1> SUFFICES ASSUME Init PROVE ChannelInv /\ Channel!ChannelInit
  OBVIOUS
<1>1. /\ Len(relay) = 0 /\ Len(inbox) = 0 /\ inbox = <<>> /\ home.imported = 0 /\ bounds.sends = 0
      /\ sync.phase = "idle" /\ MaxSends \in Nat
  BY BoundsAssumption DEF Init, Idle
<1>2. ChannelInv
  BY <1>1 DEF ChannelInv, RisingIds, Arrived, PageIsExact
<1>3. AcceptedReports = {} /\ Unreceived = <<>>
  BY <1>1 DEF AcceptedReports, Unreceived
<1> QED BY <1>1, <1>2, <1>3 DEF Channel!ChannelInit

\* Every step of a relay that is not full is a step of the channel, or none.
LEMMA ChannelStep ==
  ASSUME RelayInv, ChannelInv, ~Full, [Next]_vars
  PROVE  ChannelInv' /\ [Channel!ChannelNext]_(Channel!channelVars)
<1>1. CASE UNCHANGED vars
  <2>1. Quiet
    BY <1>1 DEF vars, Quiet
  <2> QED BY <2>1, QuietKeeps DEF Channel!channelVars
<1>2. CASE \/ Ack \/ AckRefused \/ DeliverMail \/ LoseAck \/ SendMail \/ LoseMail
           \/ BeginStop \/ Stop \/ StopInDoubt \/ HomeRestart \/ WorkerRestart
  BY <1>2, QuietActions, QuietKeeps DEF Channel!channelVars
<1>3. CASE Pull
  BY <1>3, PullIsQuiet DEF Channel!channelVars
<1>4. CASE Import
  <2>1. CASE UNCHANGED <<Unreceived, inbox>>
    BY <1>4, <2>1, ImportReceives DEF Channel!channelVars
  <2>2. CASE \E n \in 1..Len(Unreceived) :
               /\ inbox' = inbox \o [i \in 1..n |-> Unreceived[i].id]
               /\ Unreceived' = SubSeq(Unreceived, n + 1, Len(Unreceived))
    BY <1>4, <2>2, ImportReceives, Zenon DEF Channel!ChannelNext, Channel!Receive
  <2> QED BY <1>4, <2>1, <2>2, ImportReceives
<1>5. CASE \E c \in Contents : Send(c)
  <2>1. PICK c \in Contents : Send(c)
    BY <1>5
  <2>2. CASE UNCHANGED <<AcceptedReports, Unreceived>>
    BY <2>1, <2>2, SendAccepts DEF Channel!channelVars
  <2>3. CASE \E m \in SendableMessages :
               /\ AcceptedReports' = IF m.kind = "worker_done" THEN AcceptedReports \cup {m.id}
                                     ELSE AcceptedReports
               /\ Unreceived' = Append(Unreceived, m)
    BY <2>1, <2>3, SendAccepts, Zenon DEF Channel!ChannelNext, Channel!Accept, Channel!Taken
  <2> QED BY <2>1, <2>2, <2>3, SendAccepts
<1>6. CASE ResetMessages
  BY <1>6, ResetClears DEF Channel!ChannelNext, Channel!Clear
<1> QED BY <1>1, <1>2, <1>3, <1>4, <1>5, <1>6 DEF Next, Syncing

\* Fewer messages than the quota never fill the queue.
LEMMA RoomBelowQuota ==
  ASSUME MaxSends < Quota, RelayInv, ChannelInv
  PROVE  ~Full
<1>1. Cardinality(Unacked) \in Nat /\ Cardinality(Unacked) <= Len(relay) /\ Len(relay) \in Nat
  BY UnacknowledgedCount DEF RelayInv, RelayShape, CursorsOrdered
<1>2. Len(relay) <= MaxSends /\ MaxSends \in Nat /\ Quota \in Nat
  BY <1>1, BoundsAssumption DEF ChannelInv
<1> QED BY <1>1, <1>2 DEF Full

\* While the queue is never full, the relay with its pages, cursors, replays and faults
\* implements the abstract channel: each message is received once and in order.
THEOREM ChannelWithoutOverflow == Spec /\ [](~Full) => ImplementsChannel
<1>1. RelayInv /\ ChannelInv /\ ~Full /\ [Next]_vars
        => ChannelInv' /\ [Channel!ChannelNext]_(Channel!channelVars)
  BY ChannelStep
<1> QED BY <1>1, ChannelInitial, RelayInvAlways, PTL DEF Spec, ImplementsChannel, Channel!ChannelSpec

\* The queue cannot fill when fewer messages are sent than it holds, as in relay_live.
THEOREM ChannelBelowQuota ==
  ASSUME MaxSends < Quota
  PROVE  Spec => ImplementsChannel
<1>1. RelayInv /\ ChannelInv /\ [Next]_vars
        => ChannelInv' /\ [Channel!ChannelNext]_(Channel!channelVars)
  BY ChannelStep, RoomBelowQuota
<1> QED BY <1>1, ChannelInitial, RelayInvAlways, PTL DEF Spec, ImplementsChannel, Channel!ChannelSpec
-----------------------------------------------------------------------------
(* The inbox, item by item, below the quota.                                 *)

\* While nothing is ever cleared, all that was imported is in the inbox.
NothingCleared == "reset" \notin Faults => Len(inbox) = home.imported

InboxInv == Contiguous /\ NothingCleared

\* What an import appends continues what was there.
LEMMA ReceivedContinues ==
  ASSUME RelayInv, InboxInv, NEW h, NEW i, Prefix(h, i), Received(h), UNCHANGED relay,
         inbox' = h.inbox, home'.imported = h.imported
  PROVE  InboxInv'
<1>1. PICK old \in Nat, new \in Nat, size \in Nat :
        old = home.imported /\ new = h.imported /\ size = Len(inbox)
  BY DEF RelayInv, RelayShape, HomeRow, Prefix
<1>2. old <= new /\ size <= old
  BY <1>1 DEF Prefix, InboxInv, Contiguous
<1>3. /\ Len(h.inbox) = size + (new - old)
      /\ \A k \in 1..size : h.inbox[k] = inbox[k]
      /\ \A k \in 1..(new - old) : h.inbox[size + k] = relay[old + k].id
  BY <1>1 DEF Received
<1>4. Len(h.inbox) <= new /\ new - Len(h.inbox) = old - size
  BY <1>2, <1>3
<1>5. ASSUME NEW k \in 1..Len(h.inbox) PROVE h.inbox[k] = relay[(old - size) + k].id
  <2>1. CASE k <= size
    <3>1. k \in 1..size
      BY <2>1
    <3>2. inbox[k] = relay[(old - size) + k].id
      BY <1>1, <3>1 DEF InboxInv, Contiguous
    <3> QED BY <1>3, <3>1, <3>2
  <2>2. CASE ~(k <= size)
    <3>1. PICK m \in Nat : m = k - size
      BY <1>3, <2>2
    <3>2. m \in 1..(new - old) /\ k = size + m /\ (old - size) + k = old + m
      BY <1>2, <1>3, <2>2, <3>1
    <3> QED BY <1>3, <3>2
  <2> QED BY <2>1, <2>2
<1>6. Contiguous'
  BY <1>1, <1>4, <1>5 DEF Contiguous
<1>7. NothingCleared'
  BY <1>1, <1>3 DEF InboxInv, NothingCleared
<1> QED BY <1>6, <1>7 DEF InboxInv

\* The inbox stays the last part of what was imported.
LEMMA InboxStep ==
  ASSUME RelayInv, ChannelInv, InboxInv, ~Full, [Next]_vars
  PROVE  InboxInv'
<1>1. ASSUME UNCHANGED <<relay, inbox>>, home'.imported = home.imported
      PROVE  InboxInv'
  BY <1>1 DEF InboxInv, Contiguous, NothingCleared
<1>2. CASE UNCHANGED vars
  BY <1>1, <1>2 DEF vars
<1>3. CASE \/ Ack \/ AckRefused \/ DeliverMail \/ LoseAck \/ SendMail \/ LoseMail
           \/ BeginStop \/ Stop \/ StopInDoubt \/ HomeRestart \/ WorkerRestart
  BY <1>1, <1>3, QuietActions DEF Quiet
<1>4. CASE Pull
  BY <1>1, <1>4 DEF Pull
<1>5. CASE Import
  <2>1. Prefix(Imports, Len(sync.items)) /\ Received(Imports)
    BY <1>5, ImportsReceive DEF Import
  <2>2. UNCHANGED relay /\ inbox' = Imports.inbox /\ home'.imported = Imports.imported
    BY <1>5 DEF Import, RelayInv, RelayShape, HomeRow
  <2> QED BY <2>1, <2>2, ReceivedContinues
<1>6. CASE \E c \in Contents : Send(c)
  <2>1. PICK c \in Contents : Send(c)
    BY <1>6
  <2>2. UNCHANGED <<home, inbox>>
    BY <2>1 DEF Send
  <2>3. PICK item : relay' = relay \/ relay' = Append(relay, item)
    BY <2>1 DEF Send, Enqueued
  <2>4. \A i \in 1..Len(relay) : relay'[i] = relay[i]
    <3>1. relay \in Seq(RelayItem)
      BY DEF RelayInv, RelayShape
    <3> QED BY <2>3, <3>1
  <2>5. PICK old \in Nat, size \in Nat, length \in Nat :
          old = home.imported /\ size = Len(inbox) /\ length = Len(relay)
    BY DEF RelayInv, RelayShape, HomeRow
  <2>6. \A k \in 1..size : old - size + k \in 1..length
    BY <2>5 DEF InboxInv, Contiguous, RelayInv, CursorsOrdered
  <2> QED BY <2>2, <2>4, <2>5, <2>6 DEF InboxInv, Contiguous, NothingCleared
<1>7. CASE ResetMessages
  <2>1. "reset" \in Faults /\ inbox' = <<>> /\ UNCHANGED home
    BY <1>7 DEF ResetMessages, Fault
  <2>2. Len(inbox') = 0 /\ home.imported \in Nat
    BY <2>1 DEF RelayInv, RelayShape, HomeRow
  <2> QED BY <2>1, <2>2 DEF InboxInv, Contiguous, NothingCleared
<1> QED BY <1>2, <1>3, <1>4, <1>5, <1>6, <1>7 DEF Next, Syncing

\* The inbox starts empty, with nothing imported.
LEMMA InboxInitial == Init => InboxInv
BY DEF Init, InboxInv, Contiguous, NothingCleared

\* The queue is numbered in the order of sending, hence so is what was taken from it.
LEMMA InboxIsOrdered ==
  ASSUME RelayInv, ChannelInv, InboxInv
  PROVE  ArrivesInOrder
<1>1. PICK old \in Nat, size \in Nat, length \in Nat :
        old = home.imported /\ size = Len(inbox) /\ length = Len(relay)
  BY DEF RelayInv, RelayShape, HomeRow
<1>2. size <= old /\ old <= length /\ \A k \in 1..size : inbox[k] = relay[old - size + k].id
  BY <1>1 DEF InboxInv, Contiguous, RelayInv, CursorsOrdered
<1>3. ASSUME NEW j \in 1..size, NEW k \in 1..size, j < k PROVE inbox[j] < inbox[k]
  <2>1. PICK a \in 1..length, b \in 1..length : a = old - size + j /\ b = old - size + k /\ a < b
    <3>1. /\ old - size + j \in 1..length /\ old - size + k \in 1..length
          /\ old - size + j < old - size + k
      BY <1>2, <1>3
    <3> QED BY <3>1
  <2>2. relay[a].id < relay[b].id
    BY <1>1, <2>1 DEF ChannelInv, RisingIds
  <2> QED BY <1>2, <2>1, <2>2
<1> QED BY <1>1, <1>3 DEF ArrivesInOrder, InSendingOrder, InboxInv

\* With the inbox never cleared, each report is there or still to be imported.
LEMMA InboxIsComplete ==
  ASSUME RelayInv, InboxInv, "reset" \notin Faults
  PROVE  AcceptedReportIsDeliverable
<1>1. inbox \in Seq(Nat) /\ Len(inbox) = home.imported /\ Len(inbox) \in Nat
  BY DEF RelayInv, RelayShape, InboxInv, NothingCleared
<1>2. ASSUME NEW k \in 1..home.imported PROVE relay[k].id \in Range(inbox)
  <2>1. k \in 1..Len(inbox) /\ home.imported - Len(inbox) + k = k
    BY <1>1
  <2>2. inbox[k] = relay[k].id
    BY <2>1 DEF InboxInv, Contiguous
  <2>3. k \in DOMAIN inbox
    BY <1>1, <2>1
  <2> QED BY <2>2, <2>3 DEF Range
<1> QED BY <1>2 DEF AcceptedReportIsDeliverable

\* While the queue is never full, the inbox is the last part of what was imported, without
\* a gap, without a repetition and in the order of sending.
THEOREM InOrderWithoutOverflow == Spec /\ [](~Full) => []ArrivesInOrder
<1>1. RelayInv /\ ChannelInv /\ InboxInv /\ ~Full /\ [Next]_vars => ChannelInv' /\ InboxInv'
  BY ChannelStep, InboxStep
<1>2. RelayInv /\ ChannelInv /\ InboxInv => ArrivesInOrder
  BY InboxIsOrdered
<1> QED BY <1>1, <1>2, ChannelInitial, InboxInitial, RelayInvAlways, PTL DEF Spec

\* The same when fewer messages are sent than the queue holds, as in relay_live.
THEOREM InOrderBelowQuota ==
  ASSUME MaxSends < Quota
  PROVE  Spec => []ArrivesInOrder
<1>1. RelayInv /\ ChannelInv /\ InboxInv /\ [Next]_vars => ChannelInv' /\ InboxInv'
  BY ChannelStep, InboxStep, RoomBelowQuota
<1>2. RelayInv /\ ChannelInv /\ InboxInv => ArrivesInOrder
  BY InboxIsOrdered
<1> QED BY <1>1, <1>2, ChannelInitial, InboxInitial, RelayInvAlways, PTL DEF Spec

\* What a test of the repository states of the relay ("durably relays remote completion into
\* the home Run") holds unless the queue overflows or the inbox is cleared: no lost call, no
\* restart on either side and no stop loses a report that was accepted.
THEOREM ReportsAreDeliverable ==
  ASSUME "reset" \notin Faults
  PROVE  Spec /\ [](~Full) => []AcceptedReportIsDeliverable
<1>1. RelayInv /\ ChannelInv /\ InboxInv /\ ~Full /\ [Next]_vars => ChannelInv' /\ InboxInv'
  BY ChannelStep, InboxStep
<1>2. RelayInv /\ InboxInv => AcceptedReportIsDeliverable
  BY InboxIsComplete
<1> QED BY <1>1, <1>2, ChannelInitial, InboxInitial, RelayInvAlways, PTL DEF Spec
=============================================================================
