--------------------------- MODULE RunMailboxProofs ---------------------------
(***************************************************************************)
(* What is proved of a Run's mailbox, for any panes, messages, checks and   *)
(* bounds: a batch is one consumer's, no mail is lost or left at a terminal *)
(* that coordinates the Run, and no check waits beside mail it waits for.   *)
(*                                                                         *)
(* A check works on the tables its acknowledgement leaves, so the invariant *)
(* is stated of a mail table "box" and a table of Deliveries "rows".        *)
(***************************************************************************)
EXTENDS RunMailbox, FiniteSetTheorems, WellFoundedInduction, TLAPS

Terminals == Panes \X Nat
MailRow == [id : Messages, type : Types, about : Dispatches \cup {NoDispatch},
            to : Terminals \cup {RunBox}, read : BOOLEAN]
Delivery == [id : Nat \ {0}, generation : Nat, batch : SUBSET Messages,
             status : {"outstanding", "acknowledged", "fenced"}]
Ask == [ack : Nat, peek : BOOLEAN, wait : BOOLEAN, picky : BOOLEAN]
Call == [phase : {"routing", "waiting", "notified"}, pane : Panes,
         generation : Nat, ask : Ask]

\* A message is in the table once.
BoxOK(box) ==
    /\ box \in Seq(MailRow)
    /\ \A i, j \in DOMAIN box : box[i].id = box[j].id => i = j

\* Deliveries bear the numbers given out, each its own.
RowsOK(rows) ==
    /\ rows \subseteq Delivery
    /\ \A d \in rows : d.id <= issued
    /\ \A d, e \in rows : d.id = e.id => d = e

\* One Delivery is outstanding, of the current generation.
CurrentOK(rows) ==
    \A d \in rows : d.status = "outstanding" =>
        /\ d.generation = run.generation
        /\ \A e \in rows : e.status = "outstanding" => e = d

\* Deliveries are of messages in the table, which acknowledgement marks read.
BatchOK(box, rows) ==
    \A d \in rows :
        /\ d.batch \subseteq Ids(box)
        /\ d.status = "acknowledged" =>
             \A i \in DOMAIN box : box[i].id \in d.batch => box[i].read

\* Two Deliveries that were not fenced share no message.
DisjointOK(rows) ==
    \A d, e \in rows : d # e /\ d.status # "fenced" /\ e.status # "fenced"
        => d.batch \cap e.batch = {}

\* An agent that was told of a Delivery was handed its messages, and what is
\* read was handed to some agent or is about a dispatch that is over.
HandedOK(box, rows) ==
    /\ \A d \in rows : d.id \in told => d.batch \subseteq handed
    /\ \A i \in DOMAIN box : box[i].read =>
         \/ box[i].id \in handed
         \/ /\ box[i].type = "heartbeat" /\ box[i].about \in Dispatches
            /\ dispatch[box[i].about] # "dispatched"

\* Unread mail of a coordinator is in the mailbox.
HomeOK(box) == \A i \in DOMAIN box : box[i].read \/ box[i].to \notin known

TablesOK(box, rows) ==
    /\ BoxOK(box) /\ RowsOK(rows) /\ CurrentOK(rows) /\ BatchOK(box, rows)
    /\ DisjointOK(rows) /\ HandedOK(box, rows) /\ HomeOK(box)

\* A check acknowledges only what some agent was told.
CallsOK ==
    /\ calls \in [Calls -> Call \cup {NoCall}]
    /\ \A c \in Calls : calls[c].phase = "routing" =>
         calls[c].ask.ack \in told \cup {NoDelivery}

RunOK ==
    /\ mints \in [Panes -> Nat]
    /\ run \in [handle : Terminals \cup {NoHandle}, generation : Nat]
    /\ known \subseteq Terminals
    /\ issued \in Nat
    /\ dispatch \in [Dispatches -> {"dispatched", "reported", "over"}]
    /\ told \subseteq 1..issued

MailboxInv == TablesOK(mail, deliveries) /\ CallsOK /\ RunOK

-----------------------------------------------------------------------------
(* What the operations on a mail table do, row by row. *)

\* Routing moves unread rows to the mailbox.
LEMMA RoutedRows ==
    ASSUME NEW box \in Seq(MailRow), NEW H
    PROVE  /\ Routed(box, H) \in Seq(MailRow)
           /\ DOMAIN Routed(box, H) = DOMAIN box
           /\ \A i \in DOMAIN box :
                /\ Routed(box, H)[i].id = box[i].id
                /\ Routed(box, H)[i].type = box[i].type
                /\ Routed(box, H)[i].about = box[i].about
                /\ Routed(box, H)[i].read = box[i].read
                /\ Routed(box, H)[i].to = IF box[i].to \in H /\ ~box[i].read
                                          THEN RunBox ELSE box[i].to
<1> DEFINE new(i) == IF box[i].to \in H /\ ~box[i].read
                     THEN [box[i] EXCEPT !.to = RunBox] ELSE box[i]
<1>1. ASSUME NEW i \in DOMAIN box
      PROVE  /\ new(i) \in MailRow
             /\ new(i).id = box[i].id /\ new(i).read = box[i].read
             /\ new(i).type = box[i].type /\ new(i).about = box[i].about
             /\ new(i).to = IF box[i].to \in H /\ ~box[i].read THEN RunBox ELSE box[i].to
    <2>1. box[i] \in MailRow
      OBVIOUS
    <2> QED BY <2>1 DEF MailRow
<1>2. Routed(box, H) = [i \in 1..Len(box) |-> new(i)]
    BY DEF Routed
<1> HIDE DEF new
<1>3. Routed(box, H) \in Seq(MailRow)
    BY <1>1, <1>2
<1> QED BY <1>1, <1>2, <1>3

\* Marking reads rows.
LEMMA MarkedRows ==
    ASSUME NEW box \in Seq(MailRow), NEW ids
    PROVE  /\ Marked(box, ids) \in Seq(MailRow)
           /\ DOMAIN Marked(box, ids) = DOMAIN box
           /\ \A i \in DOMAIN box :
                /\ Marked(box, ids)[i].id = box[i].id
                /\ Marked(box, ids)[i].type = box[i].type
                /\ Marked(box, ids)[i].about = box[i].about
                /\ Marked(box, ids)[i].to = box[i].to
                /\ Marked(box, ids)[i].read <=> (box[i].read \/ box[i].id \in ids)
<1> DEFINE new(i) == IF box[i].id \in ids THEN [box[i] EXCEPT !.read = TRUE] ELSE box[i]
<1>1. ASSUME NEW i \in DOMAIN box
      PROVE  /\ new(i) \in MailRow
             /\ new(i).id = box[i].id /\ new(i).to = box[i].to
             /\ new(i).type = box[i].type /\ new(i).about = box[i].about
             /\ new(i).read <=> (box[i].read \/ box[i].id \in ids)
    <2>1. box[i] \in MailRow
      OBVIOUS
    <2> QED BY <2>1 DEF MailRow
<1>2. Marked(box, ids) = [i \in 1..Len(box) |-> new(i)]
    BY DEF Marked
<1> HIDE DEF new
<1>3. Marked(box, ids) \in Seq(MailRow)
    BY <1>1, <1>2
<1> QED BY <1>1, <1>2, <1>3

\* The checks, when some are woken, cancelled or finished, acknowledge no more.
LEMMA CallsStay ==
    ASSUME CallsOK, told \subseteq told',
           \/ \E box, arrived : calls' = Woken(box, arrived)
           \/ calls' = Cancelled
           \/ \E c \in Calls : calls' = Finished(c)
           \/ calls' = [c \in Calls |-> NoCall]
           \/ calls' = calls
    PROVE  CallsOK'
<1>1. /\ calls \in [Calls -> Call \cup {NoCall}]
      /\ \A c \in Calls : calls[c].phase = "routing" =>
           calls[c].ask.ack \in told \cup {NoDelivery}
    BY DEF CallsOK
<1>2. NoCall.phase # "routing"
    BY DEF NoCall
<1>3. ASSUME NEW c \in Calls, Waiting(c)
      PROVE  /\ [calls[c] EXCEPT !.phase = "notified"] \in Call
             /\ [calls[c] EXCEPT !.phase = "notified"].phase # "routing"
    <2>1. calls[c] \in Call
      BY <1>1, <1>3 DEF Waiting, NoCall
    <2> QED BY <2>1 DEF Call
<1>4. ASSUME NEW box, NEW arrived, calls' = Woken(box, arrived) PROVE CallsOK'
    <2>1. calls' \in [Calls -> Call \cup {NoCall}]
      BY <1>1, <1>3, <1>4 DEF Woken
    <2>2. \A c \in Calls : calls'[c].phase = "routing" => calls'[c] = calls[c]
      BY <1>1, <1>3, <1>4 DEF Woken
    <2> QED BY <1>1, <2>1, <2>2 DEF CallsOK
<1>5. CASE calls' = Cancelled
    BY <1>1, <1>2, <1>5 DEF CallsOK, Cancelled
<1>6. CASE \E c \in Calls : calls' = Finished(c)
    BY <1>1, <1>2, <1>6 DEF CallsOK, Finished
<1>7. CASE calls' = [c \in Calls |-> NoCall]
    BY <1>1, <1>2, <1>7 DEF CallsOK
<1>8. CASE calls' = calls
    BY <1>1, <1>8 DEF CallsOK
<1> QED BY <1>4, <1>5, <1>6, <1>7, <1>8

\* A table whose rows are moved to the mailbox at most is as good as it was.
LEMMA RoutedTables ==
    ASSUME NEW box, NEW rows, NEW H, TablesOK(box, rows)
    PROVE  /\ BoxOK(Routed(box, H)) /\ BatchOK(Routed(box, H), rows)
           /\ HandedOK(Routed(box, H), rows)
           /\ RunBox \notin known => HomeOK(Routed(box, H))
<1>1. box \in Seq(MailRow)
    BY DEF TablesOK, BoxOK
<1>2. /\ Routed(box, H) \in Seq(MailRow)
      /\ DOMAIN Routed(box, H) = DOMAIN box
      /\ \A i \in DOMAIN box :
            /\ Routed(box, H)[i].id = box[i].id
            /\ Routed(box, H)[i].type = box[i].type
            /\ Routed(box, H)[i].about = box[i].about
            /\ Routed(box, H)[i].read = box[i].read
            /\ Routed(box, H)[i].to = IF box[i].to \in H /\ ~box[i].read
                                      THEN RunBox ELSE box[i].to
    BY <1>1, RoutedRows
<1>3. Ids(Routed(box, H)) = Ids(box)
    BY <1>2 DEF Ids
<1>4. BoxOK(Routed(box, H))
    BY <1>2 DEF TablesOK, BoxOK
<1>5. BatchOK(Routed(box, H), rows)
    BY <1>2, <1>3 DEF TablesOK, BatchOK
<1>6. HandedOK(Routed(box, H), rows)
    BY <1>2 DEF TablesOK, HandedOK
<1>7. RunBox \notin known => HomeOK(Routed(box, H))
    BY <1>2 DEF TablesOK, HomeOK
<1> QED BY <1>4, <1>5, <1>6, <1>7

\* A table whose rows are marked is as good, if they were handed to an agent.
LEMMA MarkedTables ==
    ASSUME NEW box, NEW rows, NEW ids, TablesOK(box, rows)
    PROVE  /\ BoxOK(Marked(box, ids)) /\ BatchOK(Marked(box, ids), rows)
           /\ HomeOK(Marked(box, ids))
           /\ ids \subseteq handed => TablesOK(Marked(box, ids), rows)
<1>1. box \in Seq(MailRow)
    BY DEF TablesOK, BoxOK
<1>2. /\ Marked(box, ids) \in Seq(MailRow)
      /\ DOMAIN Marked(box, ids) = DOMAIN box
      /\ \A i \in DOMAIN box :
            /\ Marked(box, ids)[i].id = box[i].id
            /\ Marked(box, ids)[i].type = box[i].type
            /\ Marked(box, ids)[i].about = box[i].about
            /\ Marked(box, ids)[i].to = box[i].to
            /\ Marked(box, ids)[i].read <=> (box[i].read \/ box[i].id \in ids)
    BY <1>1, MarkedRows
<1>3. Ids(Marked(box, ids)) = Ids(box)
    BY <1>2 DEF Ids
<1>4. BoxOK(Marked(box, ids))
    BY <1>2 DEF TablesOK, BoxOK
<1>5. BatchOK(Marked(box, ids), rows)
    BY <1>2, <1>3 DEF TablesOK, BatchOK
<1>6. ids \subseteq handed => HandedOK(Marked(box, ids), rows)
    BY <1>2 DEF TablesOK, HandedOK
<1>7. HomeOK(Marked(box, ids))
    BY <1>2 DEF TablesOK, HomeOK
<1> QED BY <1>4, <1>5, <1>6, <1>7 DEF TablesOK

\* A row that is new, and not left at a coordinator's terminal, spoils no table.
LEMMA InsertedTables ==
    ASSUME NEW box, NEW rows, BoxOK(box), BatchOK(box, rows), HomeOK(box),
           NEW row \in MailRow, row.id \notin Ids(box), row.to \notin known
    PROVE  /\ BoxOK(Append(box, row)) /\ BatchOK(Append(box, row), rows)
           /\ HomeOK(Append(box, row))
           /\ DOMAIN Append(box, row) = 1..(Len(box) + 1) /\ DOMAIN box = 1..Len(box)
           /\ \A i \in DOMAIN box : Append(box, row)[i] = box[i]
           /\ Append(box, row)[Len(box) + 1] = row
           /\ Ids(Append(box, row)) = Ids(box) \cup {row.id}
<1>1. box \in Seq(MailRow) /\ Len(box) \in Nat
    BY DEF BoxOK
<1> DEFINE new == Append(box, row)
<1>2. /\ new \in Seq(MailRow)
      /\ DOMAIN new = 1..(Len(box) + 1) /\ DOMAIN box = 1..Len(box)
      /\ \A i \in DOMAIN box : new[i] = box[i]
      /\ new[Len(box) + 1] = row
    BY <1>1
<1> HIDE DEF new
<1>3. \A i \in DOMAIN new : i \in DOMAIN box \/ i = Len(box) + 1
    BY <1>1, <1>2
<1>4. BoxOK(new)
    BY <1>2, <1>3 DEF BoxOK, Ids
<1>5. Ids(new) = Ids(box) \cup {row.id}
    BY <1>1, <1>2, <1>3 DEF Ids
<1>6. BatchOK(new, rows)
  <2> SUFFICES ASSUME NEW d \in rows
               PROVE  /\ d.batch \subseteq Ids(new)
                      /\ d.status = "acknowledged" =>
                           \A i \in DOMAIN new : new[i].id \in d.batch => new[i].read
    BY DEF BatchOK
  <2>1. /\ d.batch \subseteq Ids(box)
        /\ d.status = "acknowledged" =>
             \A i \in DOMAIN box : box[i].id \in d.batch => box[i].read
    BY DEF BatchOK
  <2> QED BY <1>2, <1>3, <1>5, <2>1
<1>7. HomeOK(new)
    BY <1>2, <1>3 DEF HomeOK
<1> QED BY <1>2, <1>4, <1>5, <1>6, <1>7 DEF new

\* The mailbox's own address is no terminal.
LEMMA RunBoxIsNoTerminal ==
    ASSUME RunOK
    PROVE  RunBox \notin known
    BY MailboxAssumption DEF RunOK, Terminals

-----------------------------------------------------------------------------
\* Init establishes the invariant.
LEMMA MailboxInitInv == Init => MailboxInv
<1> SUFFICES ASSUME Init PROVE MailboxInv
    OBVIOUS
<1>1. PICK p \in Panes : /\ run = [handle |-> <<p, 0>>, generation |-> 1]
                         /\ known = {<<p, 0>>}
    BY DEF Init
<1>2. TablesOK(mail, deliveries)
    BY DEF Init, TablesOK, BoxOK, RowsOK, CurrentOK, BatchOK, DisjointOK, HandedOK, HomeOK
<1>3. CallsOK
    BY DEF Init, CallsOK, NoCall
<1>4. RunOK
    BY <1>1 DEF Init, RunOK, Terminals
<1> QED BY <1>2, <1>3, <1>4 DEF MailboxInv

\* Send appends one row, which the trigger sends to the mailbox.
LEMMA SendKeepsInv ==
    ASSUME MailboxInv, NEW m \in Messages, NEW to \in Handles \cup {RunBox}, Send(m, to)
    PROVE  MailboxInv'
<1> DEFINE row == Row(m, "status", NoDispatch, IF to \in known THEN RunBox ELSE to)
           box == Stored(mail, m, to)
<1>1. /\ m \notin Ids(mail)
      /\ mail' = Notified(box, to)
      /\ UNCHANGED <<mints, run, known, deliveries, issued, dispatch, told, handed>>
      /\ \E after, arrived : calls' = Woken(after, arrived)
    BY DEF Send
<1>2. row \in MailRow /\ row.id = m /\ row.read = FALSE /\ row.to \notin known
    BY RunBoxIsNoTerminal DEF Row, Types, Handles, MailRow, Terminals, MailboxInv
<1>3. box = Append(mail, row)
    BY DEF Stored
<1> HIDE DEF row, box
<1>4. /\ BoxOK(box) /\ BatchOK(box, deliveries) /\ HomeOK(box)
      /\ DOMAIN box = 1..(Len(mail) + 1) /\ DOMAIN mail = 1..Len(mail)
      /\ \A i \in DOMAIN mail : box[i] = mail[i]
      /\ box[Len(mail) + 1] = row
    BY <1>1, <1>2, <1>3, InsertedTables DEF MailboxInv, TablesOK
<1>5. HandedOK(box, deliveries)
  <2>1. Len(mail) \in Nat
    BY DEF MailboxInv, TablesOK, BoxOK
  <2>2. \A i \in DOMAIN box : i \in DOMAIN mail \/ i = Len(mail) + 1
    BY <1>4, <2>1
  <2> QED BY <1>2, <1>4, <2>2 DEF MailboxInv, TablesOK, HandedOK
<1>6. TablesOK(box, deliveries)
    BY <1>4, <1>5 DEF MailboxInv, TablesOK
<1>7. TablesOK(mail', deliveries)
  <2>1. CASE mail' = box
    BY <1>6, <2>1
  <2>2. CASE mail' = Routed(box, {to})
    BY <1>6, <2>2, RoutedTables, RunBoxIsNoTerminal DEF TablesOK, MailboxInv
  <2> QED BY <1>1, <2>1, <2>2 DEF Notified
<1>8. TablesOK(mail, deliveries)'
    BY <1>1, <1>7 DEF TablesOK, BoxOK, RowsOK, CurrentOK, BatchOK, DisjointOK, HandedOK, HomeOK
<1>9. CallsOK' /\ RunOK'
    BY <1>1, CallsStay DEF MailboxInv, RunOK
<1> QED BY <1>8, <1>9 DEF MailboxInv

\* The dispatches only ever stop running.
Ending == \A d \in Dispatches : dispatch'[d] = dispatch[d] \/ dispatch'[d] # "dispatched"

\* A worker's message is put in the mailbox, and heartbeats that are obsolete by then
\* may be marked.
LEMMA ArrivalKeepsInv ==
    ASSUME MailboxInv, NEW ids, NEW row \in MailRow,
           row.id \notin Ids(mail), row.to = RunBox,
           mail' = Append(Marked(mail, ids), row),
           row.read => row.type = "heartbeat" /\ row.about \in Dispatches
                         /\ dispatch'[row.about] # "dispatched",
           \A i \in DOMAIN mail : mail[i].id \in ids =>
               mail[i].type = "heartbeat" /\ mail[i].about \in Dispatches
                 /\ dispatch'[mail[i].about] # "dispatched",
           Ending, dispatch' \in [Dispatches -> {"dispatched", "reported", "over"}],
           (\E box, arrived : calls' = Woken(box, arrived)) \/ calls' = calls,
           UNCHANGED <<mints, run, known, deliveries, issued, told, handed>>
    PROVE  MailboxInv'
<1> DEFINE base == Marked(mail, ids)
<1>1. /\ BoxOK(base) /\ BatchOK(base, deliveries) /\ HomeOK(base)
    BY MarkedTables DEF MailboxInv
<1>2. /\ DOMAIN base = DOMAIN mail
      /\ \A i \in DOMAIN mail :
            /\ base[i].id = mail[i].id
            /\ base[i].type = mail[i].type
            /\ base[i].about = mail[i].about
            /\ base[i].read <=> (mail[i].read \/ mail[i].id \in ids)
    BY MarkedRows DEF MailboxInv, TablesOK, BoxOK
<1>3. Ids(base) = Ids(mail)
    BY <1>2 DEF Ids
<1>4. row.to \notin known
    BY RunBoxIsNoTerminal DEF MailboxInv
<1> HIDE DEF base
<1>5. mail' = Append(base, row)
    BY DEF base
<1>6. /\ BoxOK(mail') /\ BatchOK(mail', deliveries) /\ HomeOK(mail')
      /\ DOMAIN mail' = 1..(Len(base) + 1) /\ DOMAIN base = 1..Len(base)
      /\ \A i \in DOMAIN base : mail'[i] = base[i]
      /\ mail'[Len(base) + 1] = row
    BY <1>1, <1>3, <1>4, <1>5, InsertedTables
<1>7. HandedOK(mail, deliveries)'
  <2> SUFFICES ASSUME NEW i \in DOMAIN mail', mail'[i].read
               PROVE  \/ mail'[i].id \in handed'
                      \/ /\ mail'[i].type = "heartbeat" /\ mail'[i].about \in Dispatches
                         /\ dispatch'[mail'[i].about] # "dispatched"
    BY DEF HandedOK, MailboxInv, TablesOK
  <2>1. CASE i = Len(base) + 1
    BY <1>6, <2>1
  <2>2. CASE i \in DOMAIN base /\ mail[i].id \in ids
    BY <1>2, <1>6, <2>2
  <2>3. CASE i \in DOMAIN base /\ mail[i].read
    <3>1. \/ mail[i].id \in handed
          \/ /\ mail[i].type = "heartbeat" /\ mail[i].about \in Dispatches
             /\ dispatch[mail[i].about] # "dispatched"
      BY <1>2, <2>3 DEF HandedOK, MailboxInv, TablesOK
    <3>2. mail'[i].id = mail[i].id /\ mail'[i].type = mail[i].type /\ mail'[i].about = mail[i].about
      BY <1>2, <1>6, <2>3
    <3> QED BY <3>1, <3>2 DEF Ending
  <2>4. Len(base) \in Nat
    BY <1>1 DEF BoxOK
  <2> QED BY <1>2, <1>6, <2>1, <2>2, <2>3, <2>4
<1>8. TablesOK(mail, deliveries)'
    BY <1>6, <1>7 DEF MailboxInv, TablesOK, BoxOK, RowsOK, CurrentOK, BatchOK, DisjointOK, HomeOK
<1>9. CallsOK' /\ RunOK'
    BY CallsStay DEF MailboxInv, RunOK
<1> QED BY <1>8, <1>9 DEF MailboxInv

\* A table is as it was when nothing in it is marked.
LEMMA MarkedNothing ==
    ASSUME NEW box \in Seq(MailRow)
    PROVE  Marked(box, {}) = box
    BY DEF Marked

\* A heartbeat that is kept as read is about a dispatch that is over.
LEMMA HeartbeatKeepsInv ==
    ASSUME MailboxInv, NEW m \in Messages, NEW d \in Dispatches, Heartbeat(m, d)
    PROVE  MailboxInv'
<1>1. PICK rejected \in BOOLEAN :
        LET row == Row(m, "heartbeat", d, RunBox)
            suppressed == ~rejected /\ dispatch[d] # "dispatched"
        IN  /\ mail' = Append(mail, [row EXCEPT !.read = suppressed])
            /\ calls' = IF suppressed THEN calls ELSE Woken(mail', {m})
    BY DEF Heartbeat
<1> DEFINE read == ~rejected /\ dispatch[d] # "dispatched"
           row == [Row(m, "heartbeat", d, RunBox) EXCEPT !.read = read]
<1>2. /\ m \notin Ids(mail) /\ mail' = Append(mail, row)
      /\ (\E box, arrived : calls' = Woken(box, arrived)) \/ calls' = calls
      /\ UNCHANGED <<mints, run, known, deliveries, issued, dispatch, told, handed>>
    BY <1>1 DEF Heartbeat
<1>3. /\ row \in MailRow /\ row.id = m /\ row.to = RunBox /\ row.type = "heartbeat"
      /\ row.about = d /\ row.read = read
    BY DEF Row, MailRow, Types
<1> HIDE DEF row
<1>4. mail \in Seq(MailRow) /\ Marked(mail, {}) = mail
    BY MarkedNothing DEF MailboxInv, TablesOK, BoxOK
<1>5. Ending /\ dispatch' \in [Dispatches -> {"dispatched", "reported", "over"}]
    BY <1>2 DEF Ending, MailboxInv, RunOK
<1>6. row.read => dispatch'[row.about] # "dispatched"
    BY <1>2, <1>3
<1>7. mail' = Append(Marked(mail, {}), row)
    BY <1>2, <1>4
<1>8. /\ row \in MailRow /\ row.id \notin Ids(mail) /\ row.to = RunBox
      /\ row.type = "heartbeat" /\ row.about \in Dispatches
    BY <1>2, <1>3
<1> HIDE DEF read
<1> QED BY <1>2, <1>5, <1>6, <1>7, <1>8, ArrivalKeepsInv

\* A report takes heartbeats about the dispatch it settles from the unread mail.
LEMMA ReportKeepsInv ==
    ASSUME MailboxInv, NEW m \in Messages, NEW d \in Dispatches, Report(m, d)
    PROVE  MailboxInv'
<1> DEFINE row == Row(m, "worker_done", d, RunBox)
<1>1. /\ m \notin Ids(mail)
      /\ \E box, arrived : calls' = Woken(box, arrived)
      /\ UNCHANGED <<mints, run, known, deliveries, issued, told, handed>>
    BY DEF Report
<1>2. row \in MailRow /\ row.id = m /\ row.to = RunBox /\ row.read = FALSE
    BY DEF Row, MailRow, Types
<1>3. mail \in Seq(MailRow) /\ \A i, j \in DOMAIN mail : mail[i].id = mail[j].id => i = j
    BY DEF MailboxInv, TablesOK, BoxOK
<1>4. dispatch \in [Dispatches -> {"dispatched", "reported", "over"}]
    BY DEF MailboxInv, RunOK
<1>5. CASE /\ mail' = Append(Marked(mail, EarlierHeartbeats(mail, d)), row)
           /\ dispatch' = [dispatch EXCEPT ![d] = "reported"]
  <2>1. /\ Ending /\ dispatch'[d] = "reported"
        /\ dispatch' \in [Dispatches -> {"dispatched", "reported", "over"}]
    BY <1>4, <1>5 DEF Ending
  <2>2. \A i \in DOMAIN mail : mail[i].id \in EarlierHeartbeats(mail, d) =>
          mail[i].type = "heartbeat" /\ mail[i].about = d
    BY <1>3 DEF EarlierHeartbeats, Unread
  <2> HIDE DEF row
  <2> QED BY <1>1, <1>2, <1>5, <2>1, <2>2, ArrivalKeepsInv
<1>6. CASE mail' = Append(mail, row) /\ UNCHANGED dispatch
  <2>1. Marked(mail, {}) = mail
    BY <1>3, MarkedNothing
  <2>2. Ending
    BY <1>6 DEF Ending
  <2> HIDE DEF row
  <2> QED BY <1>1, <1>2, <1>4, <1>6, <2>1, <2>2, ArrivalKeepsInv
<1> QED BY <1>5, <1>6 DEF Report

\* A dispatch that ends makes heartbeats obsolete and none of them current.
LEMMA EndKeepsInv ==
    ASSUME MailboxInv, NEW d \in Dispatches, End(d)
    PROVE  MailboxInv'
<1>1. /\ dispatch' = [dispatch EXCEPT ![d] = "over"]
      /\ UNCHANGED <<mints, run, known, mail, deliveries, issued, calls, told, handed>>
    BY DEF End
<1>2. dispatch \in [Dispatches -> {"dispatched", "reported", "over"}]
    BY DEF MailboxInv, RunOK
<1>3. Ending /\ dispatch' \in [Dispatches -> {"dispatched", "reported", "over"}]
    BY <1>1, <1>2 DEF Ending
<1>4. HandedOK(mail, deliveries)'
    BY <1>1, <1>3 DEF MailboxInv, TablesOK, HandedOK, Ending
<1>5. TablesOK(mail, deliveries)'
    BY <1>1, <1>4 DEF MailboxInv, TablesOK, BoxOK, RowsOK, CurrentOK, BatchOK, DisjointOK, HomeOK
<1>6. CallsOK' /\ RunOK'
    BY <1>1, <1>3, CallsStay DEF MailboxInv, RunOK
<1> QED BY <1>5, <1>6 DEF MailboxInv

\* reply marks a message an agent was handed.
LEMMA ReplyKeepsInv ==
    ASSUME MailboxInv, NEW m \in Messages, Reply(m)
    PROVE  MailboxInv'
<1>1. /\ {m} \subseteq handed /\ mail' = Marked(mail, {m})
      /\ UNCHANGED <<mints, run, known, deliveries, issued, calls, dispatch, told, handed>>
    BY DEF Reply
<1>2. TablesOK(mail', deliveries)
    BY <1>1, MarkedTables DEF MailboxInv
<1>3. TablesOK(mail, deliveries)'
    BY <1>1, <1>2 DEF TablesOK, BoxOK, RowsOK, CurrentOK, BatchOK, DisjointOK, HandedOK, HomeOK
<1>4. CallsOK' /\ RunOK'
    BY <1>1, CallsStay DEF MailboxInv, RunOK
<1> QED BY <1>3, <1>4 DEF MailboxInv

-----------------------------------------------------------------------------
\* A takeover fences what is outstanding and leaves the rest.
LEMMA FencedRows ==
    ASSUME RowsOK(deliveries)
    PROVE  /\ Fenced(deliveries) \subseteq Delivery
           /\ \A e \in Fenced(deliveries) :
                /\ e.status # "outstanding"
                /\ e.status # "fenced" => e \in deliveries
                /\ \E d \in deliveries :
                     /\ d.id = e.id /\ d.batch = e.batch
                     /\ d.status # "outstanding" => d = e
                     /\ d.status = "outstanding" => e = [d EXCEPT !.status = "fenced"]
<1>1. deliveries \subseteq Delivery
    BY DEF RowsOK
<1>2. ASSUME NEW e \in Fenced(deliveries)
      PROVE  /\ e \in Delivery
             /\ e.status # "outstanding"
             /\ e.status # "fenced" => e \in deliveries
             /\ \E d \in deliveries :
                  /\ d.id = e.id /\ d.batch = e.batch
                  /\ d.status # "outstanding" => d = e
                  /\ d.status = "outstanding" => e = [d EXCEPT !.status = "fenced"]
  <2>1. CASE e \in deliveries /\ e.status # "outstanding"
    BY <1>1, <2>1
  <2>2. CASE \E d \in Outstanding(deliveries) : e = [d EXCEPT !.status = "fenced"]
    <3>1. PICK d \in deliveries : d.status = "outstanding" /\ e = [d EXCEPT !.status = "fenced"]
      BY <2>2 DEF Outstanding
    <3>2. d \in Delivery
      BY <1>1, <3>1
    <3>3. e \in Delivery /\ e.id = d.id /\ e.batch = d.batch /\ e.status = "fenced"
      BY <3>1, <3>2 DEF Delivery
    <3> QED BY <3>1, <3>3
  <2> QED BY <2>1, <2>2 DEF Fenced, Outstanding
<1> QED BY <1>2

\* A table of Deliveries stays good when what is outstanding is fenced.
LEMMA FencedTables ==
    ASSUME NEW box, TablesOK(box, deliveries)
    PROVE  /\ RowsOK(Fenced(deliveries)) /\ BatchOK(box, Fenced(deliveries))
           /\ DisjointOK(Fenced(deliveries)) /\ HandedOK(box, Fenced(deliveries))
           /\ \A e \in Fenced(deliveries) : e.status # "outstanding"
<1>1. RowsOK(deliveries)
    BY DEF TablesOK
<1> DEFINE rows == Fenced(deliveries)
<1>2. /\ rows \subseteq Delivery
      /\ \A e \in rows :
            /\ e.status # "outstanding"
            /\ e.status # "fenced" => e \in deliveries
            /\ \E d \in deliveries :
                 /\ d.id = e.id /\ d.batch = e.batch
                 /\ d.status # "outstanding" => d = e
                 /\ d.status = "outstanding" => e = [d EXCEPT !.status = "fenced"]
    BY <1>1, FencedRows
<1> HIDE DEF rows
<1>3. RowsOK(rows)
  <2>1. \A e \in rows : e.id <= issued
    BY <1>1, <1>2 DEF RowsOK
  <2>2. ASSUME NEW e \in rows, NEW f \in rows, e.id = f.id PROVE e = f
    <3>1. PICK d \in deliveries : /\ d.id = e.id
                                  /\ d.status # "outstanding" => d = e
                                  /\ d.status = "outstanding" => e = [d EXCEPT !.status = "fenced"]
      BY <1>2
    <3>2. PICK g \in deliveries : /\ g.id = f.id
                                  /\ g.status # "outstanding" => g = f
                                  /\ g.status = "outstanding" => f = [g EXCEPT !.status = "fenced"]
      BY <1>2
    <3>3. d = g
      BY <1>1, <2>2, <3>1, <3>2 DEF RowsOK
    <3> QED BY <3>1, <3>2, <3>3
  <2> QED BY <1>2, <2>1, <2>2 DEF RowsOK
<1>4. BatchOK(box, rows)
    BY <1>2 DEF TablesOK, BatchOK
<1>5. DisjointOK(rows)
    BY <1>2 DEF TablesOK, DisjointOK
<1>6. HandedOK(box, rows)
    BY <1>2 DEF TablesOK, HandedOK
<1> QED BY <1>2, <1>3, <1>4, <1>5, <1>6 DEF rows

\* runUse brings the mail of the former and of the new coordinator home.
LEMMA UseKeepsInv ==
    ASSUME MailboxInv, NEW p \in Panes, Use(p)
    PROVE  MailboxInv'
<1> DEFINE H == ({run.handle} \ {NoHandle}) \cup {Handle(p)}
           same == run.handle = Handle(p)
<1>1. /\ known' = known \cup H
      /\ mail' = Routed(mail, H)
      /\ run' = IF same THEN run ELSE [handle |-> Handle(p), generation |-> run.generation + 1]
      /\ deliveries' = IF same THEN deliveries ELSE Fenced(deliveries)
      /\ calls' = Cancelled
      /\ UNCHANGED <<mints, issued, dispatch, told, handed>>
    BY DEF Use
<1>2. H \subseteq Terminals
    BY DEF MailboxInv, RunOK, Handle, Terminals
<1> HIDE DEF H, same
<1>3. RunOK'
    BY <1>1, <1>2 DEF MailboxInv, RunOK, Handle, Terminals
<1>4. mail \in Seq(MailRow) /\ TablesOK(mail, deliveries)
    BY DEF MailboxInv, TablesOK, BoxOK
<1>5. HomeOK(mail)'
  <2>1. RunBox \notin known'
    BY <1>3, MailboxAssumption DEF RunOK, Terminals
  <2> QED BY <1>1, <1>4, <2>1, RoutedRows DEF TablesOK, HomeOK
<1>6. BoxOK(mail') /\ BatchOK(mail', deliveries) /\ HandedOK(mail', deliveries)
    BY <1>1, <1>4, RoutedTables
<1>7. TablesOK(mail, deliveries)'
  <2>1. CASE same
    BY <1>1, <1>4, <1>5, <1>6, <2>1
       DEF TablesOK, BoxOK, RowsOK, CurrentOK, BatchOK, DisjointOK, HandedOK
  <2>2. CASE ~same
    <3> DEFINE rows == Fenced(deliveries)
    <3>1. TablesOK(Routed(mail, H), deliveries)
      BY <1>1, <1>4, RoutedTables, RunBoxIsNoTerminal DEF TablesOK, MailboxInv
    <3>2. /\ RowsOK(rows) /\ BatchOK(mail', rows) /\ DisjointOK(rows) /\ HandedOK(mail', rows)
          /\ \A e \in rows : e.status # "outstanding"
      BY <1>1, <3>1, FencedTables
    <3>3. deliveries' = rows
      BY <1>1, <2>2
    <3> HIDE DEF rows
    <3> QED BY <1>1, <1>5, <1>6, <3>2, <3>3
            DEF TablesOK, BoxOK, RowsOK, CurrentOK, BatchOK, DisjointOK, HandedOK
  <2> QED BY <2>1, <2>2
<1>8. CallsOK'
    BY <1>1, CallsStay DEF MailboxInv
<1> QED BY <1>3, <1>7, <1>8 DEF MailboxInv

\* A pane that leaves the Run leaves no batch behind.
LEMMA LeaveKeepsInv ==
    ASSUME MailboxInv, Leave
    PROVE  MailboxInv'
<1> DEFINE H == {run.handle}
           rows == Fenced(deliveries)
<1>1. /\ mail' = Routed(mail, H)
      /\ run' = [handle |-> NoHandle, generation |-> run.generation + 1]
      /\ deliveries' = rows
      /\ calls' = Cancelled
      /\ UNCHANGED <<mints, known, issued, dispatch, told, handed>>
    BY DEF Leave
<1>2. RunOK'
    BY <1>1 DEF MailboxInv, RunOK
<1>3. TablesOK(Routed(mail, H), deliveries)
    BY RoutedTables, RunBoxIsNoTerminal DEF TablesOK, MailboxInv
<1>4. /\ RowsOK(rows) /\ BatchOK(mail', rows) /\ DisjointOK(rows) /\ HandedOK(mail', rows)
      /\ \A e \in rows : e.status # "outstanding"
    BY <1>1, <1>3, FencedTables
<1> HIDE DEF rows, H
<1>5. TablesOK(mail, deliveries)'
    BY <1>1, <1>3, <1>4
       DEF TablesOK, BoxOK, RowsOK, CurrentOK, BatchOK, DisjointOK, HandedOK, HomeOK
<1>6. CallsOK'
    BY <1>1, CallsStay DEF MailboxInv
<1> QED BY <1>2, <1>5, <1>6 DEF MailboxInv

-----------------------------------------------------------------------------
(* A check. *)

\* It routes direct mail, and may carry an acknowledgement of what was told.
LEMMA CheckKeepsInv ==
    ASSUME MailboxInv, NEW c \in Calls, NEW p \in Panes, NEW ask \in Asks, Check(c, p, ask)
    PROVE  MailboxInv'
<1> DEFINE H == {Handle(p), run.handle}
           new == [phase |-> "routing", pane |-> p, generation |-> run.generation, ask |-> ask]
<1>1. /\ mail' = Routed(mail, H)
      /\ calls' = [calls EXCEPT ![c] = new]
      /\ UNCHANGED <<mints, run, known, deliveries, issued, dispatch, told, handed>>
    BY DEF Check
<1>2. ask.ack \in told \cup {NoDelivery} /\ ask \in Ask
  <2>1. ask \in [ack : told \cup {NoDelivery}, peek : BOOLEAN, wait : BOOLEAN, picky : BOOLEAN]
    BY DEF Asks
  <2>2. told \cup {NoDelivery} \subseteq Nat
    BY DEF MailboxInv, RunOK, NoDelivery
  <2>3. ask.ack \in told \cup {NoDelivery}
    BY <2>1
  <2>4. [ack : told \cup {NoDelivery}, peek : BOOLEAN, wait : BOOLEAN, picky : BOOLEAN]
          \subseteq Ask
    BY <2>2, Zenon DEF Ask
  <2> QED BY <2>1, <2>3, <2>4
<1>3. new \in Call /\ new.ask.ack \in told \cup {NoDelivery}
    BY <1>2 DEF Call, MailboxInv, RunOK
<1>4. TablesOK(Routed(mail, H), deliveries)
    BY RoutedTables, RunBoxIsNoTerminal DEF TablesOK, MailboxInv
<1> HIDE DEF new, H
<1>5. TablesOK(mail, deliveries)'
    BY <1>1, <1>4
       DEF TablesOK, BoxOK, RowsOK, CurrentOK, BatchOK, DisjointOK, HandedOK, HomeOK
<1>6. CallsOK'
    BY <1>1, <1>3 DEF MailboxInv, CallsOK
<1>7. RunOK'
    BY <1>1 DEF MailboxInv, RunOK
<1> QED BY <1>5, <1>6, <1>7 DEF MailboxInv

\* A refused check, and one that gives up, changes no table.
LEMMA RefuseKeepsInv ==
    ASSUME MailboxInv, NEW c \in Calls, Refuse(c)
    PROVE  MailboxInv'
<1>1. /\ calls' = Finished(c)
      /\ UNCHANGED <<mints, run, known, mail, deliveries, issued, dispatch, told, handed>>
    BY DEF Refuse
<1>2. TablesOK(mail, deliveries)'
    BY <1>1 DEF MailboxInv, TablesOK, BoxOK, RowsOK, CurrentOK, BatchOK, DisjointOK, HandedOK,
       HomeOK
<1>3. CallsOK' /\ RunOK'
    BY <1>1, CallsStay DEF MailboxInv, RunOK
<1> QED BY <1>2, <1>3 DEF MailboxInv

\* An acknowledgement of a Delivery that was told leaves good tables.
LEMMA AcknowledgedTables ==
    ASSUME MailboxInv, NEW id \in told \cup {NoDelivery}
    PROVE  TablesOK(Acknowledged(id).mail, Acknowledged(id).deliveries)
<1> DEFINE acked == {d \in Outstanding(deliveries) : d.id = id}
           read == UNION {d.batch : d \in acked}
           box == Marked(mail, read)
           rows == (deliveries \ acked) \cup {[d EXCEPT !.status = "acknowledged"] : d \in acked}
<1>1. Acknowledged(id).mail = box /\ Acknowledged(id).deliveries = rows
    BY DEF Acknowledged
<1>2. \A d \in acked : d \in deliveries /\ d.status = "outstanding" /\ d.id \in told
    BY DEF Outstanding, NoDelivery, MailboxInv, TablesOK, RowsOK, Delivery
<1>3. deliveries \subseteq Delivery /\ TablesOK(mail, deliveries)
    BY DEF MailboxInv, TablesOK, RowsOK
<1>4. read \subseteq handed
    BY <1>2, <1>3 DEF TablesOK, HandedOK
<1>5. TablesOK(box, deliveries)
    BY <1>3, <1>4, MarkedTables
<1>6. ASSUME NEW e \in rows
      PROVE  \/ e \in deliveries /\ e \notin acked
             \/ /\ e \in Delivery /\ e.status = "acknowledged"
                /\ \E d \in acked : e = [d EXCEPT !.status = "acknowledged"]
                                     /\ e.id = d.id /\ e.batch = d.batch
  <2>1. ASSUME NEW d \in acked, e = [d EXCEPT !.status = "acknowledged"]
        PROVE  e \in Delivery /\ e.status = "acknowledged" /\ e.id = d.id /\ e.batch = d.batch
    BY <1>2, <1>3, <2>1 DEF Delivery
  <2> QED BY <2>1
<1>7. ASSUME NEW d \in acked
      PROVE  \A i \in DOMAIN box : box[i].id \in d.batch => box[i].read
  <2>1. mail \in Seq(MailRow) /\ d.batch \subseteq read
    BY <1>3 DEF TablesOK, BoxOK
  <2>2. \A i \in DOMAIN box : /\ box[i].id = mail[i].id
                              /\ box[i].read <=> (mail[i].read \/ mail[i].id \in read)
    BY <2>1, MarkedRows
  <2> QED BY <2>1, <2>2
<1> HIDE DEF rows, acked, box, read
<1>8. RowsOK(rows)
  <2>1. rows \subseteq Delivery
    BY <1>3, <1>6
  <2>2. \A e \in rows : \E d \in deliveries : e.id = d.id /\ (e = d \/ d \in acked)
    BY <1>2, <1>6
  <2>3. \A e \in rows : e.id <= issued
    BY <1>3, <2>2 DEF TablesOK, RowsOK
  <2>4. ASSUME NEW e \in rows, NEW f \in rows, e.id = f.id PROVE e = f
    BY <1>2, <1>3, <1>6, <2>4 DEF TablesOK, RowsOK
  <2> QED BY <2>1, <2>3, <2>4 DEF RowsOK
<1>9. CurrentOK(rows)
    BY <1>3, <1>6 DEF TablesOK, CurrentOK
<1>10. BatchOK(box, rows)
    BY <1>2, <1>5, <1>6, <1>7 DEF TablesOK, BatchOK
<1>11. DisjointOK(rows)
  <2> SUFFICES ASSUME NEW e \in rows, NEW f \in rows, e # f,
                      e.status # "fenced", f.status # "fenced"
               PROVE  e.batch \cap f.batch = {}
    BY DEF DisjointOK
  <2>1. PICK d \in deliveries : d.id = e.id /\ d.batch = e.batch /\ d.status # "fenced"
    BY <1>2, <1>6
  <2>2. PICK g \in deliveries : g.id = f.id /\ g.batch = f.batch /\ g.status # "fenced"
    BY <1>2, <1>6
  <2>3. e.id # f.id
    BY <1>8 DEF RowsOK
  <2> QED BY <1>3, <2>1, <2>2, <2>3 DEF TablesOK, DisjointOK
<1>12. HandedOK(box, rows)
    BY <1>2, <1>5, <1>6 DEF TablesOK, HandedOK
<1> QED BY <1>1, <1>5, <1>8, <1>9, <1>10, <1>11, <1>12 DEF TablesOK

\* An answer hands over messages and tells of Deliveries, or is lost.
LEMMA AnswerEffect ==
    ASSUME NEW c \in Calls, NEW ids, NEW delivery, Answer(c, ids, delivery)
    PROVE  /\ handed \subseteq handed' /\ told \subseteq told'
           /\ told' \subseteq told \cup delivery
           /\ told' = told \/ ids \subseteq handed'
           /\ calls' = Finished(c)
    BY DEF Answer

\* Tables stay good when more is handed over, and what is told was handed.
LEMMA AnsweredTables ==
    ASSUME NEW box, NEW rows, TablesOK(box, rows),
           mail' = box, deliveries' = rows, UNCHANGED <<run, known, issued, dispatch>>,
           handed \subseteq handed',
           \A d \in rows : d.id \in told' => d.id \in told \/ d.batch \subseteq handed'
    PROVE  TablesOK(mail, deliveries)'
<1>1. HandedOK(mail, deliveries)'
    BY DEF TablesOK, HandedOK
<1> QED BY <1>1 DEF TablesOK, BoxOK, RowsOK, CurrentOK, BatchOK, DisjointOK, HomeOK

\* getOrCreateRunDelivery hands over what is outstanding again.
LEMMA ReplayKeepsInv ==
    ASSUME MailboxInv, NEW c \in Calls, NEW t, TablesOK(t.mail, t.deliveries),
           mail' = t.mail, UNCHANGED <<mints, run, known, dispatch>>, Replay(c, t)
    PROVE  MailboxInv'
<1>1. PICK d \in Outstanding(t.deliveries) :
        deliveries' = t.deliveries /\ issued' = issued /\ Answer(c, d.batch, {d.id})
    BY DEF Replay
<1>2. d \in t.deliveries /\ RowsOK(t.deliveries)
    BY DEF Outstanding, TablesOK
<1>3. /\ handed \subseteq handed' /\ told \subseteq told'
      /\ told' \subseteq told \cup {d.id}
      /\ told' = told \/ d.batch \subseteq handed'
      /\ calls' = Finished(c)
    BY <1>1, AnswerEffect
<1>4. \A e \in t.deliveries : e.id \in told' => e.id \in told \/ e.batch \subseteq handed'
    BY <1>2, <1>3 DEF RowsOK
<1>5. TablesOK(mail, deliveries)'
    BY <1>1, <1>3, <1>4, AnsweredTables
<1>6. d.id \in 1..issued
    BY <1>2 DEF RowsOK, Delivery, MailboxInv, RunOK
<1>7. CallsOK' /\ RunOK'
    BY <1>1, <1>3, <1>6, CallsStay DEF MailboxInv, RunOK
<1> QED BY <1>5, <1>7 DEF MailboxInv

\* It makes a Delivery of unread mail when none is outstanding.
LEMMA DeliverKeepsInv ==
    ASSUME MailboxInv, NEW c \in Calls, NEW t, TablesOK(t.mail, t.deliveries),
           Current(c), Outstanding(t.deliveries) = {},
           mail' = t.mail, UNCHANGED <<mints, run, known, dispatch>>, Deliver(c, t)
    PROVE  MailboxInv'
<1> DEFINE box == t.mail
           rows == t.deliveries
           new == [id |-> issued + 1, generation |-> run.generation,
                   batch |-> Batch(t), status |-> "outstanding"]
<1>1. /\ issued' = issued + 1
      /\ deliveries' = rows \cup {new}
      /\ Answer(c, Batch(t), {issued + 1})
    BY DEF Deliver, Current
<1>2. \A id \in Batch(t) : \E i \in DOMAIN box : id = box[i].id /\ ~box[i].read
    BY DEF Batch, Unread
<1>3. /\ new.id = issued + 1 /\ new.generation = run.generation
      /\ new.batch = Batch(t) /\ new.status = "outstanding"
    OBVIOUS
<1>4. new \in Delivery
  <2>1. Batch(t) \in SUBSET Messages
    <3>1. box \in Seq(MailRow)
      BY DEF TablesOK, BoxOK
    <3>2. \A i \in DOMAIN box : box[i].id \in Messages
      <4> SUFFICES ASSUME NEW i \in DOMAIN box PROVE box[i].id \in Messages
        OBVIOUS
      <4>1. box[i] \in MailRow
        BY <3>1
      <4> QED BY <4>1 DEF MailRow
    <3> HIDE DEF box
    <3> QED BY <1>2, <3>2
  <2>2. issued + 1 \in Nat \ {0} /\ run.generation \in Nat
    BY DEF MailboxInv, RunOK
  <2> QED BY <2>1, <2>2 DEF Delivery
<1>5. /\ handed \subseteq handed' /\ told \subseteq told'
      /\ told' \subseteq told \cup {issued + 1}
      /\ told' = told \/ Batch(t) \subseteq handed'
      /\ calls' = Finished(c)
    BY <1>1, AnswerEffect
<1>6. issued \in Nat /\ told \subseteq 1..issued
    BY DEF MailboxInv, RunOK
<1>7. \A d \in rows : d \in Delivery /\ d.id <= issued /\ d.status # "outstanding"
    BY DEF Outstanding, TablesOK, RowsOK
<1> HIDE DEF new, rows, box
<1>8. TablesOK(box, rows)
    BY DEF box, rows
<1>9. RowsOK(deliveries)'
    BY <1>1, <1>3, <1>4, <1>6, <1>7, <1>8 DEF TablesOK, RowsOK, Delivery
<1>10. CurrentOK(deliveries)'
    BY <1>1, <1>3, <1>7 DEF CurrentOK
<1>11. BatchOK(box, deliveries')
    BY <1>1, <1>2, <1>3, <1>8 DEF TablesOK, BatchOK, Ids
<1>12. DisjointOK(deliveries)'
  <2>1. ASSUME NEW d \in rows, d.status # "fenced" PROVE d.batch \cap Batch(t) = {}
    <3>1. d.status = "acknowledged"
      BY <1>7, <2>1 DEF Delivery
    <3>2. \A i \in DOMAIN box : box[i].id \in d.batch => box[i].read
      BY <1>8, <3>1 DEF TablesOK, BatchOK
    <3> QED BY <1>2, <3>2
  <2> QED BY <1>1, <1>3, <1>8, <2>1 DEF TablesOK, DisjointOK
<1>13. HandedOK(mail, deliveries)'
  <2>1. \A d \in rows : d.id \in told' => d.id \in told
    BY <1>5, <1>6, <1>7 DEF Delivery
  <2>2. new.id \in told' => new.batch \subseteq handed'
    BY <1>3, <1>5, <1>6
  <2>3. mail' = box
    BY DEF box
  <2> QED BY <1>1, <1>5, <1>8, <2>1, <2>2, <2>3 DEF TablesOK, HandedOK
<1>14. TablesOK(mail, deliveries)'
  <2>1. mail' = box
    BY DEF box
  <2>2. BoxOK(mail)' /\ BatchOK(mail, deliveries)' /\ HomeOK(mail)'
    BY <1>8, <1>11, <2>1 DEF TablesOK, BoxOK, BatchOK, HomeOK
  <2> QED BY <1>9, <1>10, <1>12, <1>13, <2>2 DEF TablesOK
<1>15. CallsOK' /\ RunOK'
    BY <1>1, <1>5, <1>6, CallsStay DEF MailboxInv, RunOK
<1> QED BY <1>14, <1>15 DEF MailboxInv

\* Showing mail moves none.
LEMMA ShowKeepsInv ==
    ASSUME MailboxInv, NEW c \in Calls, NEW t, TablesOK(t.mail, t.deliveries),
           mail' = t.mail, UNCHANGED <<mints, run, known, dispatch>>, NEW ids, Show(c, t, ids)
    PROVE  MailboxInv'
<1>1. deliveries' = t.deliveries /\ issued' = issued /\ Answer(c, ids, {})
    BY DEF Show
<1>2. handed \subseteq handed' /\ told' = told /\ calls' = Finished(c)
    BY <1>1, AnswerEffect
<1>3. TablesOK(mail, deliveries)'
    BY <1>1, <1>2, AnsweredTables
<1>4. CallsOK' /\ RunOK'
    BY <1>1, <1>2, CallsStay DEF MailboxInv, RunOK
<1> QED BY <1>3, <1>4 DEF MailboxInv

\* A check that waits has nothing left to acknowledge.
LEMMA AwaitKeepsInv ==
    ASSUME MailboxInv, NEW c \in Calls, NEW t, TablesOK(t.mail, t.deliveries),
           calls[c] # NoCall,
           mail' = t.mail, UNCHANGED <<mints, run, known, dispatch>>, Await(c, t)
    PROVE  MailboxInv'
<1>1. /\ deliveries' = t.deliveries /\ issued' = issued
      /\ UNCHANGED <<told, handed>>
      /\ calls' = IF \E o \in Calls : Waiting(o) THEN Finished(c)
                  ELSE [calls EXCEPT ![c].phase = "waiting", ![c].ask.ack = NoDelivery]
    BY DEF Await
<1>2. TablesOK(mail, deliveries)'
    BY <1>1, AnsweredTables
<1>3. RunOK'
    BY <1>1 DEF MailboxInv, RunOK
<1>4. CallsOK'
  <2>1. CASE calls' = Finished(c)
    BY <1>1, <2>1, CallsStay DEF MailboxInv
  <2>2. CASE calls' = [calls EXCEPT ![c].phase = "waiting", ![c].ask.ack = NoDelivery]
    <3>1. calls \in [Calls -> Call \cup {NoCall}] /\ calls[c] \in Call
      BY DEF MailboxInv, CallsOK
    <3>2. calls'[c] \in Call /\ calls'[c].phase = "waiting"
      BY <2>2, <3>1 DEF Call, Ask, NoDelivery
    <3>3. \A d \in Calls \ {c} : calls'[d] = calls[d]
      BY <2>2, <3>1
    <3>4. calls' \in [Calls -> Call \cup {NoCall}]
      BY <2>2, <3>1, <3>2, <3>3
    <3> QED BY <1>1, <3>2, <3>3, <3>4 DEF MailboxInv, CallsOK
  <2> QED BY <1>1, <2>1, <2>2
<1> QED BY <1>2, <1>3, <1>4 DEF MailboxInv

\* So whatever a current check does with good tables keeps the invariant.
LEMMA ServeKeepsInv ==
    ASSUME MailboxInv, NEW c \in Calls, NEW t, TablesOK(t.mail, t.deliveries),
           Current(c), calls[c] # NoCall, NEW mayWait \in BOOLEAN, Serve(c, t, mayWait)
    PROVE  MailboxInv'
<1>1. mail' = t.mail /\ UNCHANGED <<mints, run, known, dispatch>>
    BY DEF Serve
<1>2. \/ \E ids : Show(c, t, ids)
      \/ Replay(c, t)
      \/ Deliver(c, t) /\ Outstanding(t.deliveries) = {}
      \/ Await(c, t)
    BY DEF Serve
<1> QED BY <1>1, <1>2, ShowKeepsInv, ReplayKeepsInv, DeliverKeepsInv, AwaitKeepsInv

\* A check that is refused, or goes on with what its acknowledgement left.
LEMMA ProceedKeepsInv ==
    ASSUME MailboxInv, NEW c \in Calls, Proceed(c)
    PROVE  MailboxInv'
<1> DEFINE ask == calls[c].ask
           t == Acknowledged(ask.ack)
<1>1. calls[c].phase = "routing"
    BY DEF Proceed
<1>2. CASE Refuse(c)
    BY <1>2, RefuseKeepsInv
<1>3. CASE Current(c) /\ Serve(c, t, ask.wait)
  <2>1. calls[c] # NoCall /\ calls[c] \in Call /\ ask.ack \in told \cup {NoDelivery}
    BY <1>1 DEF MailboxInv, CallsOK, NoCall
  <2>2. TablesOK(t.mail, t.deliveries)
    BY <2>1, AcknowledgedTables
  <2>3. ask.wait \in BOOLEAN
    BY <2>1 DEF Call, Ask
  <2> QED BY <1>3, <2>1, <2>2, <2>3, ServeKeepsInv
<1> QED BY <1>2, <1>3 DEF Proceed

\* The same for a check that waited.
LEMMA ResumeKeepsInv ==
    ASSUME MailboxInv, NEW c \in Calls, Resume(c)
    PROVE  MailboxInv'
<1> DEFINE t == [mail |-> mail, deliveries |-> deliveries]
<1>1. CASE Refuse(c)
    BY <1>1, RefuseKeepsInv
<1>2. CASE Current(c) /\ Serve(c, t, FALSE)
  <2>1. calls[c] # NoCall
    BY DEF Resume, NoCall
  <2>2. TablesOK(t.mail, t.deliveries)
    BY DEF MailboxInv
  <2> QED BY <1>2, <2>1, <2>2, ServeKeepsInv
<1> QED BY <1>1, <1>2 DEF Resume

\* The surroundings: new handles, a restart, a reset of all messages.
LEMMA SurroundingsKeepInv ==
    ASSUME MailboxInv, (\E p \in Panes : Remint(p)) \/ Restart \/ Reset
    PROVE  MailboxInv'
<1>1. CASE \E p \in Panes : Remint(p)
  <2>1. UNCHANGED <<run, known, mail, deliveries, issued, calls, dispatch, told, handed>>
    BY <1>1 DEF Remint
  <2>2. RunOK'
    BY <1>1, <2>1 DEF Remint, MailboxInv, RunOK
  <2>3. TablesOK(mail, deliveries)' /\ CallsOK'
    BY <2>1 DEF MailboxInv, TablesOK, BoxOK, RowsOK, CurrentOK, BatchOK, DisjointOK, HandedOK,
       HomeOK, CallsOK
  <2> QED BY <2>2, <2>3 DEF MailboxInv
<1>2. CASE Restart
  <2>1. /\ UNCHANGED <<mints, run, known, mail, deliveries, issued, dispatch, told, handed>>
        /\ calls' = [c \in Calls |-> NoCall]
    BY <1>2 DEF Restart
  <2>2. RunOK' /\ CallsOK'
    BY <2>1, CallsStay DEF MailboxInv, RunOK
  <2>3. TablesOK(mail, deliveries)'
    BY <2>1 DEF MailboxInv, TablesOK, BoxOK, RowsOK, CurrentOK, BatchOK, DisjointOK, HandedOK,
       HomeOK
  <2> QED BY <2>2, <2>3 DEF MailboxInv
<1>3. CASE Reset
  <2>1. /\ mail' = <<>> /\ deliveries' = {} /\ handed' = {}
        /\ UNCHANGED <<mints, run, known, issued, calls, dispatch, told>>
    BY <1>3 DEF Reset
  <2>2. RunOK' /\ CallsOK'
    BY <2>1, CallsStay DEF MailboxInv, RunOK
  <2>3. TablesOK(mail, deliveries)'
    BY <2>1 DEF TablesOK, BoxOK, RowsOK, CurrentOK, BatchOK, DisjointOK, HandedOK, HomeOK
  <2> QED BY <2>2, <2>3 DEF MailboxInv
<1> QED BY <1>1, <1>2, <1>3

-----------------------------------------------------------------------------
\* So the invariant is inductive.
LEMMA MailboxNextInv == MailboxInv /\ [Next]_vars => MailboxInv'
<1> SUFFICES ASSUME MailboxInv, [Next]_vars PROVE MailboxInv'
    OBVIOUS
<1>1. ASSUME NEW m \in Messages, NEW to \in Handles \cup {RunBox}, Send(m, to)
      PROVE  MailboxInv'
    BY <1>1, SendKeepsInv
<1>2. ASSUME NEW m \in Messages, Reply(m) PROVE MailboxInv'
    BY <1>2, ReplyKeepsInv
<1>3. ASSUME NEW p \in Panes, Use(p) PROVE MailboxInv'
    BY <1>3, UseKeepsInv
<1>4. CASE Leave
    BY <1>4, LeaveKeepsInv
<1>5. ASSUME NEW c \in Calls, NEW p \in Panes, NEW ask \in Asks, Check(c, p, ask)
      PROVE  MailboxInv'
    BY <1>5, CheckKeepsInv
<1>6. ASSUME NEW c \in Calls, Proceed(c) \/ Resume(c) \/ GiveUp(c) PROVE MailboxInv'
    BY <1>6, ProceedKeepsInv, ResumeKeepsInv, RefuseKeepsInv DEF GiveUp
<1>7. CASE (\E p \in Panes : Remint(p)) \/ Restart \/ Reset
    BY <1>7, SurroundingsKeepInv
<1>8. ASSUME NEW m \in Messages, NEW d \in Dispatches, Heartbeat(m, d) \/ Report(m, d)
      PROVE  MailboxInv'
    BY <1>8, HeartbeatKeepsInv, ReportKeepsInv
<1>9. ASSUME NEW d \in Dispatches, End(d) PROVE MailboxInv'
    BY <1>9, EndKeepsInv
<1>10. CASE UNCHANGED vars
    BY <1>10 DEF vars, MailboxInv, TablesOK, BoxOK, RowsOK, CurrentOK, BatchOK, DisjointOK,
       HandedOK, HomeOK, CallsOK, RunOK
<1> QED BY <1>1, <1>2, <1>3, <1>4, <1>5, <1>6, <1>7, <1>8, <1>9, <1>10 DEF Next

\* It holds of every reachable state.
LEMMA MailboxInvHolds == Spec => []MailboxInv
<1> QED BY MailboxInitInv, MailboxNextInv, PTL DEF Spec

\* One batch is out, of the coordinator of the day, and a message is in another
\* only after a takeover.
THEOREM DeliveriesAreExclusive == Spec => []DeliveryIsExclusive
<1>1. ASSUME MailboxInv PROVE DeliveryIsExclusive
  <2>1. \A d, e \in Outstanding(deliveries) : d = e
    BY <1>1 DEF MailboxInv, TablesOK, CurrentOK, Outstanding
  <2>2. Cardinality(Outstanding(deliveries)) <= 1
    <3>1. CASE Outstanding(deliveries) = {}
      BY <3>1, FS_EmptySet
    <3>2. CASE Outstanding(deliveries) # {}
      <4>1. PICK d : Outstanding(deliveries) = {d}
        BY <2>1, <3>2
      <4> QED BY <4>1, FS_Singleton
    <3> QED BY <3>1, <3>2
  <2>3. \A d \in Outstanding(deliveries) : d.generation = run.generation
    BY <1>1 DEF MailboxInv, TablesOK, CurrentOK, Outstanding
  <2>4. DeliveredOnce
    BY <1>1 DEF MailboxInv, TablesOK, DisjointOK, DeliveredOnce
  <2> QED BY <2>2, <2>3, <2>4 DEF DeliveryIsExclusive, OneCurrentDelivery
<1> QED BY <1>1, MailboxInvHolds, PTL

\* What no agent has been answered stays unread, where the coordinator finds it; only a
\* heartbeat about a dispatch that is over is put away unseen.
THEOREM NoMailIsLost == Spec => []MailIsKept
<1>1. MailboxInv => MailIsKept
    BY DEF MailboxInv, TablesOK, HandedOK, HomeOK, MailIsKept, ReadWasHanded, NoMailLeftBehind
<1> QED BY <1>1, MailboxInvHolds, PTL

-----------------------------------------------------------------------------
(* No wake-up is missed.  Beside MailboxInv this needs where mail may be: it *)
(* is addressed to handles that exist, and nothing unread is at the handle   *)
(* the coordinator's pane has now, although the Run may not know it yet.     *)

Addressed(box) ==
    \A i \in DOMAIN box :
        \/ box[i].to = RunBox
        \/ \E p \in Panes : \E n \in 0..mints[p] : box[i].to = <<p, n>>

Drained(box) ==
    \A p \in Panes : BoundTo(p) =>
        \A i \in DOMAIN box : box[i].read \/ box[i].to # Handle(p)

CoordinatorKnown == run.handle # NoHandle => run.handle \in known

\* What the bounds and generations allow.
RunLimits ==
    /\ mints \in [Panes -> 0..MaxMints]
    /\ run.handle \in Handles \cup {NoHandle} /\ run.generation \in 1..MaxGeneration
    /\ known \subseteq Handles
    /\ issued \in 0..MaxDeliveries

RowLimits(rows) ==
    \A d \in rows : d.generation \in 1..run.generation /\ Cardinality(d.batch) \in 1..PageLimit

CallLimits == \A c \in Calls : calls[c] # NoCall => calls[c].generation \in 1..run.generation

Listening ==
    \A c \in Calls : calls[c].phase = "waiting" => Wanted(mail, calls[c].ask.picky) = {}

\* No check finds in the new table mail it would not have found in the old one.
NoMoreWanted(box, new) == \A picky : Wanted(new, picky) \subseteq Wanted(box, picky)

\* The inductive invariant.
WakeInv ==
    /\ MailboxInv
    /\ Addressed(mail) /\ Drained(mail) /\ CoordinatorKnown
    /\ RunLimits /\ RowLimits(deliveries) /\ CallLimits
    /\ handed \subseteq Ids(mail)
    /\ Listening

\* Rows keep their message; one that was read stays so, and one that moves moves to
\* the mailbox.
Forward(box, new) ==
    /\ DOMAIN new = DOMAIN box
    /\ \A i \in DOMAIN box :
         /\ new[i].id = box[i].id /\ new[i].type = box[i].type
         /\ box[i].read => new[i].read
         /\ new[i].to \in {box[i].to, RunBox}

\* Every operation on the table but an insertion goes forward.
LEMMA RowsGoForward ==
    ASSUME NEW box \in Seq(MailRow), NEW S
    PROVE  Forward(box, Routed(box, S)) /\ Forward(box, Marked(box, S)) /\ Forward(box, box)
<1>1. Forward(box, Routed(box, S))
    BY RoutedRows DEF Forward
<1>2. Forward(box, Marked(box, S))
    BY MarkedRows DEF Forward
<1>3. Forward(box, box)
    BY DEF Forward
<1> QED BY <1>1, <1>2, <1>3

\* Going forward loses no message and sends none to a terminal.
LEMMA ForwardFacts ==
    ASSUME NEW box, NEW new, Forward(box, new)
    PROVE  /\ Ids(new) = Ids(box)
           /\ Addressed(box) => Addressed(new)
           /\ RunOK /\ Drained(box) => Drained(new)
<1>1. Ids(new) = Ids(box)
    BY DEF Forward, Ids
<1>2. Addressed(box) => Addressed(new)
    BY DEF Forward, Addressed
<1>3. ASSUME RunOK, Drained(box) PROVE Drained(new)
  <2>1. \A p \in Panes : Handle(p) # RunBox
    BY <1>3, MailboxAssumption DEF Handle, RunOK
  <2> QED BY <1>3, <2>1 DEF Forward, Drained
<1> QED BY <1>1, <1>2, <1>3

\* Marking leaves less unread.
LEMMA MarkedIsRead ==
    ASSUME NEW box \in Seq(MailRow), NEW S
    PROVE  NoMoreWanted(box, Marked(box, S)) /\ NoMoreWanted(box, box)
<1>1. /\ DOMAIN Marked(box, S) = DOMAIN box
      /\ \A i \in DOMAIN box :
            /\ Marked(box, S)[i].id = box[i].id /\ Marked(box, S)[i].type = box[i].type
            /\ Marked(box, S)[i].to = box[i].to
            /\ box[i].read => Marked(box, S)[i].read
    BY MarkedRows
<1>2. Unread(Marked(box, S)) \subseteq Unread(box) /\ Unread(box) \subseteq DOMAIN box
    BY <1>1 DEF Unread
<1> QED BY <1>1, <1>2 DEF NoMoreWanted, Wanted, Matches

\* A step in which no check begins keeps the checks within their generation, and
\* whoever waits after it waited before.
LEMMA CallsFewer ==
    ASSUME CallsOK,
           \/ \E box, arrived : calls' = Woken(box, arrived)
           \/ calls' = Cancelled
           \/ \E c \in Calls : calls' = Finished(c)
           \/ calls' = [c \in Calls |-> NoCall]
           \/ calls' = calls
    PROVE  \A c \in Calls :
             /\ calls'[c] # NoCall => /\ calls[c] # NoCall
                                      /\ calls'[c].generation = calls[c].generation
             /\ calls'[c].phase = "waiting" => calls'[c] = calls[c]
<1> SUFFICES ASSUME NEW c \in Calls
             PROVE  /\ calls'[c] # NoCall => /\ calls[c] # NoCall
                                             /\ calls'[c].generation = calls[c].generation
                    /\ calls'[c].phase = "waiting" => calls'[c] = calls[c]
    OBVIOUS
<1>1. calls[c] \in Call \cup {NoCall} /\ calls \in [Calls -> Call \cup {NoCall}]
    BY DEF CallsOK
<1>2. NoCall.phase # "waiting"
    BY DEF NoCall
<1>3. CASE calls'[c] = NoCall
    BY <1>2, <1>3
<1>4. CASE calls'[c] = calls[c]
    BY <1>4
<1>5. CASE Waiting(c) /\ calls'[c] = [calls[c] EXCEPT !.phase = "notified"]
  <2>1. calls[c] \in Call
    BY <1>1, <1>5 DEF Waiting, NoCall
  <2>2. /\ [calls[c] EXCEPT !.phase = "notified"].generation = calls[c].generation
        /\ [calls[c] EXCEPT !.phase = "notified"].phase = "notified"
    BY <2>1 DEF Call
  <2> QED BY <1>5, <1>2, <2>2 DEF Waiting
<1>6. ASSUME NEW box, NEW arrived, calls' = Woken(box, arrived)
      PROVE  calls'[c] = calls[c] \/ (Waiting(c) /\ calls'[c] = [calls[c] EXCEPT !.phase = "notified"])
    BY <1>6 DEF Woken
<1>7. CASE calls' = Cancelled
    BY <1>3, <1>4, <1>7 DEF Cancelled
<1>8. ASSUME NEW d \in Calls, calls' = Finished(d)
      PROVE  calls'[c] = NoCall \/ calls'[c] = calls[c]
    BY <1>1, <1>8 DEF Finished
<1> QED BY <1>3, <1>4, <1>5, <1>6, <1>7, <1>8

\* A step that keeps the Run and sends nothing carries the invariant on, given what it
\* does to Deliveries and to the checks.
LEMMA CarryWake ==
    ASSUME WakeInv, MailboxInv', UNCHANGED <<mints, run, known>>,
           Forward(mail, mail'), issued' \in 0..MaxDeliveries,
           RowLimits(deliveries)', CallLimits', handed' \subseteq Ids(mail), Listening'
    PROVE  WakeInv'
<1>1. Ids(mail') = Ids(mail) /\ Addressed(mail') /\ Drained(mail')
    BY ForwardFacts DEF WakeInv, MailboxInv
<1>2. Addressed(mail)' /\ Drained(mail)' /\ CoordinatorKnown' /\ RunLimits'
    BY <1>1 DEF WakeInv, Addressed, Drained, BoundTo, Handle, CoordinatorKnown, RunLimits
<1>3. (handed \subseteq Ids(mail))'
    BY <1>1 DEF Ids
<1> QED BY <1>2, <1>3 DEF WakeInv

\* Checks that are only ended or woken keep to the limits, and to the mailbox when
\* nothing new is unread in it.
LEMMA FewerListen ==
    ASSUME WakeInv, run.generation' = run.generation,
           \/ calls' = Cancelled
           \/ \E c \in Calls : calls' = Finished(c)
           \/ calls' = [c \in Calls |-> NoCall]
           \/ calls' = calls
    PROVE  /\ CallLimits'
           /\ NoMoreWanted(mail, mail') => Listening'
<1>1. \A c \in Calls :
        /\ calls'[c] # NoCall => /\ calls[c] # NoCall
                                 /\ calls'[c].generation = calls[c].generation
        /\ calls'[c].phase = "waiting" => calls'[c] = calls[c]
    BY CallsFewer DEF WakeInv, MailboxInv
<1>2. CallLimits'
    BY <1>1 DEF WakeInv, CallLimits
<1>3. ASSUME NoMoreWanted(mail, mail') PROVE Listening'
  <2>1. \A c \in Calls : calls'[c].phase = "waiting" => Wanted(mail', calls'[c].ask.picky) = {}
    BY <1>1, <1>3 DEF WakeInv, Listening, NoMoreWanted
  <2> QED BY <2>1 DEF Listening, Matches, Wanted, Unread
<1> QED BY <1>2, <1>3

\* Nobody coordinates the Run from a pane whose handle has unread mail, at the start.
LEMMA WakeInitInv == Init => WakeInv
<1> SUFFICES ASSUME Init PROVE WakeInv
    OBVIOUS
<1>1. PICK p \in Panes : /\ run = [handle |-> <<p, 0>>, generation |-> 1]
                         /\ known = {<<p, 0>>}
    BY DEF Init
<1>2. MailboxInv
    BY MailboxInitInv
<1>3. Addressed(mail) /\ Drained(mail) /\ CoordinatorKnown
    BY <1>1 DEF Init, Addressed, Drained, CoordinatorKnown
<1>4. RunLimits
    BY <1>1, MailboxAssumption DEF Init, RunLimits, Handles
<1>5. RowLimits(deliveries) /\ CallLimits /\ handed \subseteq Ids(mail) /\ Listening
    BY DEF Init, RowLimits, CallLimits, Ids, Listening, NoCall
<1> QED BY <1>2, <1>3, <1>4, <1>5 DEF WakeInv

\* Send inserts one row, moves it to the mailbox when it is for the coordinator's pane,
\* and wakes whoever waits for what is now unread there.
LEMMA SendWakes ==
    ASSUME WakeInv, NEW m \in Messages, NEW to \in Handles \cup {RunBox}, Send(m, to)
    PROVE  WakeInv'
<1> DEFINE row == Row(m, "status", NoDispatch, IF to \in known THEN RunBox ELSE to)
           box == Stored(mail, m, to)
           arrived == UnreadIds(mail') \ UnreadIds(mail)
<1>1. /\ mail' = Notified(box, to)
      /\ UNCHANGED <<mints, run, known, deliveries, issued, dispatch, told, handed>>
      /\ calls' = Woken(mail', arrived)
      /\ to = RunBox \/ \E p \in Panes : \E n \in 0..mints[p] : to = <<p, n>>
    BY DEF Send
<1>2. MailboxInv' /\ MailboxInv
    BY SendKeepsInv DEF WakeInv
<1>3. row \in MailRow /\ row.id = m /\ row.read = FALSE /\ row.to \in {RunBox, to}
    BY <1>2, RunBoxIsNoTerminal DEF Row, Types, Handles, MailRow, Terminals, MailboxInv
<1>4. box = Append(mail, row) /\ mail \in Seq(MailRow)
    BY <1>2 DEF Stored, MailboxInv, TablesOK, BoxOK
<1> HIDE DEF row
<1>5. /\ box \in Seq(MailRow)
      /\ DOMAIN box = 1..(Len(mail) + 1) /\ DOMAIN mail = 1..Len(mail)
      /\ \A i \in DOMAIN mail : box[i] = mail[i]
      /\ box[Len(mail) + 1] = row
    BY <1>3, <1>4
<1> HIDE DEF box
<1>6. \A i \in DOMAIN box : i \in DOMAIN mail \/ i = Len(mail) + 1
    BY <1>4, <1>5
<1>7. Addressed(box) /\ handed \subseteq Ids(box)
    BY <1>1, <1>3, <1>5, <1>6 DEF WakeInv, Addressed, Ids
<1>8. Forward(box, mail')
    BY <1>1, <1>5, RowsGoForward DEF Notified
<1>9. Addressed(mail') /\ Ids(mail') = Ids(box)
    BY <1>7, <1>8, ForwardFacts
<1>10. Drained(mail')
  <2> SUFFICES ASSUME NEW p \in Panes, BoundTo(p), NEW i \in DOMAIN mail'
               PROVE  mail'[i].read \/ mail'[i].to # Handle(p)
    BY DEF Drained
  <2>1. Handle(p) # RunBox
    BY <1>2, MailboxAssumption DEF Handle, MailboxInv, RunOK
  <2>2. i \in DOMAIN box /\ mail'[i].to \in {box[i].to, RunBox} /\ (box[i].read => mail'[i].read)
    BY <1>8 DEF Forward
  <2>3. CASE i \in DOMAIN mail
    BY <1>5, <2>1, <2>2, <2>3 DEF WakeInv, Drained
  <2>4. CASE i = Len(mail) + 1 /\ to # Handle(p)
    BY <1>3, <1>5, <2>1, <2>2, <2>4
  <2>5. CASE i = Len(mail) + 1 /\ to = Handle(p)
    <3>1. mail' = Routed(box, {to})
      BY <1>1, <2>5 DEF Notified
    <3> QED BY <1>3, <1>5, <2>1, <2>2, <2>5, <3>1, RoutedRows
  <2> QED BY <1>6, <2>2, <2>3, <2>4, <2>5
<1>11. \A c \in Calls :
         /\ calls'[c] # NoCall => /\ calls[c] # NoCall
                                  /\ calls'[c].generation = calls[c].generation
         /\ calls'[c].phase = "waiting" => calls'[c] = calls[c]
    BY <1>1, <1>2, CallsFewer DEF MailboxInv
<1>12. CallLimits' /\ RowLimits(deliveries)' /\ RunLimits' /\ CoordinatorKnown'
    BY <1>1, <1>11 DEF WakeInv, CallLimits, RowLimits, RunLimits, CoordinatorKnown
<1>13. \A c \in Calls : calls'[c].phase = "waiting" => Wanted(mail', calls'[c].ask.picky) = {}
  <2> SUFFICES ASSUME NEW c \in Calls, calls'[c].phase = "waiting",
                      NEW id \in Wanted(mail', calls'[c].ask.picky)
               PROVE  FALSE
    OBVIOUS
  <2>1. calls'[c] = calls[c] /\ Waiting(c)
    BY <1>11 DEF Waiting
  <2>2. CASE id \in UnreadIds(mail)
    <3>1. PICK i \in DOMAIN mail' : /\ mail'[i].id = id /\ Matches(calls[c].ask.picky, mail'[i])
      BY <2>1 DEF Wanted, Unread
    <3>2. PICK j \in Unread(mail) : mail[j].id = id
      BY <2>2 DEF UnreadIds
    <3>3. j \in DOMAIN mail /\ j \in DOMAIN box /\ box[j] = mail[j]
      BY <1>5, <3>2 DEF Unread
    <3>4. j \in DOMAIN mail' /\ mail'[j].id = id /\ mail'[j].type = mail[j].type
      BY <1>8, <3>2, <3>3 DEF Forward
    <3>5. i = j
      BY <1>2, <3>1, <3>4 DEF MailboxInv, TablesOK, BoxOK
    <3>6. id \in Wanted(mail, calls[c].ask.picky)
      BY <3>1, <3>2, <3>3, <3>4, <3>5 DEF Wanted, Matches
    <3> QED BY <2>1, <3>6 DEF WakeInv, Listening, Waiting
  <2>3. CASE id \in arrived
    <3> HIDE DEF arrived
    <3>1. Wanted(mail', calls[c].ask.picky) \cap arrived # {}
      BY <2>1, <2>3
    <3>2. calls'[c] = [calls[c] EXCEPT !.phase = "notified"]
      BY <1>1, <2>1, <3>1 DEF Woken
    <3>3. calls[c] \in Call
      BY <1>2, <2>1 DEF MailboxInv, CallsOK, Waiting, NoCall
    <3> QED BY <2>1, <3>2, <3>3 DEF Call, Waiting
  <2>4. id \in UnreadIds(mail')
    BY DEF Wanted, UnreadIds
  <2> QED BY <2>2, <2>3, <2>4
<1>14. Addressed(mail)' /\ Drained(mail)' /\ (handed \subseteq Ids(mail))' /\ Listening'
  <2>1. Listening'
    BY <1>13 DEF Listening, Matches, Wanted, Unread
  <2>2. Addressed(mail)' /\ Drained(mail)'
    BY <1>1, <1>9, <1>10 DEF Addressed, Drained, BoundTo, Handle
  <2>3. (handed \subseteq Ids(mail))'
    BY <1>1, <1>7, <1>9 DEF Ids
  <2> QED BY <2>1, <2>2, <2>3
<1> QED BY <1>2, <1>12, <1>14 DEF WakeInv

\* reply leaves less unread.
LEMMA ReplyWakes ==
    ASSUME WakeInv, NEW m \in Messages, Reply(m)
    PROVE  WakeInv'
<1>1. /\ mail' = Marked(mail, {m})
      /\ UNCHANGED <<mints, run, known, deliveries, issued, calls, dispatch, told, handed>>
    BY DEF Reply
<1>2. MailboxInv' /\ mail \in Seq(MailRow)
    BY ReplyKeepsInv DEF WakeInv, MailboxInv, TablesOK, BoxOK
<1>3. Forward(mail, mail') /\ NoMoreWanted(mail, mail')
    BY <1>1, <1>2, RowsGoForward, MarkedIsRead
<1>4. CallLimits' /\ Listening'
    BY <1>1, <1>3, FewerListen
<1>5. issued' \in 0..MaxDeliveries /\ RowLimits(deliveries)' /\ handed' \subseteq Ids(mail)
    BY <1>1 DEF WakeInv, RunLimits, RowLimits
<1> QED BY <1>1, <1>2, <1>3, <1>4, <1>5, CarryWake

\* A worker's message wakes whoever waits for it, and what is marked meanwhile wakes
\* nobody.
LEMMA ArrivalWakes ==
    ASSUME WakeInv, MailboxInv', NEW ids, NEW row \in MailRow,
           row.id \notin Ids(mail), row.to = RunBox,
           mail' = Append(Marked(mail, ids), row),
           calls' = Woken(mail', {row.id}) \/ (row.read /\ calls' = calls),
           UNCHANGED <<mints, run, known, deliveries, issued, told, handed>>
    PROVE  WakeInv'
<1> DEFINE base == Marked(mail, ids)
<1>1. mail \in Seq(MailRow) /\ base \in Seq(MailRow)
    BY MarkedRows DEF WakeInv, MailboxInv, TablesOK, BoxOK
<1>2. Forward(mail, base) /\ NoMoreWanted(mail, base)
    BY <1>1, RowsGoForward, MarkedIsRead
<1>3. Ids(base) = Ids(mail) /\ Addressed(base) /\ Drained(base)
    BY <1>2, ForwardFacts DEF WakeInv, MailboxInv
<1> HIDE DEF base
<1>4. mail' = Append(base, row)
    BY DEF base
<1>5. /\ DOMAIN mail' = 1..(Len(base) + 1) /\ DOMAIN base = 1..Len(base) /\ Len(base) \in Nat
      /\ \A i \in DOMAIN base : mail'[i] = base[i]
      /\ mail'[Len(base) + 1] = row
    BY <1>1, <1>4
<1>6. \A i \in DOMAIN mail' : i \in DOMAIN base \/ i = Len(base) + 1
    BY <1>5
<1>7. Addressed(mail)'
    BY <1>3, <1>5, <1>6 DEF Addressed
<1>8. Drained(mail)'
  <2>1. \A p \in Panes : Handle(p) # RunBox
    BY MailboxAssumption DEF Handle, WakeInv, MailboxInv, RunOK
  <2>2. Drained(mail')
    BY <1>3, <1>5, <1>6, <2>1 DEF Drained
  <2> QED BY <2>2 DEF Drained, BoundTo, Handle
<1>9. (handed \subseteq Ids(mail))'
  <2>1. Ids(base) \subseteq Ids(mail')
    BY <1>5 DEF Ids
  <2>2. handed' \subseteq Ids(mail')
    BY <1>3, <2>1 DEF WakeInv
  <2> QED BY <2>2 DEF Ids
<1>10. \A c \in Calls :
         /\ calls'[c] # NoCall => /\ calls[c] # NoCall
                                  /\ calls'[c].generation = calls[c].generation
         /\ calls'[c].phase = "waiting" => calls'[c] = calls[c]
    BY CallsFewer DEF WakeInv, MailboxInv
<1>11. CallLimits' /\ RowLimits(deliveries)' /\ RunLimits' /\ CoordinatorKnown'
    BY <1>10 DEF WakeInv, CallLimits, RowLimits, RunLimits, CoordinatorKnown
<1>12. \A c \in Calls : calls'[c].phase = "waiting" => Wanted(mail', calls'[c].ask.picky) = {}
  <2> SUFFICES ASSUME NEW c \in Calls, calls'[c].phase = "waiting",
                      NEW id \in Wanted(mail', calls'[c].ask.picky)
               PROVE  FALSE
    OBVIOUS
  <2>1. calls'[c] = calls[c] /\ Waiting(c)
    BY <1>10 DEF Waiting
  <2>2. PICK i \in Unread(mail') : /\ mail'[i].id = id /\ Matches(calls[c].ask.picky, mail'[i])
    BY <2>1 DEF Wanted
  <2>3. CASE i \in DOMAIN base
    <3>1. id \in Wanted(base, calls[c].ask.picky)
      BY <1>5, <2>2, <2>3 DEF Wanted, Unread
    <3> QED BY <1>2, <2>1, <3>1 DEF NoMoreWanted, WakeInv, Listening, Waiting
  <2>4. CASE i = Len(base) + 1
    <3>1. id = row.id /\ ~row.read
      BY <1>5, <2>2, <2>4 DEF Unread
    <3>2. Wanted(mail', calls[c].ask.picky) \cap {row.id} # {}
      BY <2>1, <3>1
    <3>3. calls'[c] = [calls[c] EXCEPT !.phase = "notified"]
      BY <2>1, <3>1, <3>2 DEF Woken
    <3>4. calls[c] \in Call
      BY <2>1 DEF WakeInv, MailboxInv, CallsOK, Waiting, NoCall
    <3> QED BY <2>1, <3>3, <3>4 DEF Call, Waiting
  <2> QED BY <1>6, <2>2, <2>3, <2>4 DEF Unread
<1>13. Listening'
    BY <1>12 DEF Listening, Matches, Wanted, Unread
<1> QED BY <1>7, <1>8, <1>9, <1>11, <1>13 DEF WakeInv

\* A heartbeat that is kept as read wakes nobody, and need not.
LEMMA HeartbeatWakes ==
    ASSUME WakeInv, NEW m \in Messages, NEW d \in Dispatches, Heartbeat(m, d)
    PROVE  WakeInv'
<1>1. PICK rejected \in BOOLEAN :
        LET row == Row(m, "heartbeat", d, RunBox)
            suppressed == ~rejected /\ dispatch[d] # "dispatched"
        IN  /\ mail' = Append(mail, [row EXCEPT !.read = suppressed])
            /\ calls' = IF suppressed THEN calls ELSE Woken(mail', {m})
    BY DEF Heartbeat
<1> DEFINE read == ~rejected /\ dispatch[d] # "dispatched"
           row == [Row(m, "heartbeat", d, RunBox) EXCEPT !.read = read]
<1>2. row \in MailRow /\ row.id = m /\ row.to = RunBox /\ row.read = read
    BY DEF Row, MailRow, Types
<1> HIDE DEF row
<1>3. /\ m \notin Ids(mail) /\ mail' = Append(mail, row)
      /\ calls' = Woken(mail', {row.id}) \/ (row.read /\ calls' = calls)
      /\ UNCHANGED <<mints, run, known, deliveries, issued, told, handed>>
    BY <1>1, <1>2 DEF Heartbeat, row
<1>4. Marked(mail, {}) = mail
    BY MarkedNothing DEF WakeInv, MailboxInv, TablesOK, BoxOK
<1>5. MailboxInv'
    BY HeartbeatKeepsInv DEF WakeInv
<1> QED BY <1>2, <1>3, <1>4, <1>5, ArrivalWakes

\* A report wakes whoever waits for it.
LEMMA ReportWakes ==
    ASSUME WakeInv, NEW m \in Messages, NEW d \in Dispatches, Report(m, d)
    PROVE  WakeInv'
<1> DEFINE row == Row(m, "worker_done", d, RunBox)
<1>1. row \in MailRow /\ row.id = m /\ row.to = RunBox
    BY DEF Row, MailRow, Types
<1>2. /\ m \notin Ids(mail) /\ calls' = Woken(mail', {row.id})
      /\ UNCHANGED <<mints, run, known, deliveries, issued, told, handed>>
    BY <1>1 DEF Report
<1>3. \E ids : mail' = Append(Marked(mail, ids), row)
  <2>1. Marked(mail, {}) = mail
    BY MarkedNothing DEF WakeInv, MailboxInv, TablesOK, BoxOK
  <2>2. \/ mail' = Append(Marked(mail, EarlierHeartbeats(mail, d)), row)
        \/ mail' = Append(mail, row)
    BY DEF Report
  <2> HIDE DEF row
  <2> QED BY <2>1, <2>2
<1>4. MailboxInv'
    BY ReportKeepsInv DEF WakeInv
<1> HIDE DEF row
<1> QED BY <1>1, <1>2, <1>3, <1>4, ArrivalWakes

\* The end of a dispatch leaves the mail alone.
LEMMA EndWakes ==
    ASSUME WakeInv, NEW d \in Dispatches, End(d)
    PROVE  WakeInv'
<1>1. UNCHANGED <<mints, run, known, mail, deliveries, issued, calls, told, handed>>
    BY DEF End
<1>2. MailboxInv' /\ mail \in Seq(MailRow)
    BY EndKeepsInv DEF WakeInv, MailboxInv, TablesOK, BoxOK
<1>3. Forward(mail, mail') /\ NoMoreWanted(mail, mail')
    BY <1>1, <1>2, RowsGoForward, MarkedIsRead
<1>4. CallLimits' /\ Listening'
    BY <1>1, <1>3, FewerListen
<1>5. issued' \in 0..MaxDeliveries /\ RowLimits(deliveries)' /\ handed' \subseteq Ids(mail)
    BY <1>1 DEF WakeInv, RunLimits, RowLimits
<1> QED BY <1>1, <1>2, <1>3, <1>4, <1>5, CarryWake

-----------------------------------------------------------------------------
(* The Run's coordinator changes: who waits is answered, and the mail of the *)
(* pane's handle is moved first.                                             *)

\* What a takeover and a departure have in common.
LEMMA BindingWakes ==
    ASSUME WakeInv, MailboxInv', NEW S,
           mail' = Routed(mail, S), calls' = Cancelled,
           run'.generation \in run.generation..MaxGeneration,
           \A d \in deliveries' : \E e \in deliveries : d.generation = e.generation /\ d.batch = e.batch,
           UNCHANGED <<mints, issued, handed>>
    PROVE  /\ Addressed(mail)' /\ RowLimits(deliveries)' /\ CallLimits'
           /\ (handed \subseteq Ids(mail))' /\ Listening'
<1>1. mail \in Seq(MailRow)
    BY DEF WakeInv, MailboxInv, TablesOK, BoxOK
<1>2. Addressed(mail') /\ Ids(mail') = Ids(mail)
    BY <1>1, RowsGoForward, ForwardFacts DEF WakeInv
<1>3. run.generation \in Nat /\ run'.generation \in Nat /\ run.generation <= run'.generation
    BY MailboxAssumption DEF WakeInv, RunLimits
<1>4. RowLimits(deliveries)'
  <2> SUFFICES ASSUME NEW d \in deliveries'
               PROVE  d.generation \in 1..run'.generation /\ Cardinality(d.batch) \in 1..PageLimit
    BY DEF RowLimits
  <2>1. PICK e \in deliveries : d.generation = e.generation /\ d.batch = e.batch
    OBVIOUS
  <2>2. e.generation \in 1..run.generation /\ Cardinality(e.batch) \in 1..PageLimit
    BY DEF WakeInv, RowLimits
  <2> QED BY <1>3, <2>1, <2>2
<1>5. \A c \in Calls :
        /\ calls'[c] # NoCall => calls[c] # NoCall /\ calls'[c].generation = calls[c].generation
        /\ calls'[c].phase # "waiting"
    BY DEF Cancelled, Waiting, NoCall
<1>6. CallLimits'
    BY <1>3, <1>5 DEF WakeInv, CallLimits
<1>7. Addressed(mail)' /\ (handed \subseteq Ids(mail))' /\ Listening'
    BY <1>2, <1>5 DEF WakeInv, Addressed, Ids, Listening
<1> QED BY <1>4, <1>6, <1>7

\* fenceOutstandingDelivery changes no batch.
LEMMA FencedBatches ==
    ASSUME MailboxInv
    PROVE  \A d \in Fenced(deliveries) :
             \E e \in deliveries : d.generation = e.generation /\ d.batch = e.batch
<1>1. \A e \in Outstanding(deliveries) : e \in deliveries /\ e \in Delivery
    BY DEF MailboxInv, TablesOK, RowsOK, Outstanding
<1>2. ASSUME NEW e \in Delivery
      PROVE  /\ [e EXCEPT !.status = "fenced"].generation = e.generation
             /\ [e EXCEPT !.status = "fenced"].batch = e.batch
    BY DEF Delivery
<1> QED BY <1>1, <1>2 DEF Fenced

\* runUse moves the mail of the former coordinator and of the new one.
LEMMA UseWakes ==
    ASSUME WakeInv, NEW p \in Panes, Use(p)
    PROVE  WakeInv'
<1> DEFINE S == ({run.handle} \ {NoHandle}) \cup {Handle(p)}
           same == run.handle = Handle(p)
<1>1. /\ known' = known \cup S
      /\ mail' = Routed(mail, S)
      /\ run' = IF same THEN run ELSE [handle |-> Handle(p), generation |-> run.generation + 1]
      /\ deliveries' = IF same THEN deliveries ELSE Fenced(deliveries)
      /\ calls' = Cancelled
      /\ UNCHANGED <<mints, issued, dispatch, told, handed>>
      /\ same \/ run.generation < MaxGeneration
    BY DEF Use
<1>2. MailboxInv /\ MailboxInv' /\ mail \in Seq(MailRow)
    BY UseKeepsInv DEF WakeInv, MailboxInv, TablesOK, BoxOK
<1>3. Handle(p) \in Handles
    BY DEF WakeInv, RunLimits, Handle, Handles
<1>4. run'.handle = Handle(p) /\ run'.generation \in run.generation..MaxGeneration
  <2>1. run.generation \in 1..MaxGeneration /\ MaxGeneration \in Nat
    BY MailboxAssumption DEF WakeInv, RunLimits
  <2> QED BY <1>1, <2>1
<1>5. \A d \in deliveries' : \E e \in deliveries : d.generation = e.generation /\ d.batch = e.batch
    BY <1>1, <1>2, FencedBatches
<1>6. /\ Addressed(mail)' /\ RowLimits(deliveries)' /\ CallLimits'
      /\ (handed \subseteq Ids(mail))' /\ Listening'
    BY <1>1, <1>2, <1>4, <1>5, BindingWakes
<1>7. RunLimits'
    BY <1>1, <1>3, <1>4, MailboxAssumption DEF WakeInv, RunLimits, Handles
<1>8. CoordinatorKnown'
    BY <1>1, <1>4 DEF CoordinatorKnown
<1>9. Drained(mail)'
  <2> SUFFICES ASSUME NEW q \in Panes, BoundTo(q)', NEW i \in DOMAIN mail'
               PROVE  mail'[i].read \/ mail'[i].to # Handle(q)'
    BY DEF Drained
  <2>1. q = p
    BY <1>4 DEF BoundTo, Handle
  <2>2. Handle(q)' = Handle(p) /\ Handle(p) \in S /\ Handle(p) # RunBox
    BY <1>1, <1>2, <2>1, MailboxAssumption DEF Handle, MailboxInv, RunOK
  <2> HIDE DEF S
  <2> QED BY <1>1, <1>2, <2>2, RoutedRows
<1> QED BY <1>2, <1>6, <1>7, <1>8, <1>9 DEF WakeInv

\* Whoever leaves the Run leaves it to nobody.
LEMMA LeaveWakes ==
    ASSUME WakeInv, Leave
    PROVE  WakeInv'
<1>1. /\ run.generation < MaxGeneration
      /\ mail' = Routed(mail, {run.handle})
      /\ run' = [handle |-> NoHandle, generation |-> run.generation + 1]
      /\ deliveries' = Fenced(deliveries)
      /\ calls' = Cancelled
      /\ UNCHANGED <<mints, known, issued, dispatch, told, handed>>
    BY DEF Leave
<1>2. MailboxInv /\ MailboxInv'
    BY LeaveKeepsInv DEF WakeInv
<1>3. run'.handle = NoHandle /\ run'.generation \in run.generation..MaxGeneration
    BY <1>1, MailboxAssumption DEF WakeInv, RunLimits
<1>4. \A d \in deliveries' : \E e \in deliveries : d.generation = e.generation /\ d.batch = e.batch
    BY <1>1, <1>2, FencedBatches
<1>5. /\ Addressed(mail)' /\ RowLimits(deliveries)' /\ CallLimits'
      /\ (handed \subseteq Ids(mail))' /\ Listening'
    BY <1>1, <1>2, <1>3, <1>4, BindingWakes
<1>6. RunLimits'
    BY <1>1, <1>3, MailboxAssumption DEF WakeInv, RunLimits, Handles
<1>7. CoordinatorKnown' /\ Drained(mail)'
    BY <1>3 DEF CoordinatorKnown, Drained, BoundTo
<1> QED BY <1>2, <1>5, <1>6, <1>7 DEF WakeInv

-----------------------------------------------------------------------------
(* A check wakes nobody, so it must leave nothing new unread.                *)

\* The direct mail it routes was routed before: some sender or binding did.
LEMMA CheckWakes ==
    ASSUME WakeInv, NEW c \in Calls, NEW p \in Panes, NEW ask \in Asks, Check(c, p, ask)
    PROVE  WakeInv'
<1> DEFINE S == {Handle(p), run.handle}
           new == [phase |-> "routing", pane |-> p, generation |-> run.generation, ask |-> ask]
<1>1. /\ BoundTo(p)
      /\ mail' = Routed(mail, S)
      /\ calls' = [calls EXCEPT ![c] = new]
      /\ UNCHANGED <<mints, run, known, deliveries, issued, dispatch, told, handed>>
    BY DEF Check
<1>2. MailboxInv /\ MailboxInv' /\ mail \in Seq(MailRow)
    BY CheckKeepsInv DEF WakeInv, MailboxInv, TablesOK, BoxOK
<1>3. Forward(mail, mail')
    BY <1>1, <1>2, RowsGoForward
<1>4. NoMoreWanted(mail, mail')
  <2>1. \A i \in DOMAIN mail : mail[i].to \in S => mail[i].read
    BY <1>1, <1>2 DEF WakeInv, Drained, CoordinatorKnown, BoundTo, MailboxInv, TablesOK, HomeOK
  <2> HIDE DEF S
  <2>2. /\ DOMAIN mail' = DOMAIN mail
        /\ \A i \in DOMAIN mail :
              /\ mail'[i].id = mail[i].id /\ mail'[i].type = mail[i].type
              /\ mail'[i].to = mail[i].to /\ mail'[i].read = mail[i].read
    BY <1>1, <1>2, <2>1, RoutedRows
  <2>3. Unread(mail') \subseteq Unread(mail) /\ Unread(mail) \subseteq DOMAIN mail
    BY <2>2 DEF Unread
  <2> QED BY <2>2, <2>3 DEF NoMoreWanted, Wanted, Matches
<1>5. /\ \A d \in Calls \ {c} : calls'[d] = calls[d]
      /\ calls'[c].phase = "routing" /\ calls'[c].generation = run.generation
    BY <1>1, <1>2 DEF MailboxInv, CallsOK
<1>6. CallLimits'
  <2>1. run.generation \in 1..run.generation
    BY MailboxAssumption DEF WakeInv, RunLimits
  <2> QED BY <1>1, <1>5, <2>1 DEF WakeInv, CallLimits
<1>7. Listening'
  <2>1. \A d \in Calls : calls'[d].phase = "waiting" => Wanted(mail', calls'[d].ask.picky) = {}
    BY <1>4, <1>5 DEF WakeInv, Listening, NoMoreWanted
  <2> QED BY <2>1 DEF Listening, Matches, Wanted, Unread
<1>8. issued' \in 0..MaxDeliveries /\ RowLimits(deliveries)' /\ handed' \subseteq Ids(mail)
    BY <1>1 DEF WakeInv, RunLimits, RowLimits
<1> QED BY <1>1, <1>2, <1>3, <1>6, <1>7, <1>8, CarryWake

\* A refused check, and one that gives up.
LEMMA RefuseWakes ==
    ASSUME WakeInv, NEW c \in Calls, Refuse(c)
    PROVE  WakeInv'
<1>1. /\ calls' = Finished(c)
      /\ UNCHANGED <<mints, run, known, mail, deliveries, issued, dispatch, told, handed>>
    BY DEF Refuse
<1>2. MailboxInv' /\ mail \in Seq(MailRow)
    BY RefuseKeepsInv DEF WakeInv, MailboxInv, TablesOK, BoxOK
<1>3. Forward(mail, mail') /\ NoMoreWanted(mail, mail')
    BY <1>1, <1>2, RowsGoForward, MarkedIsRead
<1>4. CallLimits' /\ Listening'
    BY <1>1, <1>3, FewerListen
<1>5. issued' \in 0..MaxDeliveries /\ RowLimits(deliveries)' /\ handed' \subseteq Ids(mail)
    BY <1>1 DEF WakeInv, RunLimits, RowLimits
<1> QED BY <1>1, <1>2, <1>3, <1>4, <1>5, CarryWake

-----------------------------------------------------------------------------
(* What a check that goes on does with its tables.                           *)

\* A bounded set of naturals that is not empty has a greatest element.
LEMMA GreatestNat ==
    ASSUME NEW n \in Nat, NEW T \in SUBSET (1..n), T # {}
    PROVE  \E j \in T : \A k \in T : k <= j
<1>1. PICK U : U = {n - j : j \in T}
    OBVIOUS
<1>2. PICK R : R = {ss \in Nat \X Nat : ss[1] < ss[2]}
    OBVIOUS
<1>3. \A i, j \in Nat : <<i, j>> \in R <=> i < j
    BY <1>2
<1>4. PICK x \in U : \A y \in U : ~(<<y, x>> \in R)
  <2>1. IsWellFoundedOn(R, Nat)
    BY <1>2, NatLessThanWellFounded, Zenon DEF OpToRel
  <2>2. ASSUME NEW u \in U PROVE u \in Nat
    <3>1. PICK j \in T : u = n - j
      BY <1>1
    <3> QED BY <3>1
  <2>3. U # {}
    BY <1>1
  <2> QED BY <2>1, <2>2, <2>3, WFMin
<1>5. PICK j \in T : x = n - j
    BY <1>1
<1>6. \A k \in T : k <= j
  <2> SUFFICES ASSUME NEW k \in T PROVE k <= j
    OBVIOUS
  <2>1. n - k \in U /\ n - k \in Nat /\ n - j \in Nat
    BY <1>1
  <2>2. ~(n - k < n - j)
    BY <1>3, <1>4, <1>5, <2>1
  <2> QED BY <2>2
<1> QED BY <1>6

\* A batch is a page of what is unread: not empty, and no longer than the limit.
LEMMA BatchIsPage ==
    ASSUME NEW t, t.mail \in Seq(MailRow), UnreadIds(t.mail) # {}
    PROVE  Batch(t) # {} /\ IsFiniteSet(Batch(t)) /\ Cardinality(Batch(t)) \in 1..PageLimit
<1> DEFINE box == t.mail
           U == Unread(box)
           Before(j) == {k \in U : k < j}
           J == {j \in U : Cardinality(Before(j)) < PageLimit}
           f == [j \in J |-> box[j].id]
<1>1. /\ Len(box) \in Nat /\ U \subseteq 1..Len(box) /\ IsFiniteSet(U)
  <2>1. Len(box) \in Nat /\ U \in SUBSET (1..Len(box))
    BY DEF Unread
  <2>2. IsFiniteSet(1..Len(box))
    BY <2>1, FS_Interval
  <2> HIDE DEF U, box
  <2> QED BY <2>1, <2>2, FS_Subset
<1>2. U # {}
    BY DEF UnreadIds
<1>3. Batch(t) = {f[j] : j \in J}
    BY DEF Batch
<1>4. J # {}
  <2> DEFINE N == Len(box) + 1
             V == {N - j : j \in U}
  <2>1. V \in SUBSET (1..N) /\ V # {} /\ N \in Nat
    BY <1>1, <1>2
  <2>2. PICK x \in V : \A y \in V : y <= x
    <3> HIDE DEF V, N
    <3> QED BY <2>1, GreatestNat
  <2>3. PICK j \in U : x = N - j
    OBVIOUS
  <2>4. Before(j) = {}
    <3> SUFFICES ASSUME NEW k \in U, k < j PROVE FALSE
      OBVIOUS
    <3>1. N - k <= N - j
      BY <2>2, <2>3
    <3> QED BY <1>1, <3>1
  <2>5. Cardinality({}) < PageLimit
    BY FS_EmptySet, MailboxAssumption
  <2> QED BY <2>4, <2>5
<1>5. PICK j \in J : \A k \in J : k <= j
  <2>1. J \in SUBSET (1..Len(box))
    BY <1>1
  <2> HIDE DEF J, box
  <2> QED BY <1>1, <1>4, <2>1, GreatestNat
<1>6. IsFiniteSet(J) /\ Cardinality(J) <= PageLimit
  <2>1. PICK B : B = Before(j)
    OBVIOUS
  <2>2. B \in SUBSET U /\ Cardinality(B) < PageLimit /\ J \in SUBSET (B \cup {j})
    <3>1. B \in SUBSET U /\ Cardinality(B) < PageLimit
      BY <2>1
    <3>2. ASSUME NEW k \in J PROVE k \in B \cup {j}
      <4>1. k \in Nat /\ j \in Nat /\ k <= j /\ k \in U
        BY <1>1, <1>5
      <4> QED BY <2>1, <4>1
    <3> QED BY <3>1, <3>2
  <2> HIDE DEF J, U, Before
  <2>3. IsFiniteSet(B) /\ Cardinality(B) \in Nat
    BY <1>1, <2>2, FS_Subset, FS_CardinalityType
  <2>4. IsFiniteSet(B \cup {j}) /\ Cardinality(B \cup {j}) <= Cardinality(B) + 1
    <3>1. /\ IsFiniteSet(B \cup {j})
          /\ Cardinality(B \cup {j}) = IF j \in B THEN Cardinality(B) ELSE Cardinality(B) + 1
      BY <2>3, FS_AddElement, Zenon
    <3> QED BY <2>3, <3>1
  <2>5. IsFiniteSet(J) /\ Cardinality(J) <= Cardinality(B \cup {j})
    BY <2>2, <2>4, FS_Subset
  <2>6. Cardinality(J) \in Nat /\ Cardinality(B \cup {j}) \in Nat
    BY <2>4, <2>5, FS_CardinalityType
  <2> QED BY <2>2, <2>3, <2>4, <2>5, <2>6, MailboxAssumption
<1>7. IsFiniteSet(Batch(t)) /\ Cardinality(Batch(t)) <= Cardinality(J)
  <2>1. f \in Surjection(J, Batch(t))
    BY <1>3 DEF Surjection
  <2> HIDE DEF f, J
  <2> QED BY <1>6, <2>1, FS_Surjection
<1>8. Batch(t) # {}
    BY <1>3, <1>4
<1>9. Cardinality(Batch(t)) \in Nat \ {0}
    BY <1>7, <1>8, FS_CardinalityType, FS_EmptySet
<1>10. Cardinality(J) \in Nat
    BY <1>6, FS_CardinalityType
<1> HIDE DEF J
<1> QED BY <1>6, <1>7, <1>8, <1>9, <1>10, MailboxAssumption

\* The tables a check works on: those it found, or what its acknowledgement left.
Served(t) ==
    /\ TablesOK(t.mail, t.deliveries) /\ RowLimits(t.deliveries)
    /\ Forward(mail, t.mail) /\ NoMoreWanted(mail, t.mail)

\* An acknowledgement marks mail read and changes no batch.
LEMMA AcknowledgedServe ==
    ASSUME WakeInv, NEW id \in told \cup {NoDelivery}
    PROVE  Served(Acknowledged(id))
<1> DEFINE acked == {d \in Outstanding(deliveries) : d.id = id}
           t == Acknowledged(id)
<1>1. /\ t.mail = Marked(mail, UNION {d.batch : d \in acked})
      /\ t.deliveries = (deliveries \ acked)
                          \cup {[d EXCEPT !.status = "acknowledged"] : d \in acked}
    BY DEF Acknowledged
<1>2. TablesOK(t.mail, t.deliveries) /\ mail \in Seq(MailRow)
    BY AcknowledgedTables DEF WakeInv, MailboxInv, TablesOK, BoxOK
<1>3. Forward(mail, t.mail) /\ NoMoreWanted(mail, t.mail)
    BY <1>1, <1>2, RowsGoForward, MarkedIsRead
<1>4. RowLimits(t.deliveries)
  <2> SUFFICES ASSUME NEW d \in t.deliveries
               PROVE  d.generation \in 1..run.generation /\ Cardinality(d.batch) \in 1..PageLimit
    BY DEF RowLimits
  <2>1. \A e \in acked : e \in deliveries /\ e \in Delivery
    BY DEF WakeInv, MailboxInv, TablesOK, RowsOK, Outstanding
  <2>2. ASSUME NEW e \in Delivery
        PROVE  /\ [e EXCEPT !.status = "acknowledged"].generation = e.generation
               /\ [e EXCEPT !.status = "acknowledged"].batch = e.batch
    BY DEF Delivery
  <2>3. PICK e \in deliveries : d.generation = e.generation /\ d.batch = e.batch
    <3>1. CASE d \in deliveries
      BY <3>1
    <3>2. CASE d \notin deliveries
      <4>1. PICK e \in acked : d = [e EXCEPT !.status = "acknowledged"]
        BY <1>1, <3>2, Zenon
      <4> QED BY <2>1, <2>2, <4>1
    <3> QED BY <3>1, <3>2
  <2> QED BY <2>3 DEF WakeInv, RowLimits
<1> QED BY <1>2, <1>3, <1>4 DEF Served

\* An answer hands over messages of the table.
LEMMA AnswerWakes ==
    ASSUME WakeInv, MailboxInv', NEW c \in Calls, NEW t, Served(t),
           mail' = t.mail, UNCHANGED <<mints, run, known, dispatch>>,
           NEW ids, ids \subseteq Ids(t.mail), NEW delivery, Answer(c, ids, delivery),
           issued' \in 0..MaxDeliveries, RowLimits(deliveries)'
    PROVE  WakeInv'
<1>1. calls' = Finished(c) /\ handed' \subseteq handed \cup ids
    BY DEF Answer
<1>2. handed' \subseteq Ids(mail)
    BY <1>1, ForwardFacts DEF WakeInv, Served
<1>3. CallLimits' /\ Listening'
    BY <1>1, FewerListen DEF Served
<1> QED BY <1>2, <1>3, CarryWake DEF Served

\* A check that waits found nothing that it waits for.
LEMMA AwaitWakes ==
    ASSUME WakeInv, MailboxInv', NEW c \in Calls, NEW t, Served(t),
           calls[c] # NoCall,
           mail' = t.mail, UNCHANGED <<mints, run, known, dispatch>>, Await(c, t),
           Wanted(t.mail, calls[c].ask.picky) = {}
    PROVE  WakeInv'
<1>1. /\ deliveries' = t.deliveries /\ issued' = issued /\ handed' = handed
      /\ calls' = IF \E o \in Calls : Waiting(o) THEN Finished(c)
                  ELSE [calls EXCEPT ![c].phase = "waiting", ![c].ask.ack = NoDelivery]
    BY DEF Await
<1>2. issued' \in 0..MaxDeliveries /\ handed' \subseteq Ids(mail) /\ RowLimits(deliveries)'
    BY <1>1 DEF WakeInv, RunLimits, Served, RowLimits
<1>3. CallLimits' /\ Listening'
  <2>1. CASE calls' = Finished(c)
    BY <2>1, FewerListen DEF Served
  <2>2. CASE calls' = [calls EXCEPT ![c].phase = "waiting", ![c].ask.ack = NoDelivery]
    <3>1. calls \in [Calls -> Call \cup {NoCall}] /\ calls[c] \in Call
      BY DEF WakeInv, MailboxInv, CallsOK
    <3>2. calls'[c].generation = calls[c].generation /\ calls'[c].ask.picky = calls[c].ask.picky
      BY <2>2, <3>1 DEF Call, Ask
    <3>3. \A d \in Calls \ {c} : calls'[d] = calls[d]
      BY <2>2, <3>1
    <3>4. CallLimits'
      BY <3>2, <3>3 DEF WakeInv, CallLimits
    <3>5. \A d \in Calls : calls'[d].phase = "waiting" => Wanted(mail', calls'[d].ask.picky) = {}
      BY <3>2, <3>3 DEF WakeInv, Listening, Served, NoMoreWanted
    <3>6. Listening'
      BY <3>5 DEF Listening, Matches, Wanted, Unread
    <3> QED BY <3>4, <3>6
  <2> QED BY <1>1, <2>1, <2>2
<1> QED BY <1>2, <1>3, CarryWake DEF Served

\* Whatever a current check does with its tables.
LEMMA ServeWakes ==
    ASSUME WakeInv, NEW c \in Calls, NEW t, Served(t),
           Current(c), calls[c] # NoCall, NEW mayWait \in BOOLEAN, Serve(c, t, mayWait)
    PROVE  WakeInv'
<1> DEFINE ask == calls[c].ask
           wanted == Wanted(t.mail, ask.picky)
<1>1. mail' = t.mail /\ UNCHANGED <<mints, run, known, dispatch>>
    BY DEF Serve
<1>2. MailboxInv' /\ TablesOK(t.mail, t.deliveries)
    BY ServeKeepsInv DEF WakeInv, Served
<1>3. wanted \subseteq Ids(t.mail) /\ {} \subseteq Ids(t.mail)
    BY DEF Wanted, Unread, Ids
<1>4. \/ Show(c, t, wanted) \/ Show(c, t, {})
      \/ Replay(c, t)
      \/ Deliver(c, t) /\ wanted # {}
      \/ Await(c, t) /\ (ask.peek \/ Outstanding(t.deliveries) = {}) /\ wanted = {}
    BY DEF Serve
<1>5. RowLimits(t.deliveries) /\ issued \in 0..MaxDeliveries
    BY DEF Served, WakeInv, RunLimits
<1>6. ASSUME NEW ids, ids \subseteq Ids(t.mail), Show(c, t, ids) PROVE WakeInv'
  <2>1. Answer(c, ids, {}) /\ deliveries' = t.deliveries /\ issued' = issued
    BY <1>6 DEF Show
  <2>2. RowLimits(deliveries)'
    BY <1>1, <1>5, <2>1 DEF RowLimits
  <2> QED BY <1>1, <1>2, <1>5, <1>6, <2>1, <2>2, AnswerWakes
<1>7. CASE Replay(c, t)
  <2>1. PICK d \in Outstanding(t.deliveries) :
          deliveries' = t.deliveries /\ issued' = issued /\ Answer(c, d.batch, {d.id})
    BY <1>7 DEF Replay
  <2>2. d.batch \subseteq Ids(t.mail)
    BY <1>2 DEF TablesOK, BatchOK, Outstanding
  <2>3. RowLimits(deliveries)'
    BY <1>1, <1>5, <2>1 DEF RowLimits
  <2> QED BY <1>1, <1>2, <1>5, <2>1, <2>2, <2>3, AnswerWakes
<1>8. CASE Deliver(c, t) /\ wanted # {}
  <2>1. /\ issued < MaxDeliveries /\ issued' = issued + 1
        /\ deliveries' = t.deliveries
             \cup {[id |-> issued', generation |-> run.generation,
                    batch |-> Batch(t), status |-> "outstanding"]}
        /\ Answer(c, Batch(t), {issued'})
    BY <1>8 DEF Deliver, Current
  <2>2. Batch(t) \subseteq Ids(t.mail)
    BY DEF Batch, Unread, Ids
  <2>3. Cardinality(Batch(t)) \in 1..PageLimit
    <3>1. UnreadIds(t.mail) # {}
      BY <1>8 DEF Wanted, UnreadIds
    <3> QED BY <1>2, <3>1, BatchIsPage DEF TablesOK, BoxOK
  <2>4. issued' \in 0..MaxDeliveries
    BY <1>5, <2>1, MailboxAssumption
  <2>5. run.generation \in 1..run.generation
    BY MailboxAssumption DEF WakeInv, RunLimits
  <2>6. RowLimits(deliveries)'
    BY <1>1, <1>5, <2>1, <2>3, <2>5 DEF RowLimits
  <2> QED BY <1>1, <1>2, <2>1, <2>2, <2>4, <2>6, AnswerWakes
<1>9. CASE Await(c, t) /\ wanted = {}
    BY <1>1, <1>2, <1>9, AwaitWakes
<1> HIDE DEF wanted
<1> QED BY <1>3, <1>4, <1>6, <1>7, <1>8, <1>9

\* A check that goes on after its mail is routed.
LEMMA ProceedWakes ==
    ASSUME WakeInv, NEW c \in Calls, Proceed(c)
    PROVE  WakeInv'
<1> DEFINE ask == calls[c].ask
           t == Acknowledged(ask.ack)
<1>1. calls[c].phase = "routing"
    BY DEF Proceed
<1>2. CASE Refuse(c)
    BY <1>2, RefuseWakes
<1>3. CASE Current(c) /\ Serve(c, t, ask.wait)
  <2>1. calls[c] # NoCall /\ calls[c] \in Call /\ ask.ack \in told \cup {NoDelivery}
    BY <1>1 DEF WakeInv, MailboxInv, CallsOK, NoCall
  <2>2. Served(t)
    BY <2>1, AcknowledgedServe
  <2>3. ask.wait \in BOOLEAN
    BY <2>1 DEF Call, Ask
  <2> QED BY <1>3, <2>1, <2>2, <2>3, ServeWakes
<1> QED BY <1>2, <1>3 DEF Proceed

\* A check that was notified.
LEMMA ResumeWakes ==
    ASSUME WakeInv, NEW c \in Calls, Resume(c)
    PROVE  WakeInv'
<1> DEFINE t == [mail |-> mail, deliveries |-> deliveries]
<1>1. CASE Refuse(c)
    BY <1>1, RefuseWakes
<1>2. CASE Current(c) /\ Serve(c, t, FALSE)
  <2>1. calls[c] # NoCall
    BY DEF Resume, NoCall
  <2>2. Served(t)
    BY RowsGoForward, MarkedIsRead DEF WakeInv, MailboxInv, TablesOK, BoxOK, Served
  <2> QED BY <1>2, <2>1, <2>2, ServeWakes
<1> QED BY <1>1, <1>2 DEF Resume

-----------------------------------------------------------------------------
\* A new handle has no mail yet, a restart leaves nobody waiting, a reset no mail.
LEMMA SurroundingsWake ==
    ASSUME WakeInv, (\E p \in Panes : Remint(p)) \/ Restart \/ Reset
    PROVE  WakeInv'
<1>1. MailboxInv' /\ MailboxInv
    BY SurroundingsKeepInv DEF WakeInv
<1>2. ASSUME NEW p \in Panes, Remint(p) PROVE WakeInv'
  <2>1. /\ mints[p] < MaxMints /\ mints' = [mints EXCEPT ![p] = @ + 1]
        /\ UNCHANGED <<run, known, mail, deliveries, issued, calls, dispatch, told, handed>>
    BY <1>2 DEF Remint
  <2>2. mints \in [Panes -> 0..MaxMints] /\ MaxMints \in Nat
    BY MailboxAssumption DEF WakeInv, RunLimits
  <2>3. /\ mints' \in [Panes -> 0..MaxMints] /\ mints'[p] = mints[p] + 1
        /\ \A q \in Panes \ {p} : mints'[q] = mints[q]
        /\ \A q \in Panes : 0..mints[q] \subseteq 0..mints'[q]
    BY <2>1, <2>2
  <2>4. Addressed(mail)'
    BY <2>1, <2>3 DEF WakeInv, Addressed
  <2>5. Drained(mail)'
    <3> SUFFICES ASSUME NEW q \in Panes, BoundTo(q), NEW i \in DOMAIN mail, ~mail[i].read
                 PROVE  mail[i].to # <<q, mints'[q]>>
      BY <2>1 DEF Drained, BoundTo, Handle
    <3>1. CASE q # p
      BY <2>3, <3>1 DEF WakeInv, Drained, Handle
    <3>2. CASE q = p
      <4>1. \A n \in 0..mints[p] : n # mints'[p]
        BY <2>2, <2>3
      <4>2. mail[i].to # RunBox => \E r \in Panes : \E n \in 0..mints[r] : mail[i].to = <<r, n>>
        BY DEF WakeInv, Addressed
      <4>3. <<p, mints'[p]>> # RunBox
        BY <2>3, MailboxAssumption
      <4> QED BY <3>2, <4>1, <4>2, <4>3
    <3> QED BY <3>1, <3>2
  <2>6. CoordinatorKnown' /\ RunLimits' /\ RowLimits(deliveries)' /\ CallLimits' /\ Listening'
    BY <2>1, <2>3 DEF WakeInv, CoordinatorKnown, RunLimits, RowLimits, CallLimits, Listening,
       Wanted, Unread, Matches
  <2>7. (handed \subseteq Ids(mail))'
    BY <2>1 DEF WakeInv, Ids
  <2> QED BY <1>1, <2>4, <2>5, <2>6, <2>7 DEF WakeInv
<1>3. CASE Restart
  <2>1. /\ UNCHANGED <<mints, run, known, mail, deliveries, issued, dispatch, told, handed>>
        /\ calls' = [c \in Calls |-> NoCall]
    BY <1>3 DEF Restart
  <2>2. Forward(mail, mail') /\ NoMoreWanted(mail, mail')
    BY <1>1, <2>1, RowsGoForward, MarkedIsRead DEF MailboxInv, TablesOK, BoxOK
  <2>3. CallLimits' /\ Listening'
    BY <2>1, <2>2, FewerListen
  <2>4. issued' \in 0..MaxDeliveries /\ RowLimits(deliveries)' /\ handed' \subseteq Ids(mail)
    BY <2>1 DEF WakeInv, RunLimits, RowLimits
  <2> QED BY <1>1, <2>1, <2>2, <2>3, <2>4, CarryWake
<1>4. CASE Reset
  <2>1. /\ mail' = <<>> /\ deliveries' = {} /\ handed' = {}
        /\ UNCHANGED <<mints, run, known, issued, calls, dispatch, told>>
    BY <1>4 DEF Reset
  <2>2. DOMAIN mail' = {}
    BY <2>1
  <2>3. Addressed(mail)' /\ Drained(mail)' /\ RowLimits(deliveries)' /\ (handed \subseteq Ids(mail))'
    BY <2>1, <2>2 DEF Addressed, Drained, RowLimits
  <2>4. \A picky : Wanted(mail', picky) = {}
    BY <2>2 DEF Wanted, Unread
  <2>5. Listening'
    <3>1. \A c \in Calls : calls'[c].phase = "waiting" => Wanted(mail', calls'[c].ask.picky) = {}
      BY <2>4
    <3> QED BY <3>1 DEF Listening, Matches, Wanted, Unread
  <2>6. CoordinatorKnown' /\ RunLimits' /\ CallLimits'
    BY <2>1 DEF WakeInv, CoordinatorKnown, RunLimits, CallLimits
  <2> QED BY <1>1, <2>3, <2>5, <2>6 DEF WakeInv
<1> QED BY <1>2, <1>3, <1>4

\* So the invariant is inductive, too.
LEMMA WakeNextInv == WakeInv /\ [Next]_vars => WakeInv'
<1> SUFFICES ASSUME WakeInv, [Next]_vars PROVE WakeInv'
    OBVIOUS
<1>1. ASSUME NEW m \in Messages, NEW to \in Handles \cup {RunBox}, Send(m, to) PROVE WakeInv'
    BY <1>1, SendWakes
<1>2. ASSUME NEW m \in Messages, Reply(m) PROVE WakeInv'
    BY <1>2, ReplyWakes
<1>3. ASSUME NEW p \in Panes, Use(p) PROVE WakeInv'
    BY <1>3, UseWakes
<1>4. CASE Leave
    BY <1>4, LeaveWakes
<1>5. ASSUME NEW c \in Calls, NEW p \in Panes, NEW ask \in Asks, Check(c, p, ask) PROVE WakeInv'
    BY <1>5, CheckWakes
<1>6. ASSUME NEW c \in Calls, Proceed(c) \/ Resume(c) \/ GiveUp(c) PROVE WakeInv'
    BY <1>6, ProceedWakes, ResumeWakes, RefuseWakes DEF GiveUp
<1>7. CASE (\E p \in Panes : Remint(p)) \/ Restart \/ Reset
    BY <1>7, SurroundingsWake
<1>8. ASSUME NEW m \in Messages, NEW d \in Dispatches, Heartbeat(m, d) \/ Report(m, d)
      PROVE  WakeInv'
    BY <1>8, HeartbeatWakes, ReportWakes
<1>9. ASSUME NEW d \in Dispatches, End(d) PROVE WakeInv'
    BY <1>9, EndWakes
<1>10. CASE UNCHANGED vars
  <2>1. MailboxInv'
    BY <1>10, MailboxNextInv DEF WakeInv
  <2>2. Listening'
    BY <1>10 DEF vars, WakeInv, Listening, Wanted, Unread, Matches
  <2> QED BY <1>10, <2>1, <2>2 DEF vars, WakeInv, Addressed, Drained, BoundTo, Handle,
          CoordinatorKnown, RunLimits, RowLimits, CallLimits, Ids
<1> QED BY <1>1, <1>2, <1>3, <1>4, <1>5, <1>6, <1>7, <1>8, <1>9, <1>10 DEF Next

\* It holds of every reachable state.
LEMMA WakeInvHolds == Spec => []WakeInv
<1> QED BY WakeInitInv, WakeNextInv, PTL DEF Spec

\* A check that waits is woken by every unread message it waits for, be it sent to the
\* mailbox, reconciled into it, routed from a terminal that coordinates the Run or once
\* did, or left by the coordinator before.
THEOREM NoWakeupIsMissed == Spec => []NoMissedWakeup
<1>1. WakeInv => NoMissedWakeup
    BY DEF WakeInv, Listening, NoMissedWakeup, Waiting
<1> QED BY <1>1, WakeInvHolds, PTL

\* The tables and the checks in progress keep their shape: batches are pages of mail
\* that is there, and no generation is ahead of the Run's.
THEOREM MailboxTypeCorrect == Spec => []MailboxTypeOK
<1>1. ASSUME WakeInv PROVE MailboxTypeOK
  <2>1. \A i \in DOMAIN mail : /\ mail[i].id \in Messages /\ mail[i].read \in BOOLEAN
                               /\ mail[i].type \in Types
                               /\ mail[i].about \in Dispatches \cup {NoDispatch}
                               /\ mail[i].to \in Handles \cup {RunBox}
    <3> SUFFICES ASSUME NEW i \in DOMAIN mail
                 PROVE  /\ mail[i].id \in Messages /\ mail[i].read \in BOOLEAN
                        /\ mail[i].type \in Types
                        /\ mail[i].about \in Dispatches \cup {NoDispatch}
                        /\ mail[i].to \in Handles \cup {RunBox}
      OBVIOUS
    <3>1. mail[i] \in MailRow
      BY <1>1 DEF WakeInv, MailboxInv, TablesOK, BoxOK
    <3>2. mail[i].to \in Handles \cup {RunBox}
      <4>1. \A p \in Panes : 0..mints[p] \subseteq 0..MaxMints
        <5>1. mints \in [Panes -> 0..MaxMints] /\ MaxMints \in Nat
          BY <1>1, MailboxAssumption DEF WakeInv, RunLimits
        <5> QED BY <5>1
      <4> QED BY <1>1, <4>1 DEF WakeInv, Addressed, Handles
    <3> QED BY <3>1, <3>2 DEF MailRow
  <2>2. \A d \in deliveries : /\ d.id \in 1..issued
                              /\ d.generation \in 1..run.generation
                              /\ d.status \in {"outstanding", "acknowledged", "fenced"}
                              /\ Cardinality(d.batch) \in 1..PageLimit
                              /\ d.batch \subseteq Ids(mail)
    <3> SUFFICES ASSUME NEW d \in deliveries
                 PROVE  /\ d.id \in 1..issued
                        /\ d.generation \in 1..run.generation
                        /\ d.status \in {"outstanding", "acknowledged", "fenced"}
                        /\ Cardinality(d.batch) \in 1..PageLimit
                        /\ d.batch \subseteq Ids(mail)
      OBVIOUS
    <3>1. d \in Delivery /\ d.id <= issued /\ issued \in Nat /\ d.batch \subseteq Ids(mail)
      BY <1>1 DEF WakeInv, MailboxInv, TablesOK, RowsOK, BatchOK, RunOK
    <3>2. d.generation \in 1..run.generation /\ Cardinality(d.batch) \in 1..PageLimit
      BY <1>1 DEF WakeInv, RowLimits
    <3> QED BY <3>1, <3>2 DEF Delivery
  <2>3. \A c \in Calls : calls[c] # NoCall => calls[c].generation \in 1..run.generation
    BY <1>1 DEF WakeInv, CallLimits
  <2>4. /\ told \subseteq 1..issued /\ handed \subseteq Ids(mail)
        /\ dispatch \in [Dispatches -> {"dispatched", "reported", "over"}]
    BY <1>1 DEF WakeInv, MailboxInv, RunOK
  <2> QED BY <1>1, <2>1, <2>2, <2>3, <2>4 DEF MailboxTypeOK, WakeInv, RunLimits
<1> QED BY <1>1, WakeInvHolds, PTL

=============================================================================
