--------------------------- MODULE ReportChannel ---------------------------
(* What a federated dispatch may rely on, seen from both runtimes: a first-  *)
(* in, first-out channel from the worker's runtime to the Run's home.  A     *)
(* message that was accepted and has not arrived may be dropped only if it   *)
(* is a heartbeat that a newer message replaces; an accepted report arrives. *)
EXTENDS Naturals, Sequences

CONSTANT Messages   \* the messages a worker may send

VARIABLES
  accepted,   \* reports the channel has taken
  pending,    \* messages taken and not yet received, in order
  received    \* messages in the Run's inbox, in order

channelVars == <<accepted, pending, received>>

ChannelInit == accepted = {} /\ pending = <<>> /\ received = <<>>

Taken(m) == accepted' = IF m.kind = "worker_done" THEN accepted \cup {m.id} ELSE accepted

Accept(m) == Taken(m) /\ pending' = Append(pending, m) /\ UNCHANGED received

Replace(i, m) ==
  /\ pending[i].kind = "heartbeat"
  /\ Taken(m)
  /\ pending' = [pending EXCEPT ![i] = m]
  /\ UNCHANGED received

Receive(n) ==
  /\ received' = received \o [i \in 1..n |-> pending[i].id]
  /\ pending' = SubSeq(pending, n + 1, Len(pending))
  /\ UNCHANGED accepted

(* The user may clear the Run's inbox; the channel is not affected.          *)
Clear == received' = <<>> /\ UNCHANGED <<accepted, pending>>

ChannelNext ==
  \/ \E m \in Messages : Accept(m) \/ \E i \in 1..Len(pending) : Replace(i, m)
  \/ \E n \in 1..Len(pending) : Receive(n)
  \/ Clear

ChannelSpec == ChannelInit /\ [][ChannelNext]_channelVars
=============================================================================
