-------------------------- MODULE SideEffectApproval --------------------------
(***************************************************************************)
(* Approval of a worker's tool calls.  A call with a side effect is held at  *)
(* the provider's hook until it is allowed or denied: locally by the         *)
(* controller, or, for a worker on a paired host, by the host's broker,      *)
(* which asks the owner's desktop over a subscription and gives up after a   *)
(* time-out.  The controller keeps the requests in the decision inbox.       *)
(*                                                                         *)
(* A denied call is over; the agent's retry is another call.                *)
(***************************************************************************)
EXTENDS Integers, FiniteSets

CONSTANTS
  Calls,    \* tool calls with a side effect, of one dispatch
  Paired,   \* the calls made on the paired host
  Inputs,   \* tool name and canonical input
  InputOf,  \* what each call does
  Limit,    \* BARKOS_MAX_DECISION_REQUESTS
  TTL,      \* BARKOS_SIDE_EFFECT_APPROVAL_TTL_MS
  MaxTime,  \* bound on the clock
  None

ASSUME ApprovalAssumption ==
  /\ Paired \subseteq Calls
  /\ InputOf \in [Calls -> Inputs]
  /\ Limit \in Nat \ {0}
  /\ TTL \in Nat \ {0}
  /\ MaxTime \in Nat
  /\ None \notin Nat

VARIABLES
  requests,   \* the approval requests in the inbox
  born,       \* how many requests were made so far
  granted,    \* every approval the user gave (history)
  calls,      \* what became of each call
  active,     \* whether the dispatch is active
  subscribed, \* whether the owner's subscription to the host is open
  now

vars == <<requests, born, granted, calls, active, subscribed, now>>

\* "sequence" is the last part of the request's id, "born" orders the requests
\* by their creation.
Request ==
  [born : Nat, input : Inputs, sequence : Nat, expiresAt : Nat,
   status : {"pending", "approved", "rejected", "expired", "consumed"}]

\* Where the call is held, and the message about it on the paired connection.
\* "permit" is the request whose approval was consumed for it.
Call ==
  [hook   : {"new", "held", "allowed", "denied", "ran"},
   wire   : {"none", "request", "allow", "deny"},
   permit : Nat \cup {None}]

Init ==
  /\ requests = {}
  /\ born = 0
  /\ granted = {}
  /\ calls = [c \in Calls |-> [hook |-> "new", wire |-> "none", permit |-> None]]
  /\ active = TRUE
  /\ subscribed = FALSE
  /\ now = 0

-----------------------------------------------------------------------------
(* The inbox. *)

\* The newest requests are kept.
Cut(inbox) == {r \in inbox : Cardinality({q \in inbox : q.born > r.born}) < Limit}

Matching(input) == {r \in requests : r.input = input}

\* latestMatchingRequest.  Defect: the oldest one is taken.
OldestMatching(input) == {r \in Matching(input) : \A q \in Matching(input) : r.born <= q.born}

LatestMatching(input) == {r \in Matching(input) : \A q \in Matching(input) : q.born <= r.born}

NextSequence(input) == Cardinality(Matching(input)) + 1

Replaced(r, status) == (requests \ {r}) \cup {[r EXCEPT !.status = status]}

\* consumeBarkosSideEffectApproval.  Defect: the approval is left as it is.
Unconsumed(r) == requests

Consumed(r) == Replaced(r, "consumed")

-----------------------------------------------------------------------------
(* The controller's answer to a call. *)

\* A local call is answered at its hook, a paired one over the connection.
Answer(c, answer, permit) ==
  calls' = [calls EXCEPT ![c] =
              IF c \in Paired
              THEN [@ EXCEPT !.wire = answer, !.permit = permit]
              ELSE [@ EXCEPT !.hook = IF answer = "allow" THEN "allowed" ELSE "denied", !.permit = permit]]

\* The call is before the controller.
Asked(c) == IF c \in Paired THEN calls[c].wire = "request" ELSE calls[c].hook = "held"

\* No active dispatch, an unverified identity, or a write that fails.
Block(c) ==
  /\ Asked(c)
  /\ Answer(c, "deny", None)
  /\ UNCHANGED <<requests, born>>

\* A pending request that is too old expires; the call is denied.
Expire(c) ==
  /\ active /\ Asked(c)
  /\ \E r \in LatestMatching(InputOf[c]) :
       /\ r.status = "pending" /\ r.expiresAt <= now
       /\ requests' = Replaced(r, "expired")
  /\ Answer(c, "deny", None)
  /\ UNCHANGED born

\* A rejection stands, and a pending request is not made twice.
Refuse(c) ==
  /\ active /\ Asked(c)
  /\ \E r \in LatestMatching(InputOf[c]) :
       r.status = "rejected" \/ (r.status = "pending" /\ r.expiresAt > now)
  /\ Answer(c, "deny", None)
  /\ UNCHANGED <<requests, born>>

\* An approval is consumed before the call is allowed.
Consume(c) ==
  /\ active /\ Asked(c)
  /\ \E r \in LatestMatching(InputOf[c]) :
       /\ r.status = "approved"
       /\ requests' = Consumed(r)
       /\ Answer(c, "allow", r.born)
  /\ UNCHANGED born

\* Otherwise a new request is appended, unless one has its id already: then the
\* update throws, which blocks the call.
MayAsk(input) == \A r \in LatestMatching(input) : r.status \in {"expired", "consumed"}

Ask(c) ==
  /\ active /\ Asked(c)
  /\ MayAsk(InputOf[c])
  /\ IF \E r \in Matching(InputOf[c]) : r.sequence = NextSequence(InputOf[c])
     THEN UNCHANGED <<requests, born>>
     ELSE /\ born' = born + 1
          /\ requests' = Cut(requests \cup
               {[born |-> born + 1, input |-> InputOf[c], sequence |-> NextSequence(InputOf[c]),
                 expiresAt |-> now + TTL, status |-> "pending"]})
  /\ Answer(c, "deny", None)

\* evaluateMatchedApproval, in one turn.
Evaluate(c) ==
  /\ Block(c) \/ Expire(c) \/ Refuse(c) \/ Consume(c) \/ Ask(c)
  /\ UNCHANGED <<granted, active, subscribed, now>>

\* The user's decision.  Approval asks for an active dispatch, rejection does not.
Decide(r, decision) ==
  /\ r.status = "pending" /\ r.expiresAt > now
  /\ decision = "approved" => active
  /\ requests' = Replaced(r, decision)
  /\ granted' = IF decision = "approved" THEN granted \cup {<<r.born, r.input>>} ELSE granted
  /\ UNCHANGED <<born, calls, active, subscribed, now>>

-----------------------------------------------------------------------------
(* The hook and the broker. *)

Hook(c, hook) == calls' = [calls EXCEPT ![c].hook = hook]

\* The provider holds the call.  On a paired host the broker forwards it to the
\* owner, or denies it at once when no subscription is open.
UseTool(c) ==
  /\ calls[c].hook = "new"
  /\ calls' = [calls EXCEPT ![c] =
        IF c \notin Paired THEN [@ EXCEPT !.hook = "held"]
        ELSE IF subscribed THEN [@ EXCEPT !.hook = "held", !.wire = "request"]
        ELSE [@ EXCEPT !.hook = "denied"]]
  /\ UNCHANGED <<requests, born, granted, active, subscribed, now>>

\* The broker gives up, or the hook's own transport is lost.
GiveUp(c) ==
  /\ calls[c].hook = "held"
  /\ Hook(c, "denied")
  /\ UNCHANGED <<requests, born, granted, active, subscribed, now>>

\* resolve: an answer counts only for a call that is still held.
\* Defect: a late answer is obeyed.
ObeyLate(c) == TRUE

Obey(c) == calls[c].hook = "held"

Deliver(c) ==
  /\ calls[c].wire \in {"allow", "deny"}
  /\ calls' = [calls EXCEPT ![c] =
        [@ EXCEPT !.wire = "none",
                  !.hook = IF ~Obey(c) THEN calls[c].hook ELSE IF calls[c].wire = "allow" THEN "allowed" ELSE "denied"]]
  /\ UNCHANGED <<requests, born, granted, active, subscribed, now>>

Lose(c) ==
  /\ calls[c].wire # "none"
  /\ calls' = [calls EXCEPT ![c].wire = "none"]
  /\ UNCHANGED <<requests, born, granted, active, subscribed, now>>

\* failPendingForOwner: the calls the host holds for the owner are denied.
FailPending == [c \in Calls |-> IF c \in Paired /\ calls[c].hook = "held" THEN [calls[c] EXCEPT !.hook = "denied"] ELSE calls[c]]

\* subscribe closes the subscription before it.
Subscribe ==
  /\ subscribed' = TRUE
  /\ calls' = IF subscribed THEN FailPending ELSE calls
  /\ UNCHANGED <<requests, born, granted, active, now>>

Unsubscribe ==
  /\ subscribed
  /\ subscribed' = FALSE
  /\ calls' = FailPending
  /\ UNCHANGED <<requests, born, granted, active, now>>

\* The provider runs the tool, or is gone before the answer reaches it.
Run(c) ==
  /\ calls[c].hook = "allowed"
  /\ \E hook \in {"ran", "denied"} : Hook(c, hook)
  /\ UNCHANGED <<requests, born, granted, active, subscribed, now>>

DispatchEnds ==
  /\ active
  /\ active' = FALSE
  /\ UNCHANGED <<requests, born, granted, calls, subscribed, now>>

Tick ==
  /\ now < MaxTime
  /\ now' = now + 1
  /\ UNCHANGED <<requests, born, granted, calls, active, subscribed>>

Next ==
  \/ \E c \in Calls : UseTool(c) \/ GiveUp(c) \/ Evaluate(c) \/ Deliver(c) \/ Lose(c) \/ Run(c)
  \/ \E r \in requests, decision \in {"approved", "rejected"} : Decide(r, decision)
  \/ Subscribe \/ Unsubscribe \/ DispatchEnds \/ Tick

Spec == Init /\ [][Next]_vars

-----------------------------------------------------------------------------
(* Properties. *)

\* The state has its type.
ApprovalTypeOK ==
  /\ requests \subseteq Request
  /\ born \in Nat
  /\ granted \subseteq Nat \X Inputs
  /\ calls \in [Calls -> Call]
  /\ active \in BOOLEAN
  /\ subscribed \in BOOLEAN
  /\ now \in Nat

\* A call that was allowed, or may yet be, has an approval of its own input that
\* no other call has: two retries never run on one approval.
OwnPermit ==
  \A c \in Calls :
    /\ calls[c].hook \in {"allowed", "ran"} \/ calls[c].wire = "allow" => calls[c].permit # None
    /\ calls[c].permit # None =>
         /\ <<calls[c].permit, InputOf[c]>> \in granted
         /\ \A d \in Calls \ {c} : calls[d].permit # calls[c].permit

\* At most one request for an input is undecided or approved and unused, and it
\* is the newest one, which is the one a retry is matched with.
OneOpenRequest ==
  \A r, q \in requests :
    r.input = q.input /\ r.status \in {"pending", "approved"} => q = r \/ q.born < r.born

\* The calls that ran are based on permissions as promised.
Based == {<<c, <<calls[c].permit, InputOf[c]>>>> : c \in {d \in Calls : calls[d].hook = "ran"}}

Promise == INSTANCE OneUsePermission WITH Runs <- Calls, based <- Based
ImplementsPermission == Promise!PermissionSpec

\* However often an agent retries, and whatever is answered late or asked again
\* under an id given before: of no input do more calls run than the user approved.
RunsWithinGrants ==
  \A input \in Inputs :
    Cardinality({c \in Calls : calls[c].hook = "ran" /\ InputOf[c] = input})
      <= Cardinality({g \in granted : g[2] = input})

\* A call the broker gave up, or failed with its subscription, is not revived by
\* an answer that comes late or from the time before.
DenialIsFinal == [][\A c \in Calls : calls[c].hook = "denied" => calls'[c].hook = "denied"]_vars

\* Expiry blocks the action (BARKOS_ARCHITECTURE.md:192-193).
ExpiryBlocks ==
  [][\A r \in requests : r.status = "approved" /\ r.expiresAt <= now =>
       [r EXCEPT !.status = "consumed"] \notin requests']_vars

\* A replay of a consumed action creates a new request
\* (BARKOS_ARCHITECTURE.md:191): it does not go unanswered for ever.
ReplayCreatesRequest ==
  \A c \in Calls :
    active /\ Asked(c) /\ (\A r \in LatestMatching(InputOf[c]) : r.status = "consumed")
      => ~\E r \in Matching(InputOf[c]) : r.sequence = NextSequence(InputOf[c])

===============================================================================
