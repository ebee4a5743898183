----------------------- MODULE SideEffectApprovalProofs -----------------------
(***************************************************************************)
(* What is proved of the approval of tool calls, for any calls, inputs,     *)
(* inbox limit and life time: an input has one open request at most, a call *)
(* that was denied stays denied, and the calls that run do so on one-use    *)
(* permissions, as OneUsePermission promises: an input never has more runs  *)
(* than the user granted.                                                   *)
(*                                                                         *)
(* The argument: a request is named by its birth, so a permit names one     *)
(* request; it becomes a call's when that request leaves "approved", and it *)
(* does so once.                                                            *)
(***************************************************************************)
EXTENDS SideEffectApproval, FiniteSetTheorems, TLAPS

Open(r) == r.status \in {"pending", "approved"}

\* The call was allowed, or the message that allows it is under way.
Allowed(c) == calls[c].hook \in {"allowed", "ran"} \/ calls[c].wire = "allow"

\* The call has not been answered yet.
Waits(c) ==
  \/ calls[c].hook = "new"
  \/ calls[c].wire = "request"
  \/ c \notin Paired /\ calls[c].hook = "held"

\* Requests and permissions bear numbers given out, each request its own.
Numbered ==
  /\ IsFiniteSet(requests)
  /\ \A r \in requests : r.born <= born
  /\ \A g \in granted : g[1] <= born
  /\ \A r, q \in requests : r.born = q.born => r = q

\* An approved request was granted, and what is open has served no call.
Unspent ==
  \A r \in requests :
    /\ r.status = "approved" => <<r.born, r.input>> \in granted
    /\ Open(r) => \A c \in Calls : calls[c].permit # r.born

\* A call that is not answered has no permit, and only paired calls that were
\* made have messages.
Unanswered ==
  \A c \in Calls :
    /\ calls[c].hook = "new" \/ c \notin Paired => calls[c].wire = "none"
    /\ Waits(c) => calls[c].permit = None

ApprovalInv ==
  /\ ApprovalTypeOK
  /\ Numbered
  /\ OneOpenRequest
  /\ Unspent
  /\ OwnPermit
  /\ Unanswered

\* Init establishes the invariant.
LEMMA ApprovalInitInv == Init => ApprovalInv
<1> SUFFICES ASSUME Init PROVE ApprovalInv
  OBVIOUS
<1>1. \A c \in Calls : calls[c] = [hook |-> "new", wire |-> "none", permit |-> None]
  BY DEF Init
<1>2. ApprovalTypeOK
  BY DEF Init, ApprovalTypeOK, Call
<1>3. Numbered /\ OneOpenRequest /\ Unspent
  BY FS_EmptySet DEF Init, Numbered, OneOpenRequest, Unspent
<1>4. OwnPermit /\ Unanswered
  BY <1>1 DEF OwnPermit, Unanswered, Waits
<1> QED BY <1>2, <1>3, <1>4 DEF ApprovalInv

-----------------------------------------------------------------------------
(* The steps of the hook and the broker. *)

\* A step that leaves the requests alone, gives no permit, allows no call that
\* was not allowed and makes no call wait that did not, keeps the invariant.
LEMMA CallStepKeepsInv ==
  ASSUME ApprovalInv,
         UNCHANGED <<requests, born, granted>>,
         calls' \in [Calls -> Call],
         active' \in BOOLEAN, subscribed' \in BOOLEAN, now' \in Nat,
         \A c \in Calls : calls'[c].permit = calls[c].permit,
         \A c \in Calls : Allowed(c)' => Allowed(c),
         Unanswered'
  PROVE  ApprovalInv'
<1>1. ApprovalTypeOK'
  BY DEF ApprovalInv, ApprovalTypeOK
<1>2. Numbered' /\ OneOpenRequest'
  BY DEF ApprovalInv, Numbered, OneOpenRequest
<1>3. Unspent'
  BY DEF ApprovalInv, Unspent, Open
<1>4. OwnPermit'
  BY DEF ApprovalInv, OwnPermit, Allowed
<1> QED BY <1>1, <1>2, <1>3, <1>4 DEF ApprovalInv

\* What UseTool, GiveUp, Deliver, Lose and Run do to the call: its permit stays,
\* it is allowed only if it was, and it waits only if it had no permit.
LEMMA OneCallEffect ==
  ASSUME ApprovalInv, NEW c \in Calls,
         UseTool(c) \/ GiveUp(c) \/ Deliver(c) \/ Lose(c) \/ Run(c)
  PROVE  /\ calls' \in [Calls -> Call]
         /\ \A d \in Calls \ {c} : calls'[d] = calls[d]
         /\ calls'[c].permit = calls[c].permit
         /\ Allowed(c)' => Allowed(c)
         /\ calls'[c].hook = "new" \/ c \notin Paired => calls'[c].wire = "none"
         /\ Waits(c)' => calls[c].permit = None
<1>1. /\ calls \in [Calls -> Call]
      /\ calls[c].hook \in {"new", "held", "allowed", "denied", "ran"}
      /\ calls[c].wire \in {"none", "request", "allow", "deny"}
      /\ calls[c].permit \in Nat \cup {None}
  BY DEF ApprovalInv, ApprovalTypeOK, Call
<1>2. /\ calls[c].hook = "new" \/ c \notin Paired => calls[c].wire = "none"
      /\ Waits(c) => calls[c].permit = None
  BY DEF ApprovalInv, Unanswered
<1> USE <1>1, <1>2 DEF Allowed, Waits, Call
<1>3. CASE UseTool(c)
  <2>1. CASE c \notin Paired
    BY <1>3, <2>1 DEF UseTool
  <2>2. CASE c \in Paired /\ subscribed
    BY <1>3, <2>2 DEF UseTool
  <2>3. CASE c \in Paired /\ ~subscribed
    BY <1>3, <2>3 DEF UseTool
  <2> QED BY <2>1, <2>2, <2>3
<1>4. CASE GiveUp(c)
  BY <1>4 DEF GiveUp, Hook
<1>5. CASE Deliver(c)
  <2>1. CASE ~Obey(c)
    BY <1>5, <2>1 DEF Deliver
  <2>2. CASE Obey(c) /\ calls[c].wire = "allow"
    BY <1>5, <2>2 DEF Deliver, Obey
  <2>3. CASE Obey(c) /\ calls[c].wire = "deny"
    BY <1>5, <2>3 DEF Deliver, Obey
  <2> QED BY <1>5, <2>1, <2>2, <2>3 DEF Deliver
<1>6. CASE Lose(c)
  BY <1>6 DEF Lose
<1>7. CASE Run(c)
  BY <1>7 DEF Run, Hook
<1> QED BY <1>3, <1>4, <1>5, <1>6, <1>7

\* So they keep the invariant.
LEMMA OneCallKeepsInv ==
  ASSUME ApprovalInv, NEW c \in Calls,
         UseTool(c) \/ GiveUp(c) \/ Deliver(c) \/ Lose(c) \/ Run(c)
  PROVE  ApprovalInv'
<1>1. /\ calls' \in [Calls -> Call]
      /\ \A d \in Calls : calls'[d].permit = calls[d].permit
      /\ \A d \in Calls : Allowed(d)' => Allowed(d)
  BY OneCallEffect DEF Allowed
<1>2. Unanswered'
  BY OneCallEffect DEF Unanswered, Waits, ApprovalInv
<1>3. /\ UNCHANGED <<requests, born, granted>>
      /\ active' \in BOOLEAN /\ subscribed' \in BOOLEAN /\ now' \in Nat
  BY DEF UseTool, GiveUp, Deliver, Lose, Run, ApprovalInv, ApprovalTypeOK
<1> QED BY <1>1, <1>2, <1>3, CallStepKeepsInv

\* Subscribe and Unsubscribe deny the calls held for the owner, at most.
LEMMA SubscriptionKeepsInv ==
  ASSUME ApprovalInv, Subscribe \/ Unsubscribe
  PROVE  ApprovalInv'
<1>1. calls \in [Calls -> Call]
  BY DEF ApprovalInv, ApprovalTypeOK
<1>2. calls' \in [Calls -> Call]
  BY <1>1 DEF Subscribe, Unsubscribe, FailPending, Call
<1>3. \A c \in Calls :
        \/ calls'[c] = calls[c]
        \/ /\ c \in Paired
           /\ calls[c].hook = "held" /\ calls'[c].hook = "denied"
           /\ calls'[c].wire = calls[c].wire /\ calls'[c].permit = calls[c].permit
  BY <1>1 DEF Subscribe, Unsubscribe, FailPending, Call
<1>4. Unanswered'
  BY <1>3 DEF Unanswered, Waits, ApprovalInv
<1>5. \A d \in Calls : /\ calls'[d].permit = calls[d].permit
                       /\ Allowed(d)' => Allowed(d)
  BY <1>3 DEF Allowed
<1>6. /\ UNCHANGED <<requests, born, granted>>
      /\ active' \in BOOLEAN /\ subscribed' \in BOOLEAN /\ now' \in Nat
  BY DEF Subscribe, Unsubscribe, ApprovalInv, ApprovalTypeOK
<1> QED BY <1>2, <1>4, <1>5, <1>6, CallStepKeepsInv

-----------------------------------------------------------------------------
(* The requests. *)

\* A change of status keeps numbers, and open requests open ones at most.
LEMMA ReplacedRequests ==
  ASSUME ApprovalInv, NEW r \in requests,
         NEW status \in {"approved", "rejected", "expired", "consumed"},
         Open(r),
         requests' = Replaced(r, status)
  PROVE  /\ requests' \subseteq Request
         /\ IsFiniteSet(requests')
         /\ \A q \in requests' :
              \/ q \in requests /\ q # r
              \/ q = [r EXCEPT !.status = status]
         /\ \A p, q \in requests' : p.born = q.born => p = q
         /\ OneOpenRequest'
<1>1. requests \subseteq Request
  BY DEF ApprovalInv, ApprovalTypeOK
<1> DEFINE s == [r EXCEPT !.status = status]
<1>2. /\ s \in Request /\ s.born = r.born /\ s.input = r.input /\ s.status = status
  BY <1>1 DEF Request
<1>3. \A q \in requests' : (q \in requests /\ q # r) \/ q = s
  BY DEF Replaced
<1> HIDE DEF s
<1>7. IsFiniteSet(requests')
  <2>1. requests' = (requests \ {r}) \cup {s}
    BY DEF Replaced, s
  <2>2. IsFiniteSet(requests \ {r})
    BY FS_RemoveElement DEF ApprovalInv, Numbered
  <2> QED BY <2>1, <2>2, FS_AddElement
<1>4. requests' \subseteq Request
  BY <1>1, <1>2, <1>3
<1>5. \A p, q \in requests' : p.born = q.born => p = q
  BY <1>2, <1>3 DEF ApprovalInv, Numbered
<1>6. OneOpenRequest'
  BY <1>2, <1>3 DEF ApprovalInv, OneOpenRequest, Open
<1> QED BY <1>3, <1>4, <1>5, <1>6, <1>7 DEF s

\* The answer to a call changes that call alone.
LEMMA AnswerEffect ==
  ASSUME ApprovalInv, NEW c \in Calls, Asked(c),
         NEW answer \in {"allow", "deny"}, NEW permit \in Nat \cup {None},
         Answer(c, answer, permit)
  PROVE  /\ calls' \in [Calls -> Call]
         /\ \A d \in Calls \ {c} : calls'[d] = calls[d]
         /\ calls[c].permit = None /\ ~Allowed(c)
         /\ calls'[c].permit = permit
         /\ Allowed(c)' => answer = "allow"
         /\ Unanswered'
<1>1. calls \in [Calls -> Call] /\ calls[c] \in Call
  BY DEF ApprovalInv, ApprovalTypeOK
<1>2. /\ calls[c].permit = None
      /\ ~Allowed(c)
  BY DEF ApprovalInv, Unanswered, Waits, OwnPermit, Asked, Allowed
<1>3. calls' \in [Calls -> Call] /\ \A d \in Calls \ {c} : calls'[d] = calls[d]
  BY <1>1 DEF Answer, Call
<1>4. /\ calls'[c].permit = permit
      /\ Allowed(c)' => answer = "allow"
      /\ calls'[c].hook # "new"
      /\ calls'[c].wire # "request"
      /\ c \notin Paired => calls'[c].hook # "held" /\ calls'[c].wire = "none"
  BY <1>1, <1>2 DEF Answer, Asked, Call, Allowed, ApprovalInv, Unanswered, Waits
<1>5. Unanswered'
  BY <1>3, <1>4 DEF Unanswered, Waits, ApprovalInv
<1> QED BY <1>2, <1>3, <1>4, <1>5

\* A call that is denied leaves the calls' part of the invariant as it was.
LEMMA DenyEffect ==
  ASSUME ApprovalInv, NEW c \in Calls, Asked(c), Answer(c, "deny", None),
         granted' = granted
  PROVE  /\ calls' \in [Calls -> Call]
         /\ \A d \in Calls : calls'[d].permit = calls[d].permit
         /\ OwnPermit' /\ Unanswered'
<1>1. /\ calls' \in [Calls -> Call]
      /\ \A d \in Calls \ {c} : calls'[d] = calls[d]
      /\ calls[c].permit = None /\ calls'[c].permit = None
      /\ ~Allowed(c)'
      /\ Unanswered'
  BY AnswerEffect
<1>2. \A d \in Calls : calls'[d].permit = calls[d].permit
  BY <1>1
<1>3. OwnPermit'
  BY <1>1, <1>2 DEF OwnPermit, ApprovalInv, Allowed
<1> QED BY <1>1, <1>2, <1>3

\* Whatever the controller answers, the invariant holds.
LEMMA EvaluateKeepsInv ==
  ASSUME ApprovalInv, NEW c \in Calls, Evaluate(c)
  PROVE  ApprovalInv'
<1>1. /\ granted' = granted /\ active' = active /\ subscribed' = subscribed /\ now' = now
  BY DEF Evaluate
<1>2. /\ requests \subseteq Request /\ born \in Nat /\ granted \subseteq Nat \X Inputs
      /\ active' \in BOOLEAN /\ subscribed' \in BOOLEAN /\ now' \in Nat
  BY <1>1 DEF ApprovalInv, ApprovalTypeOK
<1>3. CASE Block(c) \/ Refuse(c)
  <2>1. Asked(c) /\ Answer(c, "deny", None) /\ UNCHANGED <<requests, born>>
    BY <1>3 DEF Block, Refuse
  <2>2. /\ calls' \in [Calls -> Call]
        /\ \A d \in Calls : calls'[d].permit = calls[d].permit
        /\ OwnPermit' /\ Unanswered'
    BY <2>1, <1>1, DenyEffect
  <2>3. Unspent'
    BY <1>1, <2>1, <2>2 DEF Unspent, Open, ApprovalInv
  <2>4. ApprovalTypeOK' /\ Numbered' /\ OneOpenRequest'
    BY <1>1, <2>1, <2>2 DEF ApprovalInv, ApprovalTypeOK, Numbered, OneOpenRequest
  <2> QED BY <2>2, <2>3, <2>4 DEF ApprovalInv
<1>4. CASE Expire(c)
  <2>1. PICK r \in requests : r.status = "pending" /\ requests' = Replaced(r, "expired")
    BY <1>4 DEF Expire, LatestMatching, Matching
  <2>2. Asked(c) /\ Answer(c, "deny", None) /\ born' = born
    BY <1>4 DEF Expire
  <2>3. /\ calls' \in [Calls -> Call]
        /\ \A d \in Calls : calls'[d].permit = calls[d].permit
        /\ OwnPermit' /\ Unanswered'
    BY <2>2, <1>1, DenyEffect
  <2>4. /\ requests' \subseteq Request
        /\ IsFiniteSet(requests')
        /\ \A q \in requests' :
              \/ q \in requests /\ q # r
              \/ q = [r EXCEPT !.status = "expired"]
        /\ \A p, q \in requests' : p.born = q.born => p = q
        /\ OneOpenRequest'
    BY <2>1, ReplacedRequests DEF Open
  <2>5. \A q \in requests' : q.born <= born /\ (Open(q) => q \in requests)
    BY <1>2, <2>1, <2>4 DEF ApprovalInv, Numbered, Open, Request
  <2>6. Unspent'
    BY <1>1, <2>3, <2>5 DEF Unspent, Open, ApprovalInv
  <2>7. ApprovalTypeOK' /\ Numbered'
    BY <1>1, <1>2, <2>2, <2>3, <2>4, <2>5 DEF ApprovalInv, ApprovalTypeOK, Numbered
  <2> QED BY <2>3, <2>4, <2>6, <2>7 DEF ApprovalInv
<1>5. CASE Consume(c)
  <2>1. PICK r \in requests :
          /\ r.input = InputOf[c] /\ r.status = "approved"
          /\ requests' = Replaced(r, "consumed")
          /\ Answer(c, "allow", r.born)
    BY <1>5 DEF Consume, LatestMatching, Matching, Consumed
  <2>2. Asked(c) /\ born' = born
    BY <1>5 DEF Consume
  <2>3. /\ requests' \subseteq Request
        /\ IsFiniteSet(requests')
        /\ \A q \in requests' :
              \/ q \in requests /\ q # r
              \/ q = [r EXCEPT !.status = "consumed"]
        /\ \A p, q \in requests' : p.born = q.born => p = q
        /\ OneOpenRequest'
    BY <2>1, ReplacedRequests DEF Open
  <2>4. r \in Request /\ r.born \in Nat /\ r.born # None
    BY <1>2, ApprovalAssumption DEF Request
  <2>5. /\ calls' \in [Calls -> Call]
        /\ \A d \in Calls \ {c} : calls'[d] = calls[d]
        /\ calls'[c].permit = r.born
        /\ Unanswered'
    BY <2>1, <2>2, <2>4, AnswerEffect
  <2>6. \A q \in requests' : q.born <= born /\ (Open(q) => q \in requests /\ q # r)
    BY <1>2, <2>1, <2>3 DEF ApprovalInv, Numbered, Open, Request
  <2>7. Unspent'
    BY <1>1, <2>1, <2>5, <2>6 DEF Unspent, Open, ApprovalInv, Numbered
  <2>8. OwnPermit'
    <3>1. <<r.born, InputOf[c]>> \in granted /\ \A d \in Calls : calls[d].permit # r.born
      BY <2>1 DEF ApprovalInv, Unspent, Open
    <3> QED BY <1>1, <2>4, <2>5, <3>1 DEF OwnPermit, ApprovalInv
  <2>9. ApprovalTypeOK' /\ Numbered'
    BY <1>1, <1>2, <2>2, <2>3, <2>5, <2>6 DEF ApprovalInv, ApprovalTypeOK, Numbered
  <2> QED BY <2>3, <2>5, <2>7, <2>8, <2>9 DEF ApprovalInv
<1>6. CASE Ask(c)
  <2>1. Asked(c) /\ Answer(c, "deny", None)
    BY <1>6 DEF Ask
  <2>2. /\ calls' \in [Calls -> Call]
        /\ \A d \in Calls : calls'[d].permit = calls[d].permit
        /\ OwnPermit' /\ Unanswered'
    BY <2>1, <1>1, DenyEffect
  <2>3. CASE UNCHANGED <<requests, born>>
    <3>1. Unspent'
      BY <1>1, <2>3, <2>2 DEF Unspent, Open, ApprovalInv
    <3>2. ApprovalTypeOK' /\ Numbered' /\ OneOpenRequest'
      BY <1>1, <2>3, <2>2 DEF ApprovalInv, ApprovalTypeOK, Numbered, OneOpenRequest
    <3> QED BY <2>2, <3>1, <3>2 DEF ApprovalInv
  <2>4. CASE ~UNCHANGED <<requests, born>>
    <3> DEFINE s == [born |-> born + 1, input |-> InputOf[c],
                     sequence |-> NextSequence(InputOf[c]),
                     expiresAt |-> now + TTL, status |-> "pending"]
    <3>1. born' = born + 1 /\ requests' = Cut(requests \cup {s})
      BY <1>6, <2>4 DEF Ask
    <3>2. requests' \subseteq requests \cup {s} /\ born' = born + 1
      BY <3>1 DEF Cut
    <3>3. s.born = born + 1 /\ s.input = InputOf[c] /\ s.status = "pending"
      OBVIOUS
    <3>4. s \in Request
      <4>1. IsFiniteSet(Matching(InputOf[c]))
        BY FS_Subset DEF Matching, ApprovalInv, Numbered
      <4>2. NextSequence(InputOf[c]) \in Nat
        BY <4>1, FS_CardinalityType DEF NextSequence
      <4>3. InputOf[c] \in Inputs /\ born \in Nat /\ now + TTL \in Nat
        BY <1>2, ApprovalAssumption DEF ApprovalInv, ApprovalTypeOK
      <4> QED BY <4>2, <4>3 DEF Request
    <3>13. IsFiniteSet(requests')
      <4>1. IsFiniteSet(requests \cup {s})
        BY FS_AddElement DEF ApprovalInv, Numbered
      <4> HIDE DEF s
      <4> QED BY <3>2, <4>1, FS_Subset
    <3> HIDE DEF s
    <3>5. ApprovalTypeOK'
      BY <1>1, <1>2, <2>2, <3>2, <3>4 DEF ApprovalInv, ApprovalTypeOK
    <3>6. \A q \in requests : q.born \in Nat /\ q.born <= born
      BY <1>2 DEF ApprovalInv, Numbered, Request
    <3>7. \A g \in granted : g[1] \in Nat /\ g[1] <= born
      BY <1>2 DEF ApprovalInv, Numbered
    <3>8. Numbered'
      BY <1>1, <1>2, <3>2, <3>3, <3>6, <3>7, <3>13 DEF ApprovalInv, Numbered
    <3>9. ASSUME NEW q \in requests, q.input = InputOf[c], Open(q) PROVE FALSE
      <4>1. \A p \in Matching(InputOf[c]) : p.born <= q.born
        BY <1>2, <3>9 DEF Matching, ApprovalInv, OneOpenRequest, Open, Request
      <4>2. q \in LatestMatching(InputOf[c])
        BY <3>9, <4>1 DEF LatestMatching, Matching
      <4> QED BY <1>6, <3>9, <4>2 DEF Ask, MayAsk, Open
    <3>10. OneOpenRequest'
      BY <1>2, <3>2, <3>3, <3>6, <3>9 DEF ApprovalInv, OneOpenRequest, Open
    <3>11. \A d \in Calls : calls[d].permit # born + 1
      <4> SUFFICES ASSUME NEW d \in Calls, calls[d].permit = born + 1 PROVE FALSE
        OBVIOUS
      <4>1. calls[d].permit # None
        BY <1>2, ApprovalAssumption
      <4>2. <<calls[d].permit, InputOf[d]>> \in granted
        BY <4>1 DEF ApprovalInv, OwnPermit
      <4> QED BY <1>2, <3>7, <4>2
    <3>12. Unspent'
      BY <1>1, <2>2, <3>2, <3>3, <3>11 DEF ApprovalInv, Unspent, Open
    <3> QED BY <2>2, <3>5, <3>8, <3>10, <3>12 DEF ApprovalInv
  <2> QED BY <2>3, <2>4
<1> QED BY <1>3, <1>4, <1>5, <1>6 DEF Evaluate

\* The user's decision makes a pending request, which served no call, an
\* approved one and grants it, or rejects it.
LEMMA DecideKeepsInv ==
  ASSUME ApprovalInv, NEW r \in requests, NEW decision \in {"approved", "rejected"},
         Decide(r, decision)
  PROVE  ApprovalInv'
<1>1. /\ requests \subseteq Request /\ born \in Nat /\ granted \subseteq Nat \X Inputs
      /\ calls \in [Calls -> Call]
  BY DEF ApprovalInv, ApprovalTypeOK
<1>2. /\ r.status = "pending" /\ requests' = Replaced(r, decision)
      /\ granted' = IF decision = "approved" THEN granted \cup {<<r.born, r.input>>} ELSE granted
      /\ UNCHANGED <<born, calls, active, subscribed, now>>
  BY DEF Decide
<1>3. /\ requests' \subseteq Request
      /\ IsFiniteSet(requests')
      /\ \A q \in requests' :
            \/ q \in requests /\ q # r
            \/ q = [r EXCEPT !.status = decision]
      /\ \A p, q \in requests' : p.born = q.born => p = q
      /\ OneOpenRequest'
  BY <1>2, ReplacedRequests DEF Open
<1>4. /\ r \in Request /\ r.born \in Nat /\ r.input \in Inputs /\ r.born <= born
      /\ \A c \in Calls : calls[c].permit # r.born
  BY <1>1, <1>2 DEF Request, ApprovalInv, Numbered, Unspent, Open
<1>5. /\ granted \subseteq granted' /\ granted' \subseteq granted \cup {<<r.born, r.input>>}
      /\ decision = "approved" => <<r.born, r.input>> \in granted'
  BY <1>2
<1> DEFINE s == [r EXCEPT !.status = decision]
<1>6. s.born = r.born /\ s.input = r.input /\ s.status = decision
  BY <1>4 DEF Request
<1>7. \A q \in requests' : (q \in requests /\ q # r) \/ q = s
  BY <1>3
<1> HIDE DEF s
<1>8. ApprovalTypeOK'
  BY <1>1, <1>2, <1>3, <1>4, <1>5 DEF ApprovalInv, ApprovalTypeOK
<1>9. Numbered'
  BY <1>2, <1>3, <1>4, <1>5, <1>6, <1>7 DEF ApprovalInv, Numbered
<1>10. Unspent'
  BY <1>2, <1>4, <1>5, <1>6, <1>7 DEF ApprovalInv, Unspent, Open
<1>11. OwnPermit' /\ Unanswered'
  BY <1>2, <1>5 DEF ApprovalInv, OwnPermit, Unanswered, Waits
<1> QED BY <1>3, <1>8, <1>9, <1>10, <1>11 DEF ApprovalInv

\* So the invariant is inductive.
LEMMA ApprovalNextInv == ApprovalInv /\ [Next]_vars => ApprovalInv'
<1> SUFFICES ASSUME ApprovalInv, [Next]_vars PROVE ApprovalInv'
  OBVIOUS
<1>1. ASSUME NEW c \in Calls,
             UseTool(c) \/ GiveUp(c) \/ Deliver(c) \/ Lose(c) \/ Run(c)
      PROVE  ApprovalInv'
  BY <1>1, OneCallKeepsInv
<1>2. ASSUME NEW c \in Calls, Evaluate(c) PROVE ApprovalInv'
  BY <1>2, EvaluateKeepsInv
<1>3. ASSUME NEW r \in requests, NEW decision \in {"approved", "rejected"}, Decide(r, decision)
      PROVE  ApprovalInv'
  BY <1>3, DecideKeepsInv
<1>4. CASE Subscribe \/ Unsubscribe
  BY <1>4, SubscriptionKeepsInv
<1>5. CASE DispatchEnds \/ Tick \/ UNCHANGED vars
  <2>1. UNCHANGED <<requests, born, granted, calls>>
    BY <1>5 DEF DispatchEnds, Tick, vars
  <2>2. active' \in BOOLEAN /\ subscribed' \in BOOLEAN /\ now' \in Nat
    <3> active \in BOOLEAN /\ subscribed \in BOOLEAN /\ now \in Nat
      BY DEF ApprovalInv, ApprovalTypeOK
    <3>1. CASE DispatchEnds
      BY <3>1 DEF DispatchEnds
    <3>2. CASE Tick
      BY <3>2 DEF Tick
    <3>3. CASE UNCHANGED vars
      BY <3>3 DEF vars
    <3> QED BY <1>5, <3>1, <3>2, <3>3
  <2>3. ApprovalTypeOK'
    BY <2>1, <2>2 DEF ApprovalInv, ApprovalTypeOK
  <2>4. Numbered' /\ OneOpenRequest' /\ Unspent' /\ OwnPermit' /\ Unanswered'
    BY <2>1 DEF ApprovalInv, Numbered, OneOpenRequest, Unspent, Open, OwnPermit, Unanswered, Waits
  <2> QED BY <2>3, <2>4 DEF ApprovalInv
<1> QED BY <1>1, <1>2, <1>3, <1>4, <1>5 DEF Next

\* Every reachable state satisfies it.
LEMMA ApprovalInvHolds == Spec => []ApprovalInv
<1> QED BY ApprovalInitInv, ApprovalNextInv, PTL DEF Spec

-----------------------------------------------------------------------------
(* The runs, as the abstract specification sees them. *)

\* Whoever steps, a call that ran keeps its permit, one that was denied stays
\* denied, and one runs only by the step of the provider.
LEMMA RunsAreKept ==
  ASSUME ApprovalInv, Next
  PROVE  \A d \in Calls :
           /\ calls[d].hook = "denied" => calls'[d].hook = "denied"
           /\ calls[d].hook = "ran" =>
                calls'[d].hook = "ran" /\ calls'[d].permit = calls[d].permit
           /\ calls[d].hook # "ran" /\ calls'[d].hook = "ran" =>
                Run(d) /\ calls[d].hook = "allowed" /\ calls'[d].permit = calls[d].permit
<1> SUFFICES ASSUME NEW d \in Calls
             PROVE  /\ calls[d].hook = "denied" => calls'[d].hook = "denied"
                    /\ calls[d].hook = "ran" =>
                         calls'[d].hook = "ran" /\ calls'[d].permit = calls[d].permit
                    /\ calls[d].hook # "ran" /\ calls'[d].hook = "ran" =>
                         Run(d) /\ calls[d].hook = "allowed" /\ calls'[d].permit = calls[d].permit
  OBVIOUS
<1>1. /\ calls \in [Calls -> Call]
      /\ \A c \in Calls : calls[c] \in Call
  BY DEF ApprovalInv, ApprovalTypeOK
<1>2. ASSUME NEW c \in Calls,
             UseTool(c) \/ GiveUp(c) \/ Deliver(c) \/ Lose(c) \/ Run(c), c # d
      PROVE  calls'[d] = calls[d]
  BY <1>2, OneCallEffect
<1>3. CASE UseTool(d) \/ GiveUp(d) \/ Lose(d)
  <2>1. CASE UseTool(d)
    BY <1>1, <2>1 DEF UseTool, Call
  <2>2. CASE GiveUp(d)
    BY <1>1, <2>2 DEF GiveUp, Hook, Call
  <2>3. CASE Lose(d)
    BY <1>1, <2>3 DEF Lose, Call
  <2> QED BY <1>3, <2>1, <2>2, <2>3
<1>4. CASE Deliver(d)
  <2>1. \/ calls'[d].hook = calls[d].hook
        \/ calls[d].hook = "held" /\ calls'[d].hook \in {"allowed", "denied"}
    BY <1>1, <1>4 DEF Deliver, Obey, Call
  <2> QED BY <1>1, <1>4, <2>1, OneCallEffect
<1>5. CASE Run(d)
  BY <1>1, <1>5 DEF Run, Hook, Call
<1>6. ASSUME NEW c \in Calls, Evaluate(c)
      PROVE  \/ calls'[d] = calls[d]
             \/ /\ calls[d].permit = None
                /\ \/ calls'[d].hook = calls[d].hook
                   \/ calls[d].hook = "held" /\ calls'[d].hook \in {"allowed", "denied"}
  <2>1. PICK answer, permit : Answer(c, answer, permit)
    BY <1>6 DEF Evaluate, Block, Expire, Refuse, Consume, Ask
  <2>2. Asked(c)
    BY <1>6 DEF Evaluate, Block, Expire, Refuse, Consume, Ask
  <2>3. CASE c # d
    BY <1>1, <2>1, <2>3 DEF Answer
  <2>4. CASE c = d
    <3>1. calls[d].permit = None
      BY <2>2, <2>4 DEF ApprovalInv, Unanswered, Waits, Asked
    <3>2. \/ calls'[d].hook = calls[d].hook
          \/ calls[d].hook = "held" /\ calls'[d].hook \in {"allowed", "denied"}
      BY <1>1, <2>1, <2>2, <2>4 DEF Answer, Asked, Call
    <3> QED BY <3>1, <3>2
  <2> QED BY <2>3, <2>4
<1>7. ASSUME NEW c \in Calls, Evaluate(c)
      PROVE  /\ calls[d].hook = "denied" => calls'[d].hook = "denied"
             /\ calls[d].hook = "ran" => calls'[d] = calls[d]
             /\ calls[d].hook # "ran" => calls'[d].hook # "ran"
  BY <1>6, <1>7 DEF ApprovalInv, OwnPermit
<1>8. ASSUME Subscribe \/ Unsubscribe
      PROVE  \/ calls'[d] = calls[d]
             \/ calls[d].hook = "held" /\ calls'[d].hook = "denied"
  BY <1>1, <1>8 DEF Subscribe, Unsubscribe, FailPending, Call
<1>9. ASSUME DispatchEnds \/ Tick \/ \E r \in requests, decision \in {"approved", "rejected"} : Decide(r, decision)
      PROVE  calls' = calls
  BY <1>9 DEF DispatchEnds, Tick, Decide
<1> QED BY <1>2, <1>3, <1>4, <1>5, <1>7, <1>8, <1>9 DEF Next

\* Only the user's decision grants, and it grants one permission.
LEMMA GrantsAreDecisions ==
  ASSUME Next, granted' # granted
  PROVE  /\ calls' = calls
         /\ \E p \in granted' : granted' = granted \cup {p}
<1>1. PICK r \in requests, decision \in {"approved", "rejected"} : Decide(r, decision)
  BY DEF Next, UseTool, GiveUp, Evaluate, Deliver, Lose, Run, Subscribe, Unsubscribe,
     DispatchEnds, Tick
<1> QED BY <1>1 DEF Decide

\* A step of the model is a grant, a run or nothing in OneUsePermission.
LEMMA StepIsPermitted ==
  ASSUME ApprovalInv, [Next]_vars
  PROVE  [Promise!PermissionNext]_(Promise!permissionVars)
<1>1. CASE UNCHANGED vars
  BY <1>1 DEF vars, Promise!permissionVars, Based
<1>2. CASE Next /\ granted' # granted
  <2>1. Based' = Based
    BY <1>2, GrantsAreDecisions DEF Based
  <2>2. Promise!Grant
    BY <1>2, <2>1, GrantsAreDecisions DEF Promise!Grant
  <2> QED BY <2>2 DEF Promise!PermissionNext
<1>3. CASE Next /\ granted' = granted /\ \E d \in Calls : calls[d].hook # "ran" /\ calls'[d].hook = "ran"
  <2>1. PICK d \in Calls : calls[d].hook # "ran" /\ calls'[d].hook = "ran"
    BY <1>3
  <2>2. Run(d) /\ calls[d].hook = "allowed" /\ calls'[d].permit = calls[d].permit
    BY <1>3, <2>1, RunsAreKept
  <2>3. \A c \in Calls \ {d} : calls'[c] = calls[c]
    BY <2>2 DEF Run, Hook, ApprovalInv, ApprovalTypeOK
  <2> DEFINE p == <<calls[d].permit, InputOf[d]>>
  <2>4. p \in granted /\ \A c \in Calls \ {d} : calls[c].permit # calls[d].permit
    BY <2>2 DEF ApprovalInv, OwnPermit
  <2>5. Based' = Based \cup {<<d, p>>}
    BY <2>1, <2>2, <2>3 DEF Based
  <2>6. \A b \in Based : b[1] # d /\ b[2] # p
    BY <2>1, <2>4 DEF Based
  <2>7. Promise!Run(d, p)
    BY <1>3, <2>5, <2>6 DEF Promise!Run
  <2> QED BY <2>4, <2>7 DEF Promise!PermissionNext
<1>4. CASE Next /\ granted' = granted /\ \A d \in Calls : calls'[d].hook = "ran" => calls[d].hook = "ran"
  <2>1. \A d \in Calls :
          /\ calls'[d].hook = "ran" <=> calls[d].hook = "ran"
          /\ calls[d].hook = "ran" => calls'[d].permit = calls[d].permit
    BY <1>4, RunsAreKept
  <2>2. Based' = Based
    BY <2>1 DEF Based
  <2> QED BY <1>4, <2>2 DEF Promise!permissionVars
<1> QED BY <1>1, <1>2, <1>3, <1>4

-----------------------------------------------------------------------------
\* The inbox, the calls and the permissions keep their types.
THEOREM ApprovalTypeCorrect == Spec => []ApprovalTypeOK
<1>1. ApprovalInv => ApprovalTypeOK
  BY DEF ApprovalInv
<1> QED BY <1>1, ApprovalInvHolds, PTL

\* At most one request for an input is open, and it is the newest.
THEOREM OneRequestIsOpen == Spec => []OneOpenRequest
<1>1. ApprovalInv => OneOpenRequest
  BY DEF ApprovalInv
<1> QED BY <1>1, ApprovalInvHolds, PTL

\* What may run has a permission of its own.
THEOREM PermitsAreOwn == Spec => []OwnPermit
<1>1. ApprovalInv => OwnPermit
  BY DEF ApprovalInv
<1> QED BY <1>1, ApprovalInvHolds, PTL

\* A late answer never revives a call that was denied.
THEOREM DenialsAreFinal == Spec => DenialIsFinal
<1>1. ASSUME ApprovalInv, [Next]_vars
      PROVE  [\A c \in Calls : calls[c].hook = "denied" => calls'[c].hook = "denied"]_vars
  BY <1>1, RunsAreKept
<1> QED BY <1>1, ApprovalInvHolds, PTL DEF Spec, DenialIsFinal

\* Controller, inbox, broker and hook together implement one-use permissions.
THEOREM PermissionIsImplemented == Spec => ImplementsPermission
<1>1. Init => Promise!PermissionInit
  BY DEF Init, Promise!PermissionInit, Based
<1>2. ApprovalInv /\ [Next]_vars => [Promise!PermissionNext]_(Promise!permissionVars)
  BY StepIsPermitted
<1> QED BY <1>1, <1>2, ApprovalInvHolds, PTL DEF Spec, ImplementsPermission, Promise!PermissionSpec

-----------------------------------------------------------------------------
(* What one-use permissions promise, and that it holds of the calls. *)

\* Each run takes a permission nobody has, so no two runs ever share one.
LEMMA OneUseKept ==
  ASSUME Promise!OneUse, [Promise!PermissionNext]_(Promise!permissionVars)
  PROVE  Promise!OneUse'
<1>1. CASE UNCHANGED Promise!permissionVars
  BY <1>1 DEF Promise!permissionVars, Promise!OneUse
<1>2. CASE Promise!Grant
  BY <1>2 DEF Promise!Grant, Promise!OneUse
<1>3. CASE \E x \in Calls, p \in granted : Promise!Run(x, p)
  <2>1. PICK x \in Calls, p \in granted : Promise!Run(x, p)
    BY <1>3
  <2>2. /\ \A b \in Based : b[1] # x /\ b[2] # p
        /\ Based' = Based \cup {<<x, p>>}
        /\ granted' = granted
    BY <2>1 DEF Promise!Run
  <2> QED BY <2>2 DEF Promise!OneUse
<1> QED BY <1>1, <1>2, <1>3 DEF Promise!PermissionNext

\* The abstract specification keeps its promise; so does whatever implements it.
THEOREM PermissionsServeOnce == Promise!PermissionSpec => []Promise!OneUse
<1>1. Promise!PermissionInit => Promise!OneUse
  BY DEF Promise!PermissionInit, Promise!OneUse
<1>2. Promise!OneUse /\ [Promise!PermissionNext]_(Promise!permissionVars) => Promise!OneUse'
  BY OneUseKept
<1> QED BY <1>1, <1>2, PTL DEF Promise!PermissionSpec

\* The user has approved finitely often.
GrantsCountable == IsFiniteSet(granted)

\* A decision of the user grants one permission.
LEMMA GrantsAreFinite == Spec => []GrantsCountable
<1>1. Init => GrantsCountable
  BY FS_EmptySet DEF Init, GrantsCountable
<1>2. GrantsCountable /\ [Next]_vars => GrantsCountable'
  <2> SUFFICES ASSUME GrantsCountable, [Next]_vars PROVE GrantsCountable'
    OBVIOUS
  <2>1. CASE granted' = granted
    BY <2>1 DEF GrantsCountable
  <2>2. CASE granted' # granted
    <3>1. PICK p \in granted' : granted' = granted \cup {p}
      BY <2>2, GrantsAreDecisions DEF vars
    <3> QED BY <3>1, FS_AddElement DEF GrantsCountable
  <2> QED BY <2>1, <2>2
<1> QED BY <1>1, <1>2, PTL DEF Spec

\* Runs with permissions of their own are at most as many as the permissions.
LEMMA RunsAreCounted ==
  ASSUME Promise!OneUse, GrantsCountable
  PROVE  RunsWithinGrants
<1> SUFFICES ASSUME NEW input \in Inputs
             PROVE  Cardinality({c \in Calls : calls[c].hook = "ran" /\ InputOf[c] = input})
                      <= Cardinality({g \in granted : g[2] = input})
  BY DEF RunsWithinGrants
<1> DEFINE S == {c \in Calls : calls[c].hook = "ran" /\ InputOf[c] = input}
           T == {g \in granted : g[2] = input}
           permitOf == [c \in S |-> <<calls[c].permit, InputOf[c]>>]
<1>1. \A c \in S : <<c, <<calls[c].permit, InputOf[c]>>>> \in Based
  BY DEF Based
<1>2. \A c \in S : permitOf[c] \in T
  BY <1>1 DEF Promise!OneUse
<1>3. ASSUME NEW c \in S, NEW d \in S, permitOf[c] = permitOf[d] PROVE c = d
  <2> DEFINE b == <<c, <<calls[c].permit, InputOf[c]>>>>
             e == <<d, <<calls[d].permit, InputOf[d]>>>>
  <2>1. b \in Based /\ e \in Based /\ b[2] = e[2]
    BY <1>1, <1>3
  <2>2. b = e
    BY <2>1 DEF Promise!OneUse
  <2> QED BY <2>2
<1>4. permitOf \in Injection(S, T)
  BY <1>2, <1>3 DEF Injection, IsInjective
<1>5. IsFiniteSet(T)
  BY FS_Subset DEF GrantsCountable
<1> HIDE DEF S, T, permitOf
<1>6. Cardinality(S) <= Cardinality(T)
  BY <1>4, <1>5, FS_Injection
<1> QED BY <1>6 DEF S, T

\* Carried over by the refinement: of no input do more calls run than the user approved,
\* for any calls, retries, lost answers and inbox limit.
THEOREM NoRunBeyondGrants == Spec => []RunsWithinGrants
<1>1. Spec => Promise!PermissionSpec
  BY PermissionIsImplemented DEF ImplementsPermission
<1>2. Promise!OneUse /\ GrantsCountable => RunsWithinGrants
  BY RunsAreCounted
<1> QED BY <1>1, <1>2, PermissionsServeOnce, GrantsAreFinite, PTL

=============================================================================
