------------------------- MODULE DecisionInboxProofs -------------------------
(***************************************************************************)
(* Proofs about DecisionInbox, for any requests, limit, answers, mounts of  *)
(* the page and faults: its types, that a request is answered at most once   *)
(* and not offered again, that what is resolved was answered, and that the   *)
(* stored entries only move forward.                                        *)
(***************************************************************************)
EXTENDS DecisionInbox, FiniteSetTheorems, WellFoundedInduction, TLAPS

-----------------------------------------------------------------------------
(* The limit.  Whoever has as many newer requests as the snapshot holds has   *)
(* them after the cut, too, since those that are cut are the oldest.          *)

Newer(inbox, r) == {q \in Present(inbox) : CreatedAt[q] > CreatedAt[r]}

\* Every non-empty set of naturals has a least element.
LEMMA LeastNat ==
  ASSUME NEW T, T \subseteq Nat, T # {}
  PROVE  \E n \in T : \A m \in T : n <= m
<1>1. PICK R : R = {ss \in Nat \X Nat : ss[1] < ss[2]}
  OBVIOUS
<1>2. \A i, j \in Nat : <<i, j>> \in R <=> i < j
  BY <1>1
<1>3. IsWellFoundedOn(R, Nat)
  BY <1>1, NatLessThanWellFounded, Zenon DEF OpToRel
<1>4. PICK n \in T : \A m \in T : ~(<<m, n>> \in R)
  BY <1>3, WFMin
<1>5. ASSUME NEW m \in T, ~(n <= m) PROVE FALSE
  <2>1. m \in Nat /\ n \in Nat /\ m < n
    BY <1>5
  <2>2. <<m, n>> \in R
    BY <1>2, <2>1
  <2> QED BY <1>4, <2>2
<1> QED BY <1>5

\* The newer requests can be counted.
LEMMA NewerCount ==
  ASSUME NEW inbox, NEW r
  PROVE  /\ IsFiniteSet(Newer(inbox, r)) /\ Cardinality(Newer(inbox, r)) \in Nat
         /\ OutsideLimit(inbox, r) <=> Cardinality(Newer(inbox, r)) >= Limit
<1>1. IsFiniteSet(Requests) /\ Newer(inbox, r) \subseteq Requests
  BY InboxAssumption DEF Newer, Present
<1>2. IsFiniteSet(Newer(inbox, r))
  BY <1>1, FS_Subset
<1> QED BY <1>2, FS_CardinalityType DEF OutsideLimit, Newer

\* More requests do not bring one back inside the limit.
LEMMA MoreIsOutside ==
  ASSUME NEW inbox, NEW new, NEW r, NEW q,
         Newer(inbox, q) \subseteq Newer(new, r), OutsideLimit(inbox, q)
  PROVE  OutsideLimit(new, r)
<1>1. Cardinality(Newer(inbox, q)) <= Cardinality(Newer(new, r))
  BY NewerCount, FS_Subset
<1> QED BY <1>1, NewerCount, InboxAssumption

\* An older request has more newer ones than each of these.
LEMMA NewerIsFewer ==
  ASSUME NEW inbox, NEW r \in Requests, NEW q \in Newer(inbox, r)
  PROVE  Cardinality(Newer(inbox, q)) < Cardinality(Newer(inbox, r))
<1>1. q \in Requests /\ CreatedAt[q] > CreatedAt[r]
  BY DEF Newer, Present
<1>2. \A p \in Requests : CreatedAt[p] \in Nat
  BY InboxAssumption
<1>3. Newer(inbox, q) \subseteq Newer(inbox, r)
  BY <1>1, <1>2 DEF Newer, Present
<1>4. q \notin Newer(inbox, q)
  BY <1>1, <1>2 DEF Newer
<1> QED BY <1>3, <1>4, NewerCount, FS_Subset

\* The cut keeps an entry or drops it.
LEMMA CutKeeps ==
  ASSUME NEW inbox, NEW r \in Requests
  PROVE  Cut(inbox)[r] = IF OutsideLimit(inbox, r) THEN Absent ELSE inbox[r]
<1> QED BY DEF Cut, OutsideLimit

\* What the cut drops is outside the limit of what remains.
LEMMA CutIsOutside ==
  ASSUME NEW inbox, NEW r \in Requests, OutsideLimit(inbox, r)
  PROVE  OutsideLimit(Cut(inbox), r)
<1> DEFINE Older == {q \in Requests : OutsideLimit(inbox, q) /\ CreatedAt[q] >= CreatedAt[r]}
           Counts == {Cardinality(Newer(inbox, q)) : q \in Older}
<1>1. \A p \in Requests : CreatedAt[p] \in Nat
  BY InboxAssumption
<1>2. r \in Older
  BY <1>1
<1>3. Counts \subseteq Nat /\ Counts # {}
  BY <1>2, NewerCount
<1>4. PICK n \in Counts : \A m \in Counts : n <= m
  <2> HIDE DEF Counts
  <2> QED BY <1>3, LeastNat
<1>5. PICK q \in Older : \A p \in Older : Cardinality(Newer(inbox, q)) <= Cardinality(Newer(inbox, p))
  BY <1>4
<1>6. ASSUME NEW p \in Newer(inbox, q) PROVE p \in Newer(Cut(inbox), r)
  <2>1. p \in Requests /\ CreatedAt[p] > CreatedAt[r] /\ inbox[p].status # "absent"
    BY <1>1, <1>6 DEF Newer, Present
  <2>2. ~(Cardinality(Newer(inbox, q)) <= Cardinality(Newer(inbox, p)))
    BY <1>6, NewerIsFewer, NewerCount
  <2>3. ~OutsideLimit(inbox, p)
    BY <1>1, <1>5, <2>1, <2>2
  <2> QED BY <2>1, <2>3, CutKeeps DEF Newer, Present
<1>7. OutsideLimit(inbox, q)
  OBVIOUS
<1> QED BY <1>6, <1>7, MoreIsOutside

\* What it keeps is within.
LEMMA CutIsWithin ==
  ASSUME NEW inbox, NEW r \in Present(Cut(inbox))
  PROVE  ~OutsideLimit(Cut(inbox), r)
<1>1. r \in Requests /\ ~OutsideLimit(inbox, r)
  BY CutKeeps DEF Present, Absent
<1>2. Newer(Cut(inbox), r) \subseteq Newer(inbox, r)
  BY CutKeeps DEF Newer, Present, Absent
<1> QED BY <1>1, <1>2, MoreIsOutside

-----------------------------------------------------------------------------
(* What a writer may do to the stored entries.                               *)

Handled == {"resolving", "resolved", "uncertain"}

\* An answer to the request is on record, or the limit has dropped it.
OnRecord(inbox, r) == inbox[r].status \in Handled \/ OutsideLimit(inbox, r)

\* Only approvals of side effects expire or are consumed.
OwnStatuses(inbox) == \A r \in Discovered : inbox[r].status \in Handled \cup {"absent", "pending"}

Within(inbox) == \A r \in Present(inbox) : ~OutsideLimit(inbox, r)

\* A writer's changes to the entries, before the cut.
Changes(before, new) ==
  /\ new \in [Requests -> Entry]
  /\ OwnStatuses(new)
  /\ \A r \in Requests :
       \/ Forward(before[r], new[r])
       \/ r \in Gates /\ before[r].status = "resolved" /\ new[r].status = "resolved"

\* The same, written to the file.
Advances(before, new) ==
  /\ new \in [Requests -> Entry]
  /\ OwnStatuses(new)
  /\ Within(new)
  /\ \A r \in Discovered : OnRecord(before, r) => OnRecord(new, r)
  /\ \A r \in Requests :
       \/ Forward(before[r], new[r])
       \/ r \in Gates /\ before[r].status = "resolved" /\ new[r].status = "resolved"
       \/ new[r] = Absent /\ OutsideLimit(new, r)

\* Changes keep requests present, and answers on record.
LEMMA ChangesKeep ==
  ASSUME NEW before \in [Requests -> Entry], NEW new, Changes(before, new)
  PROVE  /\ Present(before) \subseteq Present(new)
         /\ \A r \in Discovered : OnRecord(before, r) => OnRecord(new, r)
<1>1. ASSUME NEW r \in Requests, before[r].status # "absent" PROVE new[r].status # "absent"
  <2>1. before[r] # Absent
    BY <1>1 DEF Absent
  <2> QED BY <1>1, <2>1 DEF Changes, Forward, Pending
<1>2. Present(before) \subseteq Present(new)
  BY <1>1 DEF Present
<1>3. ASSUME NEW r \in Discovered, before[r].status \in Handled PROVE new[r].status \in Handled
  <2>1. r \in Requests /\ before[r] # Absent /\ before[r] # Pending
    BY <1>3 DEF Absent, Pending, Handled, Requests
  <2>2. new[r].status \in Handled \cup {"absent", "pending"}
    BY DEF Changes, OwnStatuses
  <2> QED BY <1>3, <2>1, <2>2 DEF Changes, Forward, Handled
<1>4. ASSUME NEW r \in Discovered, OutsideLimit(before, r) PROVE OutsideLimit(new, r)
  BY <1>2, <1>4, MoreIsOutside DEF Newer
<1> QED BY <1>2, <1>3, <1>4 DEF OnRecord

\* Changes that are cut advance the file, and so do those that add nothing.
LEMMA CutAdvances ==
  ASSUME NEW before \in [Requests -> Entry], NEW new, Changes(before, new)
  PROVE  Advances(before, Cut(new))
<1>1. \A r \in Requests :
        /\ Cut(new)[r] \in {new[r], Absent}
        /\ Cut(new)[r] = new[r] \/ (Cut(new)[r] = Absent /\ OutsideLimit(Cut(new), r))
  BY CutKeeps, CutIsOutside
<1>2. Cut(new) \in [Requests -> Entry]
  <2>1. Absent \in Entry
    BY DEF Absent, Entry
  <2>2. Cut(new) = [r \in Requests |-> Cut(new)[r]]
    BY DEF Cut
  <2> QED BY <1>1, <2>1, <2>2 DEF Changes
<1>3. OwnStatuses(Cut(new))
  BY <1>1 DEF Changes, OwnStatuses, Absent, Requests
<1>4. Within(Cut(new))
  BY CutIsWithin DEF Within
<1>5. \A r \in Discovered : OnRecord(before, r) => OnRecord(Cut(new), r)
  <2>1. \A r \in Discovered : OnRecord(new, r) => OnRecord(Cut(new), r)
    BY <1>1, CutIsOutside DEF OnRecord, Requests
  <2> QED BY <2>1, ChangesKeep
<1>6. \A r \in Requests :
        \/ Forward(before[r], Cut(new)[r])
        \/ r \in Gates /\ before[r].status = "resolved" /\ Cut(new)[r].status = "resolved"
        \/ Cut(new)[r] = Absent /\ OutsideLimit(Cut(new), r)
  BY <1>1 DEF Changes
<1> QED BY <1>2, <1>3, <1>4, <1>5, <1>6 DEF Advances

\* Changes that add no request advance the file without a cut.
LEMMA PlainAdvances ==
  ASSUME NEW before \in [Requests -> Entry], NEW new, Changes(before, new),
         Within(before), Present(new) = Present(before)
  PROVE  Advances(before, new)
<1>1. Within(new)
  BY MoreIsOutside DEF Within, Newer
<1> QED BY <1>1, ChangesKeep DEF Changes, Advances

-----------------------------------------------------------------------------
(* The inductive invariant.                                                  *)

Reply(status, a) == [status |-> status, answer |-> a]

\* Answers in the runtime are answers.
AnswersHeld(src) == \A r \in Discovered : src[r].status = "answered" => src[r].answer \in Answers

\* What was read of the runtime, compared with what it holds.
RowsSeen(rows, src) ==
  \A r \in Discovered : rows[r].status = "answered" =>
    rows[r].answer \in Answers /\ src[r].status = "answered"

\* The runtime accepted the answer.
Accepted(src, r, a) == src[r].status = "answered" /\ (r \in Questions => src[r].answer = a)

MergeReady(k, inbox, src) ==
  k.fresh => \E rows \in [Discovered -> Row] : RowsSeen(rows, src) /\ k.next = Merge(rows, inbox)

\* What a promise that sends an answer has, and what the file has if nobody else
\* wrote it in between.
PrepareReady(k, inbox) ==
  /\ k.next[k.request] = Reply("resolving", k.answer)
  /\ k.fresh => inbox[k.request] = Pending /\ k.next = Begun(inbox, k.request, k.answer)

CallReady(k, inbox, sent) ==
  /\ k.next[k.request] = Reply("resolving", k.answer)
  /\ OnRecord(inbox, k.request)
  /\ sent[k.request] = 0
  /\ k.fresh => k.next = inbox

CompleteReady(k, inbox, src) ==
  /\ k.next[k.request] = Reply("resolved", k.answer)
  /\ Accepted(src, k.request, k.answer)
  /\ k.fresh => inbox[k.request] = Reply("resolving", k.answer)
                /\ k.next = Completed(inbox, k.request)

SettleReady(k, inbox) ==
  /\ k.next[k.request] = Reply("uncertain", k.answer)
  /\ k.fresh => inbox[k.request] = Reply("resolving", k.answer)
                /\ k.next = Uncertain(inbox, k.request)

\* A promise of the page, given the file, the runtime and the answers sent.
HookOK(k, inbox, src, sent) ==
  /\ RowsSeen(k.rows, src)
  /\ k.pc \in InFlight => k.request \in Discovered /\ k.answer \in Answers
  /\ k.pc = "merge" => MergeReady(k, inbox, src)
  /\ k.pc = "prepare" => PrepareReady(k, inbox)
  /\ k.pc = "call" => CallReady(k, inbox, sent)
  /\ k.pc = "complete" => CompleteReady(k, inbox, src)
  /\ k.pc = "settle" => SettleReady(k, inbox)

\* Two promises never send an answer to the same request.
CallersDiffer(h, k, promises) ==
  promises[h].pc = "call" /\ promises[k].pc = "call" /\ promises[h].request = promises[k].request => h = k

ViewOK(v, inbox) == v.fresh => v.requests = inbox

SentOnce(inbox, sent) == \A r \in Discovered : sent[r] <= 1 /\ (sent[r] > 0 => OnRecord(inbox, r))

ResolvedOK(inbox, src) ==
  \A r \in Discovered : inbox[r].status = "resolved" => Accepted(src, r, inbox[r].answer)

InboxInv ==
  /\ DecisionInboxTypeOK
  /\ OwnStatuses(stored) /\ Within(stored)
  /\ AnswersHeld(source)
  /\ ViewOK(view, stored)
  /\ \A h \in Hooks : HookOK(hooks[h], stored, source, emitted)
  /\ \A h, k \in Hooks : CallersDiffer(h, k, hooks)
  /\ SentOnce(stored, emitted)
  /\ ResolvedOK(stored, source)

-----------------------------------------------------------------------------
(* What each writer changes.                                                 *)

\* The store after a load.
LEMMA LoadedChanges ==
  ASSUME NEW s, stored \in [Requests -> Entry], OwnStatuses(stored)
  PROVE  /\ Changes(stored, Loaded(s)) /\ Present(Loaded(s)) = Present(stored)
         /\ \A r \in Requests : Loaded(s)[r].status = "resolved" => Loaded(s)[r] = stored[r]
<1>1. CASE s \in recovered
  BY <1>1 DEF Loaded, Changes, Forward
<1>2. CASE s \notin recovered
  <2>1. Loaded(s) = [r \in Requests |->
          IF stored[r].status = "resolving" THEN [stored[r] EXCEPT !.status = "uncertain"] ELSE stored[r]]
    BY <1>2 DEF Loaded, Recover
  <2>2. ASSUME NEW r \in Requests
        PROVE  /\ Loaded(s)[r] \in Entry
               /\ Forward(stored[r], Loaded(s)[r])
               /\ Loaded(s)[r].status = stored[r].status
                  \/ (stored[r].status = "resolving" /\ Loaded(s)[r].status = "uncertain")
               /\ Loaded(s)[r].status = "resolved" => Loaded(s)[r] = stored[r]
    <3>1. stored[r] \in Entry
      OBVIOUS
    <3>2. CASE stored[r].status = "resolving"
      <4>1. Loaded(s)[r] = [stored[r] EXCEPT !.status = "uncertain"]
        BY <2>1, <3>2
      <4> QED BY <3>1, <3>2, <4>1 DEF Entry, Forward
    <3>3. CASE stored[r].status # "resolving"
      <4>1. Loaded(s)[r] = stored[r]
        BY <2>1, <3>3
      <4> QED BY <3>1, <4>1 DEF Forward
    <3> QED BY <3>2, <3>3
  <2>3. Loaded(s) \in [Requests -> Entry]
    BY <2>1, <2>2
  <2>4. OwnStatuses(Loaded(s))
    BY <2>2 DEF OwnStatuses, Handled, Requests
  <2>5. Present(Loaded(s)) = Present(stored)
    BY <2>2 DEF Present
  <2> QED BY <2>2, <2>3, <2>4, <2>5 DEF Changes
<1> QED BY <1>1, <1>2

\* The merge before its cut.
Merged(rows, inbox) ==
  [r \in Requests |->
     IF r \in Mergeable(rows, inbox) /\ (inbox[r].status = "absent" \/ Observed(rows, r) # Pending)
     THEN Observed(rows, r)
     ELSE inbox[r]]

\* A merge adds requests, and the answers that gates hold.
LEMMA MergedChanges ==
  ASSUME NEW rows \in [Discovered -> Row], NEW inbox \in [Requests -> Entry],
         OwnStatuses(inbox), RowsSeen(rows, source)
  PROVE  /\ Merge(rows, inbox) = Cut(Merged(rows, inbox))
         /\ Changes(inbox, Merged(rows, inbox))
         /\ \A r \in Requests : Merged(rows, inbox)[r].status = "resolved" =>
              \/ Merged(rows, inbox)[r] = inbox[r]
              \/ r \in Gates /\ source[r].status = "answered"
<1>1. ASSUME NEW r \in Requests
      PROVE  /\ Merged(rows, inbox)[r] \in Entry
             /\ \/ Forward(inbox[r], Merged(rows, inbox)[r])
                \/ r \in Gates /\ inbox[r].status = "resolved" /\ Merged(rows, inbox)[r].status = "resolved"
             /\ r \in Discovered => Merged(rows, inbox)[r].status \in Handled \cup {"absent", "pending"}
             /\ Merged(rows, inbox)[r].status = "resolved" =>
                  \/ Merged(rows, inbox)[r] = inbox[r]
                  \/ r \in Gates /\ source[r].status = "answered"
  <2>1. CASE /\ r \in Mergeable(rows, inbox)
             /\ inbox[r].status = "absent" \/ Observed(rows, r) # Pending
    <3>1. r \in Discovered /\ inbox[r].status \notin {"resolving", "uncertain"}
      BY <2>1 DEF Mergeable
    <3>2. Merged(rows, inbox)[r] = Observed(rows, r)
      BY <2>1 DEF Merged
    <3>3. CASE r \in Gates /\ rows[r].status = "answered"
      <4>1. Merged(rows, inbox)[r] = Reply("resolved", rows[r].answer) /\ rows[r].answer \in Answers
        BY <3>1, <3>2, <3>3 DEF Observed, RowsSeen, Reply
      <4>2. Merged(rows, inbox)[r] \in Entry /\ Merged(rows, inbox)[r].status = "resolved"
        BY <4>1 DEF Entry, Reply
      <4>3. inbox[r] \in Entry /\ inbox[r].status \in {"absent", "pending", "resolved"}
        BY <3>1 DEF OwnStatuses, Handled
      <4>4. inbox[r].status = "resolved" \/ inbox[r] = Absent \/ inbox[r] = Pending
        BY <4>3 DEF Entry, Absent, Pending
      <4> QED BY <3>1, <3>3, <4>2, <4>4 DEF Forward, Handled, RowsSeen
    <3>4. CASE ~(r \in Gates /\ rows[r].status = "answered")
      <4>1. Observed(rows, r) = Pending
        BY <3>4 DEF Observed
      <4>2. inbox[r] = Absent
        BY <2>1, <4>1 DEF Entry, Absent
      <4> QED BY <3>2, <4>1, <4>2 DEF Forward, Pending, Entry
    <3> QED BY <3>3, <3>4
  <2>2. CASE ~(/\ r \in Mergeable(rows, inbox)
               /\ inbox[r].status = "absent" \/ Observed(rows, r) # Pending)
    <3>1. Merged(rows, inbox)[r] = inbox[r]
      BY <2>2 DEF Merged
    <3> QED BY <3>1 DEF Forward, OwnStatuses
  <2> QED BY <2>1, <2>2
<1>2. Merged(rows, inbox) \in [Requests -> Entry]
  BY <1>1 DEF Merged
<1>3. OwnStatuses(Merged(rows, inbox))
  BY <1>1 DEF OwnStatuses, Requests
<1>4. Merge(rows, inbox) = Cut(Merged(rows, inbox))
  BY DEF Merge, Merged
<1> QED BY <1>1, <1>2, <1>3, <1>4 DEF Changes

\* A promise rewrites the entry of its request: it begins with a pending one, and
\* its outcome keeps the answer.
Rewrites(inbox, new, r, status, a) ==
  /\ r \in Discovered /\ a \in Answers /\ status \in Handled
  /\ \/ inbox[r] = Pending /\ status = "resolving"
     \/ inbox[r] = Reply("resolving", a) /\ status # "resolving"
  /\ new = [inbox EXCEPT ![r] = Reply(status, a)]

\* That adds no request.
LEMMA RewriteChanges ==
  ASSUME NEW inbox \in [Requests -> Entry], OwnStatuses(inbox), NEW new, NEW r, NEW status, NEW a,
         Rewrites(inbox, new, r, status, a)
  PROVE  Changes(inbox, new) /\ Present(new) = Present(inbox)
<1>1. r \in Requests /\ Reply(status, a) \in Entry
  BY DEF Rewrites, Requests, Reply, Handled, Entry
<1>2. \A q \in Requests : new[q] = IF q = r THEN Reply(status, a) ELSE inbox[q]
  BY DEF Rewrites
<1>3. Forward(inbox[r], Reply(status, a))
  BY DEF Rewrites, Forward, Reply, Pending, Handled
<1>4. new \in [Requests -> Entry]
  BY <1>1 DEF Rewrites
<1>5. OwnStatuses(new)
  BY <1>2 DEF Rewrites, OwnStatuses, Reply, Requests
<1>6. Changes(inbox, new)
  BY <1>2, <1>3, <1>4, <1>5 DEF Changes, Forward
<1>7. Present(new) = Present(inbox)
  BY <1>1, <1>2 DEF Rewrites, Present, Reply, Handled, Pending
<1> QED BY <1>6, <1>7

\* An operation on an approval changes that entry only.
LEMMA ApprovalChanges ==
  ASSUME stored \in [Requests -> Entry], OwnStatuses(stored), NEW s \in SideEffects, NEW after \in Entry,
         SideEffectStep(Loaded("controller")[s], after)
  PROVE  LET new == [Loaded("controller") EXCEPT ![s] = after]
         IN  /\ Changes(stored, new)
             /\ \A r \in Discovered : new[r] = Loaded("controller")[r]
<1> DEFINE L == Loaded("controller")
           new == [L EXCEPT ![s] = after]
<1>1. s \in Requests /\ s \notin Discovered
  BY InboxAssumption DEF Requests
<1>2. Changes(stored, L)
  BY LoadedChanges
<1>3. new \in [Requests -> Entry] /\ \A q \in Requests : new[q] = IF q = s THEN after ELSE L[q]
  BY <1>2 DEF Changes
<1>4. stored[s] = L[s]
  <2>1. L[s].status \notin {"uncertain", "resolving"}
    BY DEF SideEffectStep, Absent, Pending
  <2>2. L[s] = stored[s] \/ L[s] = [stored[s] EXCEPT !.status = "uncertain"]
    BY <1>1 DEF Loaded, Recover
  <2>3. stored[s] \in Entry
    BY <1>1
  <2> QED BY <2>1, <2>2, <2>3 DEF Entry
<1>5. Forward(L[s], after)
  BY DEF SideEffectStep, Forward, Pending, Absent
<1>6. OwnStatuses(new)
  BY <1>1, <1>2, <1>3 DEF Changes, OwnStatuses, Requests
<1>7. Changes(stored, new)
  BY <1>1, <1>2, <1>3, <1>4, <1>5, <1>6 DEF Changes
<1> QED BY <1>1, <1>3, <1>7 DEF Requests

-----------------------------------------------------------------------------
(* What a writer puts in the file.                                           *)

\* A file nobody writes.
LEMMA StoredStays ==
  ASSUME InboxInv
  PROVE  Advances(stored, stored) /\ ResolvedOK(stored, source)
<1> QED BY DEF InboxInv, DecisionInboxTypeOK, Advances, Forward

\* The cut drops entries only.
LEMMA CutResolved ==
  ASSUME NEW inbox, NEW src, ResolvedOK(inbox, src)
  PROVE  ResolvedOK(Cut(inbox), src)
<1>1. \A r \in Discovered : r \in Requests /\ Cut(inbox)[r] \in {inbox[r], Absent}
  BY CutKeeps DEF Requests
<1> QED BY <1>1 DEF ResolvedOK, Absent

\* What a load leaves.
LEMMA LoadAdvances ==
  ASSUME InboxInv, NEW s
  PROVE  Advances(stored, Loaded(s)) /\ ResolvedOK(Loaded(s), source)
<1>1. stored \in [Requests -> Entry] /\ OwnStatuses(stored) /\ Within(stored) /\ ResolvedOK(stored, source)
  BY DEF InboxInv, DecisionInboxTypeOK
<1>2. /\ Changes(stored, Loaded(s)) /\ Present(Loaded(s)) = Present(stored)
      /\ \A r \in Requests : Loaded(s)[r].status = "resolved" => Loaded(s)[r] = stored[r]
  BY <1>1, LoadedChanges
<1>3. Advances(stored, Loaded(s))
  BY <1>1, <1>2, PlainAdvances
<1>4. ResolvedOK(Loaded(s), source)
  BY <1>1, <1>2 DEF ResolvedOK, Requests
<1> QED BY <1>3, <1>4

\* What an operation on an approval leaves.
LEMMA MutateAdvances ==
  ASSUME InboxInv, NEW s \in SideEffects, NEW after \in Entry, Mutate(s, after)
  PROVE  Advances(stored, stored') /\ ResolvedOK(stored', source)
<1> DEFINE new == [Loaded("controller") EXCEPT ![s] = after]
<1>1. stored \in [Requests -> Entry] /\ OwnStatuses(stored)
  BY DEF InboxInv, DecisionInboxTypeOK
<1>2. SideEffectStep(Loaded("controller")[s], after) /\ stored' = Cut(new)
  BY DEF Mutate
<1>3. Changes(stored, new) /\ \A r \in Discovered : new[r] = Loaded("controller")[r]
  BY <1>1, <1>2, ApprovalChanges
<1>4. ResolvedOK(new, source)
  BY <1>3, LoadAdvances DEF ResolvedOK
<1> HIDE DEF new
<1> QED BY <1>1, <1>2, <1>3, <1>4, CutAdvances, CutResolved

\* What a promise leaves that rewrites the entry of its request.
LEMMA RewriteAdvances ==
  ASSUME InboxInv, NEW new, NEW r, NEW status, NEW a, Rewrites(stored, new, r, status, a),
         status = "resolved" => Accepted(source, r, a)
  PROVE  Advances(stored, new) /\ ResolvedOK(new, source)
<1>1. /\ stored \in [Requests -> Entry] /\ OwnStatuses(stored) /\ Within(stored)
      /\ ResolvedOK(stored, source)
  BY DEF InboxInv, DecisionInboxTypeOK
<1>2. Changes(stored, new) /\ Present(new) = Present(stored)
  BY <1>1, RewriteChanges
<1>3. \A q \in Discovered : new[q] = IF q = r THEN Reply(status, a) ELSE stored[q]
  BY <1>1 DEF Rewrites, Requests
<1>4. ResolvedOK(new, source)
  BY <1>1, <1>3 DEF ResolvedOK, Reply
<1> QED BY <1>1, <1>2, <1>4, PlainAdvances

\* What a promise saves, if nobody else has written since.
LEMMA SaveAdvances ==
  ASSUME InboxInv, NEW h \in Hooks, hooks[h].fresh,
         hooks[h].pc \in {"merge", "prepare", "complete", "settle"}
  PROVE  Advances(stored, hooks[h].next) /\ ResolvedOK(hooks[h].next, source)
<1> DEFINE k == hooks[h]
           r == k.request
           a == k.answer
<1>1. /\ stored \in [Requests -> Entry] /\ OwnStatuses(stored) /\ Within(stored)
      /\ ResolvedOK(stored, source) /\ HookOK(k, stored, source, emitted)
  BY DEF InboxInv, DecisionInboxTypeOK
<1>2. CASE k.pc = "merge"
  <2>1. PICK rows \in [Discovered -> Row] : RowsSeen(rows, source) /\ k.next = Merge(rows, stored)
    BY <1>1, <1>2 DEF HookOK, MergeReady
  <2>2. /\ k.next = Cut(Merged(rows, stored)) /\ Changes(stored, Merged(rows, stored))
        /\ \A q \in Requests : Merged(rows, stored)[q].status = "resolved" =>
             \/ Merged(rows, stored)[q] = stored[q]
             \/ q \in Gates /\ source[q].status = "answered"
    BY <1>1, <2>1, MergedChanges
  <2>3. ResolvedOK(Merged(rows, stored), source)
    BY <1>1, <2>2, InboxAssumption DEF ResolvedOK, Accepted, Requests
  <2> QED BY <1>1, <2>2, <2>3, CutAdvances, CutResolved
<1>3. CASE k.pc \in {"prepare", "complete", "settle"}
  <2>1. r \in Discovered /\ a \in Answers
    BY <1>1, <1>3 DEF HookOK, InFlight
  <2>2. CASE k.pc = "prepare"
    <3>1. stored[r] = Pending /\ k.next = [stored EXCEPT ![r] = Reply("resolving", a)]
      BY <1>1, <2>2 DEF HookOK, PrepareReady, Begun, Reply
    <3> QED BY <2>1, <3>1, RewriteAdvances DEF Rewrites, Handled
  <2>3. CASE k.pc = "complete"
    <3>1. stored[r] = Reply("resolving", a) /\ k.next = Completed(stored, r) /\ Accepted(source, r, a)
      BY <1>1, <2>3 DEF HookOK, CompleteReady
    <3>2. [stored[r] EXCEPT !.status = "resolved"] = Reply("resolved", a)
      BY <3>1 DEF Reply
    <3>3. k.next = [stored EXCEPT ![r] = Reply("resolved", a)]
      BY <3>1, <3>2 DEF Completed
    <3> QED BY <2>1, <3>1, <3>3, RewriteAdvances DEF Rewrites, Handled
  <2>4. CASE k.pc = "settle"
    <3>1. stored[r] = Reply("resolving", a) /\ k.next = Uncertain(stored, r)
      BY <1>1, <2>4 DEF HookOK, SettleReady
    <3>2. [stored[r] EXCEPT !.status = "uncertain"] = Reply("uncertain", a)
      BY <3>1 DEF Reply
    <3>3. k.next = [stored EXCEPT ![r] = Reply("uncertain", a)]
      BY <3>1, <3>2 DEF Uncertain
    <3> QED BY <2>1, <3>1, <3>3, RewriteAdvances DEF Rewrites, Handled
  <2> QED BY <1>3, <2>2, <2>3, <2>4
<1> QED BY <1>2, <1>3

-----------------------------------------------------------------------------
(* What a promise relies on while others act.                                *)

\* The runtime never takes an answer back, and a question keeps its answer.
SourceGrows(src, new) ==
  \A r \in Discovered : src[r].status = "answered" =>
    new[r].status = "answered" /\ (r \in Questions => new[r].answer = src[r].answer)

\* A promise that was settled.
LEMMA IdleOK ==
  ASSUME NEW inbox, NEW src, NEW sent
  PROVE  HookOK(Idle, inbox, src, sent)
<1> QED BY DEF HookOK, Idle, RowsSeen, NoRow, InFlight

\* A promise stays sound as others act, if it is stale once they write.
LEMMA HookStays ==
  ASSUME NEW k \in HookState, NEW k2, NEW inbox, NEW inbox2, NEW src, NEW src2, NEW sent, NEW sent2,
         HookOK(k, inbox, src, sent), SourceGrows(src, src2),
         \A r \in Discovered : OnRecord(inbox, r) => OnRecord(inbox2, r),
         (k2 = k /\ inbox2 = inbox) \/ k2 = [k EXCEPT !.fresh = FALSE],
         k.pc = "call" => sent2[k.request] = sent[k.request]
  PROVE  HookOK(k2, inbox2, src2, sent2)
<1>1. /\ k2.pc = k.pc /\ k2.request = k.request /\ k2.answer = k.answer
      /\ k2.rows = k.rows /\ k2.next = k.next
      /\ k2.fresh => k.fresh /\ inbox2 = inbox
  BY DEF HookState
<1>2. ASSUME NEW rows, RowsSeen(rows, src) PROVE RowsSeen(rows, src2)
  BY <1>2 DEF RowsSeen, SourceGrows
<1>3. ASSUME NEW r \in Discovered, NEW a, Accepted(src, r, a) PROVE Accepted(src2, r, a)
  BY <1>3 DEF Accepted, SourceGrows
<1>4. RowsSeen(k2.rows, src2)
  BY <1>1, <1>2 DEF HookOK
<1>5. k.pc \in InFlight => k.request \in Discovered /\ k.answer \in Answers
  BY DEF HookOK
<1>6. k2.pc = "merge" => MergeReady(k2, inbox2, src2)
  BY <1>1, <1>2 DEF HookOK, MergeReady
<1>7. k2.pc = "prepare" => PrepareReady(k2, inbox2)
  BY <1>1 DEF HookOK, PrepareReady
<1>8. k2.pc = "call" => CallReady(k2, inbox2, sent2)
  BY <1>1, <1>5 DEF HookOK, CallReady, InFlight
<1>9. k2.pc = "complete" => CompleteReady(k2, inbox2, src2)
  BY <1>1, <1>3, <1>5 DEF HookOK, CompleteReady, InFlight
<1>10. k2.pc = "settle" => SettleReady(k2, inbox2)
  BY <1>1 DEF HookOK, SettleReady
<1> QED BY <1>1, <1>4, <1>5, <1>6, <1>7, <1>8, <1>9, <1>10 DEF HookOK

\* A step that neither sends an answer nor is about to.
LEMMA Carry ==
  ASSUME InboxInv, DecisionInboxTypeOK', UNCHANGED emitted,
         SourceGrows(source, source'), AnswersHeld(source'),
         Advances(stored, stored'), ResolvedOK(stored', source'), ViewOK(view', stored'),
         \A h \in Hooks :
           \/ hooks'[h] = hooks[h] /\ stored' = stored
           \/ hooks'[h] = [hooks[h] EXCEPT !.fresh = FALSE]
           \/ HookOK(hooks'[h], stored', source', emitted) /\ hooks'[h].pc # "call"
  PROVE  InboxInv' /\ Advances(stored, stored')
<1>1. \A h \in Hooks : hooks[h] \in HookState
  BY DEF InboxInv, DecisionInboxTypeOK
<1>2. ASSUME NEW h \in Hooks PROVE HookOK(hooks'[h], stored', source', emitted')
  <2>1. HookOK(hooks[h], stored, source, emitted)
    BY DEF InboxInv
  <2>2. \A r \in Discovered : OnRecord(stored, r) => OnRecord(stored', r)
    BY DEF Advances
  <2> QED BY <1>1, <2>1, <2>2, HookStays
<1>3. ASSUME NEW h \in Hooks, hooks'[h].pc = "call"
      PROVE  hooks[h].pc = "call" /\ hooks'[h].request = hooks[h].request
  BY <1>1, <1>3 DEF HookState
<1>4. \A h, j \in Hooks : CallersDiffer(h, j, hooks')
  BY <1>3 DEF InboxInv, CallersDiffer
<1>5. SentOnce(stored', emitted')
  BY DEF InboxInv, SentOnce, Advances
<1>6. OwnStatuses(stored') /\ Within(stored')
  BY DEF Advances
<1> QED BY <1>2, <1>4, <1>5, <1>6 DEF InboxInv

-----------------------------------------------------------------------------
(* Every step keeps the invariant and advances the file.                     *)

\* It holds of an empty inbox.
LEMMA InboxInit == Init => InboxInv
<1> SUFFICES ASSUME Init PROVE InboxInv
  OBVIOUS
<1>1. Absent \in Entry /\ NoRow \in Row
  BY DEF Absent, Entry, NoRow, Row
<1>2. Idle \in HookState
  BY <1>1 DEF Idle, HookState, Row
<1>3. DecisionInboxTypeOK
  BY <1>1, <1>2, InboxAssumption DEF Init, DecisionInboxTypeOK
<1>4. OwnStatuses(stored) /\ Within(stored)
  BY DEF Init, OwnStatuses, Within, Present, Absent, Requests
<1>5. AnswersHeld(source) /\ ResolvedOK(stored, source)
  BY DEF Init, AnswersHeld, NoRow, ResolvedOK, Absent, Requests
<1>6. \A h \in Hooks : HookOK(hooks[h], stored, source, emitted)
  BY IdleOK DEF Init
<1>7. \A h, k \in Hooks : CallersDiffer(h, k, hooks)
  BY DEF Init, CallersDiffer, Idle
<1>8. SentOnce(stored, emitted) /\ ViewOK(view, stored)
  BY DEF Init, SentOnce, ViewOK
<1> QED BY <1>3, <1>4, <1>5, <1>6, <1>7, <1>8 DEF InboxInv

\* The types of what most steps write.
LEMMA WrittenTypes ==
  ASSUME InboxInv
  PROVE  /\ Idle \in HookState
         /\ StaleHooks \in [Hooks -> HookState]
         /\ \A h \in Hooks : hooks[h] \in HookState
         /\ \A load \in {"idle", "ready", "saving", "error"}, fresh \in BOOLEAN :
              \A inbox \in [Requests -> Entry] :
                [requests |-> inbox, fresh |-> fresh, load |-> load] \in
                  [requests : [Requests -> Entry], fresh : BOOLEAN,
                   load : {"idle", "ready", "saving", "error"}]
<1>1. Absent \in Entry /\ NoRow \in Row
  BY DEF Absent, Entry, NoRow, Row
<1>2. Idle \in HookState
  BY <1>1 DEF Idle, HookState, Row
<1>3. \A h \in Hooks : hooks[h] \in HookState
  BY DEF InboxInv, DecisionInboxTypeOK
<1>4. \A h \in Hooks : [hooks[h] EXCEPT !.fresh = FALSE] \in HookState
  BY <1>3 DEF HookState
<1>5. StaleHooks \in [Hooks -> HookState]
  BY <1>4 DEF StaleHooks
<1> QED BY <1>2, <1>3, <1>5

\* A fault is counted, below its bound.
LEMMA FaultType ==
  ASSUME InboxInv, NEW ok, Fault(ok)
  PROVE  faults' \in 0..MaxFaults
<1> QED BY InboxAssumption DEF InboxInv, DecisionInboxTypeOK, Fault

\* The runtime and the counts of answers stay.
LEMMA SourceStays ==
  ASSUME InboxInv
  PROVE  SourceGrows(source, source) /\ AnswersHeld(source)
<1> QED BY DEF InboxInv, SourceGrows

\* The page loads, reloads or begins to poll.
LEMMA ReadSteps ==
  ASSUME InboxInv, Load \/ \E h \in Hooks : Reload(h) \/ Refresh(h)
  PROVE  InboxInv' /\ Advances(stored, stored')
<1> DEFINE others == IF stored' = stored THEN hooks ELSE StaleHooks
<1>1. ReadStore /\ UNCHANGED <<mounted, source, emitted, faults>>
  BY DEF Load, Reload, Refresh
<1>2. \/ hooks' = others
      \/ \E h \in Hooks : hooks' = [others EXCEPT ![h].pc = "discover", ![h].rows = source]
  BY DEF Load, Reload, Refresh
<1>3. stored' = Loaded("renderer") /\ recovered' = recovered \cup {"renderer"}
      /\ view' = [requests |-> stored', fresh |-> TRUE, load |-> "ready"]
  BY <1>1 DEF ReadStore
<1>4. Advances(stored, stored') /\ ResolvedOK(stored', source)
  BY <1>3, LoadAdvances
<1>5. ViewOK(view', stored')
  BY <1>3 DEF ViewOK
<1>6. others \in [Hooks -> HookState]
  BY WrittenTypes DEF InboxInv, DecisionInboxTypeOK
<1>7. source \in [Discovered -> Row]
  BY DEF InboxInv, DecisionInboxTypeOK
<1>8. ASSUME NEW x \in Hooks
      PROVE  \/ hooks'[x] = others[x]
             \/ hooks'[x] = [others[x] EXCEPT !.pc = "discover", !.rows = source]
  <2> HIDE DEF others
  <2> QED BY <1>2, <1>6
<1>9. hooks' \in [Hooks -> HookState]
  <2>1. \A x \in Hooks : [others[x] EXCEPT !.pc = "discover", !.rows = source] \in HookState
    <3> HIDE DEF others
    <3> QED BY <1>6, <1>7 DEF HookState
  <2>2. \A x \in Hooks : hooks'[x] \in HookState
    <3> HIDE DEF others
    <3> QED BY <1>6, <1>8, <2>1
  <2>3. hooks' = [x \in Hooks |-> hooks'[x]]
    <3> HIDE DEF others
    <3> QED BY <1>2, <1>6
  <2> QED BY <2>2, <2>3
<1>10. DecisionInboxTypeOK'
  <2>1. view' \in [requests : [Requests -> Entry], fresh : BOOLEAN,
                   load : {"idle", "ready", "saving", "error"}]
    BY <1>3, <1>4, WrittenTypes DEF Advances
  <2> QED BY <1>1, <1>3, <1>4, <1>9, <2>1 DEF InboxInv, DecisionInboxTypeOK, Advances, Stores
<1>11. ASSUME NEW x \in Hooks
       PROVE  \/ hooks'[x] = hooks[x] /\ stored' = stored
              \/ hooks'[x] = [hooks[x] EXCEPT !.fresh = FALSE]
              \/ HookOK(hooks'[x], stored', source', emitted) /\ hooks'[x].pc # "call"
  <2>1. CASE hooks'[x] = others[x]
    BY <2>1 DEF StaleHooks
  <2>2. CASE hooks'[x] = [others[x] EXCEPT !.pc = "discover", !.rows = source]
    <3>1. hooks'[x].pc = "discover" /\ hooks'[x].rows = source
      <4> HIDE DEF others
      <4> QED BY <1>6, <2>2 DEF HookState
    <3>2. RowsSeen(source, source')
      BY <1>1 DEF InboxInv, AnswersHeld, RowsSeen
    <3> QED BY <3>1, <3>2 DEF HookOK, InFlight
  <2> QED BY <1>8, <2>1, <2>2
<1> QED BY <1>1, <1>4, <1>5, <1>10, <1>11, SourceStays, Carry

\* What was read of the runtime is merged into the page's copy.
LEMMA DiscoverSteps ==
  ASSUME InboxInv, NEW h \in Hooks, Discover(h) \/ DiscoverFails(h)
  PROVE  InboxInv' /\ Advances(stored, stored')
<1> DEFINE next == Merge(hooks[h].rows, view.requests)
           new == [Idle EXCEPT !.pc = "merge", !.fresh = view.fresh, !.next = next]
<1>1. UNCHANGED <<stored, recovered, mounted, source, emitted>> /\ faults' \in 0..MaxFaults
  BY FaultType DEF Discover, DiscoverFails, InboxInv, DecisionInboxTypeOK
<1>2. \/ hooks' = [hooks EXCEPT ![h] = Idle] /\ view' = view
      \/ hooks' = [hooks EXCEPT ![h] = new] /\ view' = [view EXCEPT !.load = "saving"]
  BY DEF Discover, DiscoverFails
<1>3. /\ hooks \in [Hooks -> HookState] /\ Idle \in HookState
      /\ view \in [requests : [Requests -> Entry], fresh : BOOLEAN,
                   load : {"idle", "ready", "saving", "error"}]
  BY WrittenTypes DEF InboxInv, DecisionInboxTypeOK
<1>4. Advances(stored, stored') /\ ResolvedOK(stored', source)
  BY <1>1, StoredStays
<1>5. /\ view' \in [requests : [Requests -> Entry], fresh : BOOLEAN,
                    load : {"idle", "ready", "saving", "error"}]
      /\ view'.requests = view.requests /\ view'.fresh = view.fresh
  BY <1>2, <1>3
<1>6. ViewOK(view', stored')
  BY <1>1, <1>5 DEF InboxInv, ViewOK
<1>7. next \in [Requests -> Entry]
  <2>1. hooks[h].rows \in [Discovered -> Row] /\ RowsSeen(hooks[h].rows, source)
    BY <1>3 DEF HookState, InboxInv, HookOK
  <2>2. \A r \in Mergeable(hooks[h].rows, view.requests) : Observed(hooks[h].rows, r) \in Entry
    BY <2>1 DEF Mergeable, Observed, RowsSeen, Pending, Entry
  <2>3. Merged(hooks[h].rows, view.requests) \in [Requests -> Entry]
    BY <1>3, <2>2 DEF Merged
  <2>4. \A r \in Requests : next[r] \in {Merged(hooks[h].rows, view.requests)[r], Absent}
    BY CutKeeps DEF Merge, Merged
  <2>5. next = [r \in Requests |-> next[r]] /\ Absent \in Entry
    BY DEF Merge, Cut, Absent, Entry
  <2> QED BY <2>3, <2>4, <2>5
<1>8. /\ new \in HookState /\ new.pc = "merge" /\ new.next = next /\ new.fresh = view.fresh
      /\ new.rows = Idle.rows
  <2> HIDE DEF next
  <2> QED BY <1>3, <1>7 DEF HookState
<1>9. HookOK(new, stored, source, emitted)
  <2>1. RowsSeen(Idle.rows, source)
    BY DEF RowsSeen, Idle, NoRow
  <2>2. hooks[h].rows \in [Discovered -> Row] /\ RowsSeen(hooks[h].rows, source)
    BY <1>3 DEF HookState, InboxInv, HookOK
  <2>3. view.fresh => next = Merge(hooks[h].rows, stored)
    BY DEF InboxInv, ViewOK
  <2>4. MergeReady(new, stored, source)
    <3> HIDE DEF new, next
    <3> QED BY <1>8, <2>2, <2>3 DEF MergeReady
  <2> HIDE DEF new
  <2> QED BY <1>8, <2>1, <2>4 DEF HookOK, InFlight
<1>10. DecisionInboxTypeOK'
  <2> HIDE DEF new
  <2>1. hooks' \in [Hooks -> HookState]
    BY <1>2, <1>3, <1>8
  <2> QED BY <1>1, <1>5, <2>1 DEF InboxInv, DecisionInboxTypeOK
<1>11. ASSUME NEW x \in Hooks
       PROVE  \/ hooks'[x] = hooks[x] /\ stored' = stored
              \/ hooks'[x] = [hooks[x] EXCEPT !.fresh = FALSE]
              \/ HookOK(hooks'[x], stored', source', emitted) /\ hooks'[x].pc # "call"
  <2>1. hooks'[x] \in {hooks[x], Idle, new}
    <3> HIDE DEF new
    <3> QED BY <1>2, <1>3
  <2>2. Idle.pc # "call" /\ HookOK(Idle, stored', source', emitted)
    BY IdleOK DEF Idle
  <2> HIDE DEF new
  <2> QED BY <1>1, <1>8, <1>9, <2>1, <2>2
<1> QED BY <1>1, <1>4, <1>6, <1>10, <1>11, SourceStays, Carry

\* A save that fits, or one that is refused.
LEMMA SaveFacts ==
  ASSUME InboxInv, NEW h \in Hooks, NEW ok \in BOOLEAN, Save(h, ok) \/ SaveRefused(h, ok),
         hooks[h].pc \in {"merge", "prepare", "complete", "settle"}
  PROVE  /\ Advances(stored, stored') /\ ResolvedOK(stored', source)
         /\ ViewOK(view', stored')
         /\ view' \in [requests : [Requests -> Entry], fresh : BOOLEAN,
                       load : {"idle", "ready", "saving", "error"}]
         /\ Others(h, ok) \in [Hooks -> HookState]
         /\ \A x \in Hooks : \/ Others(h, ok)[x] = hooks[x] /\ stored' = stored
                             \/ Others(h, ok)[x] = [hooks[x] EXCEPT !.fresh = FALSE]
<1>1. hooks[h].next \in [Requests -> Entry] /\ hooks \in [Hooks -> HookState]
  BY WrittenTypes DEF HookState, InboxInv, DecisionInboxTypeOK
<1>2. CASE Save(h, ok)
  <2>1. /\ hooks[h].fresh /\ stored' = hooks[h].next /\ Saves(h, ok)
        /\ view' = [requests |-> stored', fresh |-> TRUE, load |-> "ready"]
    BY <1>2 DEF Save, Saves
  <2>2. Others(h, ok) = StaleHooks
    BY <2>1 DEF Others
  <2>3. Advances(stored, stored') /\ ResolvedOK(stored', source)
    BY <2>1, SaveAdvances
  <2> QED BY <1>1, <2>1, <2>2, <2>3, WrittenTypes DEF ViewOK, StaleHooks
<1>3. CASE SaveRefused(h, ok)
  <2>1. stored' = stored /\ view' = [view EXCEPT !.load = "error"] /\ ~Saves(h, ok)
    BY <1>3 DEF SaveRefused
  <2>2. view \in [requests : [Requests -> Entry], fresh : BOOLEAN,
                  load : {"idle", "ready", "saving", "error"}] /\ ViewOK(view, stored)
    BY DEF InboxInv, DecisionInboxTypeOK
  <2>3. Others(h, ok) = hooks
    BY <2>1 DEF Others
  <2>4. Advances(stored, stored') /\ ResolvedOK(stored', source)
    BY <2>1, StoredStays
  <2> QED BY <1>1, <2>1, <2>2, <2>3, <2>4 DEF ViewOK
<1> QED BY <1>2, <1>3

\* A save that ends a promise, whatever comes of it.
LEMMA LastSave ==
  ASSUME InboxInv, NEW h \in Hooks, NEW ok \in BOOLEAN,
         hooks[h].pc \in {"merge", "complete", "settle"},
         Save(h, ok) \/ SaveRefused(h, ok),
         hooks' = [Others(h, ok) EXCEPT ![h] = Idle],
         Fault(ok), UNCHANGED <<recovered, mounted, source, emitted>>
  PROVE  InboxInv' /\ Advances(stored, stored')
<1>1. /\ Advances(stored, stored') /\ ResolvedOK(stored', source) /\ ViewOK(view', stored')
      /\ view' \in [requests : [Requests -> Entry], fresh : BOOLEAN,
                    load : {"idle", "ready", "saving", "error"}]
      /\ Others(h, ok) \in [Hooks -> HookState]
      /\ \A x \in Hooks : \/ Others(h, ok)[x] = hooks[x] /\ stored' = stored
                          \/ Others(h, ok)[x] = [hooks[x] EXCEPT !.fresh = FALSE]
  BY SaveFacts
<1>2. hooks' \in [Hooks -> HookState] /\ faults' \in 0..MaxFaults
  BY <1>1, WrittenTypes, FaultType
<1>3. DecisionInboxTypeOK'
  BY <1>1, <1>2 DEF InboxInv, DecisionInboxTypeOK, Advances
<1>4. Idle.pc # "call" /\ HookOK(Idle, stored', source', emitted)
  BY IdleOK DEF Idle
<1>5. \A x \in Hooks :
        \/ hooks'[x] = hooks[x] /\ stored' = stored
        \/ hooks'[x] = [hooks[x] EXCEPT !.fresh = FALSE]
        \/ HookOK(hooks'[x], stored', source', emitted) /\ hooks'[x].pc # "call"
  BY <1>1, <1>4
<1> QED BY <1>1, <1>3, <1>5, SourceStays, Carry

\* What was merged is saved.
LEMMA MergedSave ==
  ASSUME InboxInv, NEW h \in Hooks, NEW ok \in BOOLEAN, SaveMerged(h, ok)
  PROVE  InboxInv' /\ Advances(stored, stored')
<1> QED BY LastSave DEF SaveMerged

\* An answer is on record as uncertain, or the attempt was in vain.
LEMMA UncertainSave ==
  ASSUME InboxInv, NEW h \in Hooks, NEW ok \in BOOLEAN, SaveUncertain(h, ok)
  PROVE  InboxInv' /\ Advances(stored, stored')
<1> QED BY LastSave DEF SaveUncertain

\* A promise whose answer was given or refused, about to record that it is uncertain.
LEMMA SettleIsReady ==
  ASSUME InboxInv, NEW h \in Hooks, hooks[h].pc \in {"call", "complete"},
         NEW src, NEW sent, RowsSeen(hooks[h].rows, src),
         hooks[h].pc = "call" /\ hooks[h].fresh => stored[hooks[h].request] = Reply("resolving", hooks[h].answer)
  PROVE  LET k == [hooks[h] EXCEPT !.pc = "settle", !.next = Uncertain(@, hooks[h].request)]
         IN  k \in HookState /\ k.pc = "settle" /\ HookOK(k, stored, src, sent)
<1> DEFINE r == hooks[h].request
           a == hooks[h].answer
           k == [hooks[h] EXCEPT !.pc = "settle", !.next = Uncertain(@, r)]
<1>1. hooks[h] \in HookState /\ HookOK(hooks[h], stored, source, emitted) /\ stored \in [Requests -> Entry]
  BY DEF InboxInv, DecisionInboxTypeOK
<1>2. r \in Discovered /\ r \in Requests /\ a \in Answers /\ hooks[h].next \in [Requests -> Entry]
  BY <1>1 DEF HookOK, InFlight, HookState, Requests
<1>3. hooks[h].next[r] \in {Reply("resolving", a), Reply("resolved", a)}
  BY <1>1 DEF HookOK, CallReady, CompleteReady
<1>4. [hooks[h].next[r] EXCEPT !.status = "uncertain"] = Reply("uncertain", a)
  BY <1>3 DEF Reply
<1>5. Uncertain(hooks[h].next, r) = [hooks[h].next EXCEPT ![r] = Reply("uncertain", a)]
  BY <1>4 DEF Uncertain
<1>6. Reply("uncertain", a) \in Entry
  BY <1>2 DEF Reply, Entry
<1>7. /\ k \in HookState /\ k.pc = "settle" /\ k.request = r /\ k.answer = a /\ k.rows = hooks[h].rows
      /\ k.fresh = hooks[h].fresh /\ k.next = [hooks[h].next EXCEPT ![r] = Reply("uncertain", a)]
  <2>1. [hooks[h].next EXCEPT ![r] = Reply("uncertain", a)] \in [Requests -> Entry]
    BY <1>2, <1>6
  <2> QED BY <1>1, <1>5, <2>1 DEF HookState, InFlight
<1>8. ASSUME k.fresh
      PROVE  stored[r] = Reply("resolving", a) /\ k.next = Uncertain(stored, r)
  <2>1. stored[r] = Reply("resolving", a)
    BY <1>1, <1>7, <1>8 DEF HookOK, CompleteReady
  <2>2. [stored[r] EXCEPT !.status = "uncertain"] = Reply("uncertain", a)
    BY <2>1 DEF Reply
  <2>3. Uncertain(stored, r) = [stored EXCEPT ![r] = Reply("uncertain", a)]
    BY <2>2 DEF Uncertain
  <2>4. \A q \in Requests : q # r => hooks[h].next[q] = stored[q]
    BY <1>1, <1>7, <1>8 DEF HookOK, CallReady, CompleteReady, Completed
  <2>5. [hooks[h].next EXCEPT ![r] = Reply("uncertain", a)] = [stored EXCEPT ![r] = Reply("uncertain", a)]
    BY <1>1, <1>2, <2>4
  <2> QED BY <1>7, <2>1, <2>3, <2>5
<1>9. k.next[r] = Reply("uncertain", a)
  BY <1>2, <1>7
<1>10. SettleReady(k, stored)
  <2> HIDE DEF k
  <2> QED BY <1>7, <1>8, <1>9 DEF SettleReady
<1>11. HookOK(k, stored, src, sent)
  <2> HIDE DEF k
  <2> QED BY <1>2, <1>7, <1>10 DEF HookOK
<1> QED BY <1>7, <1>11

\* The receipt is on record, or the promise goes on to record a doubt.
LEMMA CompletedSave ==
  ASSUME InboxInv, NEW h \in Hooks, NEW ok \in BOOLEAN, SaveCompleted(h, ok)
  PROVE  InboxInv' /\ Advances(stored, stored')
<1>1. hooks[h].pc = "complete" /\ Fault(ok) /\ UNCHANGED <<recovered, mounted, source, emitted>>
  BY DEF SaveCompleted
<1>2. CASE Save(h, ok) /\ hooks' = [StaleHooks EXCEPT ![h] = Idle]
  <2>1. Others(h, ok) = StaleHooks
    BY <1>2 DEF Save, Others
  <2> QED BY <1>1, <1>2, <2>1, LastSave
<1>3. CASE /\ ~Saves(h, ok)
           /\ view' = [view EXCEPT !.load = "saving"]
           /\ Proceed(h, "settle")
           /\ UNCHANGED stored
  <2> DEFINE k == [hooks[h] EXCEPT !.pc = "settle", !.next = Uncertain(@, hooks[h].request)]
  <2>1. hooks' = [hooks EXCEPT ![h] = k]
    BY <1>3 DEF Proceed
  <2>2. RowsSeen(hooks[h].rows, source)
    BY DEF InboxInv, HookOK
  <2>3. k \in HookState /\ k.pc = "settle" /\ HookOK(k, stored, source, emitted)
    BY <1>1, <2>2, SettleIsReady
  <2> HIDE DEF k
  <2>4. /\ hooks \in [Hooks -> HookState] /\ faults' \in 0..MaxFaults
        /\ view \in [requests : [Requests -> Entry], fresh : BOOLEAN,
                     load : {"idle", "ready", "saving", "error"}]
    BY <1>1, FaultType DEF InboxInv, DecisionInboxTypeOK
  <2>5. hooks' \in [Hooks -> HookState]
    BY <2>1, <2>3, <2>4
  <2>6. DecisionInboxTypeOK'
    BY <1>1, <1>3, <2>4, <2>5 DEF InboxInv, DecisionInboxTypeOK
  <2>7. Advances(stored, stored') /\ ResolvedOK(stored', source)
    BY <1>3, StoredStays
  <2>8. ViewOK(view', stored')
    BY <1>3, <2>4 DEF InboxInv, ViewOK
  <2>9. \A x \in Hooks :
          \/ hooks'[x] = hooks[x] /\ stored' = stored
          \/ hooks'[x] = [hooks[x] EXCEPT !.fresh = FALSE]
          \/ HookOK(hooks'[x], stored', source', emitted) /\ hooks'[x].pc # "call"
    BY <1>1, <1>3, <2>1, <2>3, <2>4
  <2> QED BY <1>1, <2>6, <2>7, <2>8, <2>9, SourceStays, Carry
<1> QED BY <1>2, <1>3 DEF SaveCompleted

\* The answer is on record before it is sent; nobody else is about to send one.
LEMMA PreparedSave ==
  ASSUME InboxInv, NEW h \in Hooks, NEW ok \in BOOLEAN, SavePrepared(h, ok)
  PROVE  InboxInv' /\ Advances(stored, stored')
<1> DEFINE r == hooks[h].request
           a == hooks[h].answer
<1>1. /\ hooks[h].pc = "prepare"
      /\ Save(h, ok) \/ SaveRefused(h, ok)
      /\ hooks' = [Others(h, ok) EXCEPT ![h] = AfterPrepare(h, ok)]
      /\ Fault(ok) /\ UNCHANGED <<recovered, mounted, source, emitted>>
  BY DEF SavePrepared
<1>2. /\ Advances(stored, stored') /\ ResolvedOK(stored', source) /\ ViewOK(view', stored')
      /\ view' \in [requests : [Requests -> Entry], fresh : BOOLEAN,
                    load : {"idle", "ready", "saving", "error"}]
      /\ Others(h, ok) \in [Hooks -> HookState]
      /\ \A x \in Hooks : \/ Others(h, ok)[x] = hooks[x] /\ stored' = stored
                          \/ Others(h, ok)[x] = [hooks[x] EXCEPT !.fresh = FALSE]
  BY <1>1, SaveFacts
<1>3. CASE ~Saves(h, ok)
  <2>1. AfterPrepare(h, ok) = Idle
    BY <1>3 DEF AfterPrepare
  <2>2. hooks' \in [Hooks -> HookState] /\ faults' \in 0..MaxFaults
    BY <1>1, <1>2, <2>1, WrittenTypes, FaultType
  <2>3. DecisionInboxTypeOK'
    BY <1>1, <1>2, <2>2 DEF InboxInv, DecisionInboxTypeOK, Advances
  <2>4. Idle.pc # "call" /\ HookOK(Idle, stored', source', emitted)
    BY IdleOK DEF Idle
  <2>5. \A x \in Hooks :
          \/ hooks'[x] = hooks[x] /\ stored' = stored
          \/ hooks'[x] = [hooks[x] EXCEPT !.fresh = FALSE]
          \/ HookOK(hooks'[x], stored', source', emitted) /\ hooks'[x].pc # "call"
    BY <1>1, <1>2, <2>1, <2>4
  <2> QED BY <1>1, <1>2, <2>3, <2>5, SourceStays, Carry
<1>4. CASE Saves(h, ok)
  <2> DEFINE k == [hooks[h] EXCEPT !.pc = "call", !.fresh = TRUE]
  <2>1. hooks[h].fresh /\ stored' = hooks[h].next /\ Others(h, ok) = StaleHooks /\ AfterPrepare(h, ok) = k
    BY <1>1, <1>4 DEF Save, SaveRefused, Saves, Others, AfterPrepare
  <2>2. hooks[h] \in HookState /\ HookOK(hooks[h], stored, source, emitted)
    BY DEF InboxInv, DecisionInboxTypeOK
  <2>3. /\ r \in Discovered /\ a \in Answers
        /\ stored[r] = Pending /\ hooks[h].next[r] = Reply("resolving", a)
    BY <1>1, <2>1, <2>2 DEF HookOK, PrepareReady, InFlight
  <2>4. /\ k \in HookState /\ k.pc = "call" /\ k.request = r /\ k.answer = a
        /\ k.rows = hooks[h].rows /\ k.next = stored'
    BY <2>1, <2>2 DEF HookState, InFlight
  <2>5. ~OnRecord(stored, r)
    BY <2>3 DEF OnRecord, Handled, Pending, InboxInv, Within, Present, Requests
  <2>6. emitted[r] = 0
    BY <2>3, <2>5 DEF InboxInv, SentOnce, DecisionInboxTypeOK
  <2>7. OnRecord(stored', r)
    BY <2>1, <2>3 DEF OnRecord, Handled, Reply
  <2>8. HookOK(k, stored', source', emitted')
    <3>1. CallReady(k, stored', emitted')
      <4> HIDE DEF k
      <4> QED BY <1>1, <2>1, <2>3, <2>4, <2>6, <2>7 DEF CallReady
    <3> HIDE DEF k
    <3> QED BY <1>1, <2>2, <2>3, <2>4, <3>1 DEF HookOK
  <2>9. hooks' = [StaleHooks EXCEPT ![h] = k]
    BY <1>1, <2>1
  <2> HIDE DEF k
  <2>10. ASSUME NEW x \in Hooks, x # h
         PROVE  hooks'[x] = [hooks[x] EXCEPT !.fresh = FALSE] /\ HookOK(hooks'[x], stored', source', emitted')
    <3>1. hooks'[x] = [hooks[x] EXCEPT !.fresh = FALSE]
      BY <2>9, <2>10 DEF StaleHooks
    <3>2. hooks[x] \in HookState /\ HookOK(hooks[x], stored, source, emitted)
      BY DEF InboxInv, DecisionInboxTypeOK
    <3>3. \A q \in Discovered : OnRecord(stored, q) => OnRecord(stored', q)
      BY <1>2 DEF Advances
    <3>4. SourceGrows(source, source') /\ emitted' = emitted
      BY <1>1, SourceStays
    <3> QED BY <3>1, <3>2, <3>3, <3>4, HookStays
  <2>11. hooks'[h] = k
    BY <2>9 DEF StaleHooks
  <2>12. \A x \in Hooks : HookOK(hooks'[x], stored', source', emitted')
    BY <2>8, <2>10, <2>11
  <2>13. ASSUME NEW x \in Hooks, x # h, hooks'[x].pc = "call"
         PROVE  hooks[x].pc = "call" /\ hooks'[x].request = hooks[x].request /\ hooks[x].request # r
    <3>1. hooks[x] \in HookState
      BY DEF InboxInv, DecisionInboxTypeOK
    <3>2. hooks[x].pc = "call" /\ hooks'[x].request = hooks[x].request
      BY <2>10, <2>13, <3>1 DEF HookState
    <3>3. OnRecord(stored, hooks[x].request)
      BY <3>2 DEF InboxInv, HookOK, CallReady
    <3> QED BY <2>5, <3>2, <3>3
  <2>14. \A x, y \in Hooks : CallersDiffer(x, y, hooks')
    BY <2>4, <2>11, <2>13 DEF InboxInv, CallersDiffer
  <2>15. hooks' \in [Hooks -> HookState] /\ faults' \in 0..MaxFaults
    <3>1. StaleHooks \in [Hooks -> HookState]
      BY WrittenTypes
    <3> QED BY <1>1, <2>4, <2>9, <3>1, FaultType
  <2>16. DecisionInboxTypeOK'
    BY <1>1, <1>2, <2>15 DEF InboxInv, DecisionInboxTypeOK, Advances
  <2>17. SentOnce(stored', emitted')
    BY <1>1, <1>2 DEF InboxInv, SentOnce, Advances
  <2>18. OwnStatuses(stored') /\ Within(stored')
    BY <1>2 DEF Advances
  <2>19. AnswersHeld(source') /\ ResolvedOK(stored', source')
    BY <1>1, <1>2, SourceStays
  <2> QED BY <1>2, <2>12, <2>14, <2>16, <2>17, <2>18, <2>19 DEF InboxInv
<1> QED BY <1>3, <1>4

\* The runtime takes an answer: no earlier one to a question is lost.
LEMMA AnswerIsKept ==
  ASSUME InboxInv, NEW r \in Discovered, NEW a \in Answers, Accepts(r, a), source' = Answered(r, a)
  PROVE  /\ SourceGrows(source, source') /\ AnswersHeld(source') /\ source' \in [Discovered -> Row]
         /\ Accepted(source', r, a) /\ ResolvedOK(stored, source')
<1>1. source \in [Discovered -> Row] /\ AnswersHeld(source) /\ ResolvedOK(stored, source)
  BY DEF InboxInv, DecisionInboxTypeOK
<1>2. \A q \in Discovered : source'[q] = IF q = r THEN Reply("answered", a) ELSE source[q]
  BY <1>1 DEF Answered, Reply
<1>3. source' \in [Discovered -> Row]
  BY <1>1 DEF Answered, Row
<1>4. r \in Questions /\ source[r].status = "answered" => source[r].answer = a
  BY InboxAssumption DEF Accepts
<1>5. SourceGrows(source, source')
  BY <1>2, <1>4 DEF SourceGrows, Reply
<1>6. AnswersHeld(source') /\ Accepted(source', r, a)
  BY <1>1, <1>2 DEF AnswersHeld, Accepted, Reply
<1>7. ResolvedOK(stored, source')
  BY <1>1, <1>5 DEF ResolvedOK, Accepted, SourceGrows
<1> QED BY <1>3, <1>5, <1>6, <1>7

\* The one call of a promise: it took effect or not, and the page hears of it or not.
LEMMA CallStep ==
  ASSUME InboxInv, NEW h \in Hooks, Call(h)
  PROVE  InboxInv' /\ Advances(stored, stored')
<1> DEFINE r == hooks[h].request
           a == hooks[h].answer
           done == [hooks[h] EXCEPT !.pc = "complete", !.next = Completed(@, r)]
           doubt == [hooks[h] EXCEPT !.pc = "settle", !.next = Uncertain(@, r)]
<1>1. hooks[h].pc = "call" /\ view' = [view EXCEPT !.load = "saving"] /\ UNCHANGED <<stored, recovered, mounted>>
  BY DEF Call
<1>2. /\ hooks \in [Hooks -> HookState] /\ HookOK(hooks[h], stored, source, emitted)
      /\ stored \in [Requests -> Entry] /\ emitted \in [Discovered -> Nat]
      /\ source \in [Discovered -> Row] /\ faults \in 0..MaxFaults
      /\ view \in [requests : [Requests -> Entry], fresh : BOOLEAN,
                   load : {"idle", "ready", "saving", "error"}]
  BY DEF InboxInv, DecisionInboxTypeOK
<1>3. /\ r \in Discovered /\ r \in Requests /\ a \in Answers /\ hooks[h].next[r] = Reply("resolving", a)
      /\ hooks[h].next \in [Requests -> Entry] /\ OnRecord(stored, r) /\ emitted[r] = 0
      /\ hooks[h].fresh => hooks[h].next = stored
  BY <1>1, <1>2 DEF HookOK, CallReady, InFlight, Requests, HookState
<1>4. /\ hooks' = [hooks EXCEPT ![h] = done] \/ hooks' = [hooks EXCEPT ![h] = doubt]
      /\ faults' \in 0..MaxFaults
      /\ \/ Accepts(r, a) /\ source' = Answered(r, a) /\ emitted' = [emitted EXCEPT ![r] = @ + 1]
         \/ source' = source /\ emitted' = emitted /\ hooks' = [hooks EXCEPT ![h] = doubt]
  BY <1>2, FaultType DEF Call, Proceed
<1>5. /\ SourceGrows(source, source') /\ AnswersHeld(source') /\ source' \in [Discovered -> Row]
      /\ ResolvedOK(stored, source')
      /\ hooks' # [hooks EXCEPT ![h] = doubt] => Accepted(source', r, a)
  <2>1. CASE Accepts(r, a) /\ source' = Answered(r, a)
    BY <1>3, <2>1, AnswerIsKept
  <2>2. CASE source' = source /\ hooks' = [hooks EXCEPT ![h] = doubt]
    BY <1>2, <2>2, SourceStays DEF InboxInv
  <2> QED BY <1>4, <2>1, <2>2
<1>6. RowsSeen(hooks[h].rows, source')
  BY <1>2, <1>5 DEF HookOK, RowsSeen, SourceGrows
<1>7. doubt \in HookState /\ doubt.pc = "settle" /\ HookOK(doubt, stored, source', emitted')
  BY <1>1, <1>3, <1>6, SettleIsReady
<1>8. ASSUME hooks' # [hooks EXCEPT ![h] = doubt]
      PROVE  done \in HookState /\ done.pc = "complete" /\ HookOK(done, stored, source', emitted')
  <2>1. [hooks[h].next[r] EXCEPT !.status = "resolved"] = Reply("resolved", a)
    BY <1>3 DEF Reply
  <2>2. Completed(hooks[h].next, r) = [hooks[h].next EXCEPT ![r] = Reply("resolved", a)]
    BY <2>1 DEF Completed
  <2>3. Completed(hooks[h].next, r) \in [Requests -> Entry]
    BY <1>3, <2>2 DEF Reply, Entry
  <2>4. /\ done \in HookState /\ done.pc = "complete" /\ done.request = r /\ done.answer = a
        /\ done.rows = hooks[h].rows /\ done.fresh = hooks[h].fresh
        /\ done.next = Completed(hooks[h].next, r)
    BY <1>2, <2>3 DEF HookState, InFlight
  <2>5. done.next[r] = Reply("resolved", a)
    BY <1>3, <2>2, <2>4
  <2>6. CompleteReady(done, stored, source')
    <3> HIDE DEF done
    <3> QED BY <1>3, <1>5, <1>8, <2>4, <2>5 DEF CompleteReady
  <2>7. HookOK(done, stored, source', emitted')
    <3> HIDE DEF done
    <3> QED BY <1>3, <1>6, <2>4, <2>6 DEF HookOK
  <2> QED BY <2>4, <2>7
<1> HIDE DEF done, doubt
<1>9. \A x \in Hooks : x # h => hooks'[x] = hooks[x]
  BY <1>2, <1>4
<1>10. hooks'[h] \in HookState /\ hooks'[h].pc # "call" /\ HookOK(hooks'[h], stored, source', emitted')
  BY <1>2, <1>4, <1>7, <1>8
<1>11. ASSUME NEW x \in Hooks, x # h PROVE HookOK(hooks'[x], stored, source', emitted')
  <2>1. hooks[x].pc = "call" => hooks[x].request \in Discovered /\ hooks[x].request # r
    BY <1>1, <1>11 DEF InboxInv, HookOK, InFlight, CallersDiffer
  <2>2. hooks[x].pc = "call" => emitted'[hooks[x].request] = emitted[hooks[x].request]
    BY <1>2, <1>4, <2>1
  <2>3. hooks[x] \in HookState /\ HookOK(hooks[x], stored, source, emitted)
    BY <1>2 DEF InboxInv
  <2>4. \A q \in Discovered : OnRecord(stored, q) => OnRecord(stored, q)
    OBVIOUS
  <2> QED BY <1>5, <1>9, <1>11, <2>2, <2>3, <2>4, HookStays
<1>12. \A x, y \in Hooks : CallersDiffer(x, y, hooks')
  BY <1>9, <1>10 DEF InboxInv, CallersDiffer
<1>13. SentOnce(stored, emitted') /\ emitted' \in [Discovered -> Nat]
  <2>1. \A q \in Discovered : emitted'[q] = emitted[q] \/ (q = r /\ emitted'[q] = 1)
    BY <1>2, <1>3, <1>4
  <2>2. SentOnce(stored, emitted')
    BY <1>3, <2>1 DEF InboxInv, SentOnce
  <2> QED BY <1>2, <1>3, <1>4, <2>2
<1>14. hooks' \in [Hooks -> HookState]
  BY <1>2, <1>4, <1>7, <1>8
<1>15. /\ view' \in [requests : [Requests -> Entry], fresh : BOOLEAN,
                     load : {"idle", "ready", "saving", "error"}]
       /\ ViewOK(view', stored)
  BY <1>1, <1>2 DEF InboxInv, ViewOK
<1>16. DecisionInboxTypeOK'
  BY <1>1, <1>4, <1>5, <1>13, <1>14, <1>15 DEF InboxInv, DecisionInboxTypeOK
<1>17. Advances(stored, stored')
  BY <1>1, StoredStays
<1>18. \A x \in Hooks : HookOK(hooks'[x], stored', source', emitted')
  BY <1>1, <1>10, <1>11
<1> QED BY <1>1, <1>5, <1>12, <1>13, <1>15, <1>16, <1>17, <1>18 DEF InboxInv

\* The user answers a request that the page shows as pending.
LEMMA BeginStep ==
  ASSUME InboxInv, NEW h \in Hooks, NEW r \in Discovered, NEW a \in Answers, BeginResolve(h, r, a)
  PROVE  InboxInv' /\ Advances(stored, stored')
<1> DEFINE next == Begun(view.requests, r, a)
           k == [Idle EXCEPT !.pc = "prepare", !.request = r, !.answer = a,
                             !.fresh = view.fresh, !.next = next]
<1>1. /\ view.requests[r].status = "pending" /\ hooks' = [hooks EXCEPT ![h] = k]
      /\ view' = [view EXCEPT !.load = "saving"]
      /\ UNCHANGED <<stored, recovered, mounted, source, emitted, faults>>
  BY DEF BeginResolve, CanBegin
<1>2. /\ hooks \in [Hooks -> HookState] /\ Idle \in HookState /\ r \in Requests
      /\ view \in [requests : [Requests -> Entry], fresh : BOOLEAN,
                   load : {"idle", "ready", "saving", "error"}]
  BY WrittenTypes DEF InboxInv, DecisionInboxTypeOK, Requests
<1>3. next = [view.requests EXCEPT ![r] = Reply("resolving", a)]
  BY DEF Begun, Reply
<1>4. next \in [Requests -> Entry] /\ next[r] = Reply("resolving", a)
  BY <1>2, <1>3 DEF Reply, Entry
<1>5. view.fresh => stored[r] = Pending /\ next = Begun(stored, r, a)
  <2>1. view.requests[r] = Pending
    BY <1>1, <1>2 DEF Entry, Pending
  <2> QED BY <2>1 DEF InboxInv, ViewOK
<1>6. /\ k \in HookState /\ k.pc = "prepare" /\ k.request = r /\ k.answer = a
      /\ k.fresh = view.fresh /\ k.next = next /\ k.rows = Idle.rows
  <2> HIDE DEF next
  <2> QED BY <1>2, <1>4 DEF HookState, InFlight
<1> HIDE DEF k, next
<1>7. PrepareReady(k, stored)
  BY <1>4, <1>5, <1>6 DEF PrepareReady
<1>8. HookOK(k, stored', source', emitted) /\ k.pc # "call"
  BY <1>1, <1>6, <1>7 DEF HookOK, RowsSeen, Idle, NoRow
<1>9. /\ view' \in [requests : [Requests -> Entry], fresh : BOOLEAN,
                    load : {"idle", "ready", "saving", "error"}]
      /\ ViewOK(view', stored')
  BY <1>1, <1>2 DEF InboxInv, ViewOK
<1>10. hooks' \in [Hooks -> HookState]
  BY <1>1, <1>2, <1>6
<1>11. DecisionInboxTypeOK'
  BY <1>1, <1>9, <1>10 DEF InboxInv, DecisionInboxTypeOK
<1>12. \A x \in Hooks :
         \/ hooks'[x] = hooks[x] /\ stored' = stored
         \/ hooks'[x] = [hooks[x] EXCEPT !.fresh = FALSE]
         \/ HookOK(hooks'[x], stored', source', emitted) /\ hooks'[x].pc # "call"
  BY <1>1, <1>2, <1>8
<1> QED BY <1>1, <1>9, <1>11, <1>12, StoredStays, SourceStays, Carry

\* A step of the approvals: every promise's copy is stale if the file changed.
LEMMA ApprovalStep ==
  ASSUME InboxInv, Advances(stored, stored'), ResolvedOK(stored', source), ViewOK(view', stored'),
         view' \in [requests : [Requests -> Entry], fresh : BOOLEAN,
                    load : {"idle", "ready", "saving", "error"}],
         hooks' = StaleHooks \/ (hooks' = hooks /\ stored' = stored),
         recovered' = recovered \cup {"controller"},
         UNCHANGED <<mounted, source, emitted, faults>>
  PROVE  InboxInv' /\ Advances(stored, stored')
<1>1. hooks' \in [Hooks -> HookState]
  BY WrittenTypes DEF InboxInv, DecisionInboxTypeOK
<1>2. DecisionInboxTypeOK'
  BY <1>1 DEF InboxInv, DecisionInboxTypeOK, Advances, Stores
<1>3. \A x \in Hooks :
        \/ hooks'[x] = hooks[x] /\ stored' = stored
        \/ hooks'[x] = [hooks[x] EXCEPT !.fresh = FALSE]
        \/ HookOK(hooks'[x], stored', source', emitted) /\ hooks'[x].pc # "call"
  BY DEF StaleHooks
<1> QED BY <1>2, <1>3, SourceStays, Carry

\* The operations on approvals, by tools and by the user.
LEMMA ApprovalSteps ==
  ASSUME InboxInv,
         \/ \E s \in SideEffects, after \in Entry :
              ToolUse(s, after) \/ \E h \in Hooks : DecideSideEffect(h, s, after)
         \/ ToolUseUnchanged
  PROVE  InboxInv' /\ Advances(stored, stored')
<1>1. view \in [requests : [Requests -> Entry], fresh : BOOLEAN,
                load : {"idle", "ready", "saving", "error"}]
  BY DEF InboxInv, DecisionInboxTypeOK
<1>2. ASSUME NEW s \in SideEffects, NEW after \in Entry,
             ToolUse(s, after) \/ \E h \in Hooks : DecideSideEffect(h, s, after)
      PROVE  InboxInv' /\ Advances(stored, stored')
  <2>1. /\ Mutate(s, after) /\ hooks' = StaleHooks /\ recovered' = recovered \cup {"controller"}
        /\ UNCHANGED <<mounted, source, emitted, faults>>
    BY <1>2 DEF ToolUse, DecideSideEffect, Mutate
  <2>2. \/ view' = [view EXCEPT !.fresh = FALSE]
        \/ view' = [requests |-> stored', fresh |-> TRUE, load |-> "ready"]
    BY <1>2 DEF ToolUse, DecideSideEffect
  <2>3. Advances(stored, stored') /\ ResolvedOK(stored', source)
    BY <2>1, MutateAdvances
  <2>4. /\ ViewOK(view', stored')
        /\ view' \in [requests : [Requests -> Entry], fresh : BOOLEAN,
                      load : {"idle", "ready", "saving", "error"}]
    <3>1. stored' \in [Requests -> Entry]
      BY <2>3 DEF Advances
    <3>2. CASE view' = [view EXCEPT !.fresh = FALSE]
      BY <1>1, <3>2 DEF ViewOK
    <3>3. CASE view' = [requests |-> stored', fresh |-> TRUE, load |-> "ready"]
      BY <3>1, <3>3 DEF ViewOK
    <3> QED BY <2>2, <3>2, <3>3
  <2> QED BY <2>1, <2>3, <2>4, ApprovalStep
<1>3. CASE ToolUseUnchanged
  <2>1. /\ stored' = Loaded("controller") /\ recovered' = recovered \cup {"controller"}
        /\ hooks' = IF stored' = stored THEN hooks ELSE StaleHooks
        /\ view' = [view EXCEPT !.fresh = @ /\ stored' = stored]
        /\ UNCHANGED <<mounted, source, emitted, faults>>
    BY <1>3 DEF ToolUseUnchanged
  <2>2. Advances(stored, stored') /\ ResolvedOK(stored', source)
    BY <2>1, LoadAdvances
  <2>3. CASE stored' = stored
    <3>1. view' = [view EXCEPT !.fresh = @ /\ TRUE]
      BY <2>1, <2>3
    <3>2. view' = view
      BY <1>1, <3>1
    <3>3. ViewOK(view', stored')
      BY <2>3, <3>2 DEF InboxInv
    <3> QED BY <1>1, <2>1, <2>2, <2>3, <3>2, <3>3, ApprovalStep
  <2>4. CASE stored' # stored
    <3>1. view' = [view EXCEPT !.fresh = @ /\ FALSE]
      BY <2>1, <2>4
    <3>2. view' = [view EXCEPT !.fresh = FALSE]
      BY <1>1, <3>1
    <3> QED BY <1>1, <2>1, <2>2, <2>4, <3>2, ApprovalStep DEF ViewOK
  <2> QED BY <2>3, <2>4
<1> QED BY <1>2, <1>3

\* Requests appear, are answered by others, and close.
LEMMA SourceSteps ==
  ASSUME InboxInv,
         \/ \E r \in Discovered : Appear(r) \/ \E a \in Answers : ForeignAnswer(r, a)
         \/ \E r \in Questions : QuestionCloses(r)
  PROVE  InboxInv' /\ Advances(stored, stored')
<1>1. /\ source \in [Discovered -> Row] /\ AnswersHeld(source) /\ ResolvedOK(stored, source)
      /\ ViewOK(view, stored)
  BY DEF InboxInv, DecisionInboxTypeOK
<1>2. UNCHANGED <<stored, recovered, view, hooks, mounted, emitted, faults>>
  BY DEF Appear, ForeignAnswer, QuestionCloses
<1>3. /\ SourceGrows(source, source') /\ AnswersHeld(source') /\ source' \in [Discovered -> Row]
  <2>1. ASSUME NEW r \in Discovered, Appear(r)
        PROVE  /\ SourceGrows(source, source') /\ AnswersHeld(source') /\ source' \in [Discovered -> Row]
    <3>1. source[r].status = "none" /\ source' = [source EXCEPT ![r] = Pending]
      BY <2>1 DEF Appear, Pending
    <3>2. Pending \in Row /\ Pending.status = "pending"
      BY DEF Pending, Row
    <3> QED BY <1>1, <3>1, <3>2 DEF SourceGrows, AnswersHeld
  <2>2. ASSUME NEW r \in Discovered, NEW a \in Answers, ForeignAnswer(r, a)
        PROVE  /\ SourceGrows(source, source') /\ AnswersHeld(source') /\ source' \in [Discovered -> Row]
    <3>1. /\ source[r].status = "pending" \/ r \in Gates
          /\ source' = [source EXCEPT ![r] = Reply("answered", a)]
      BY <2>2 DEF ForeignAnswer, Answered, Reply
    <3>2. Reply("answered", a) \in Row
      BY DEF Reply, Row
    <3>3. \A q \in Discovered : source'[q] = IF q = r THEN Reply("answered", a) ELSE source[q]
      BY <1>1, <3>1
    <3>4. r \notin Questions \/ source[r].status = "pending"
      BY <3>1, InboxAssumption
    <3> QED BY <1>1, <3>1, <3>2, <3>3, <3>4 DEF SourceGrows, AnswersHeld, Reply
  <2>3. ASSUME NEW r \in Questions, QuestionCloses(r)
        PROVE  /\ SourceGrows(source, source') /\ AnswersHeld(source') /\ source' \in [Discovered -> Row]
    <3>1. r \in Discovered /\ source[r].status = "pending" /\ source' = [source EXCEPT ![r].status = "closed"]
      BY <2>3 DEF QuestionCloses, Discovered
    <3>2. \A q \in Discovered : source'[q] \in Row /\ (source'[q] = source[q] \/ (q = r /\ source'[q].status = "closed"))
      BY <1>1, <3>1 DEF Row
    <3>3. source' \in [Discovered -> Row]
      BY <1>1, <3>1, <3>2
    <3> QED BY <1>1, <3>1, <3>2, <3>3 DEF SourceGrows, AnswersHeld
  <2> QED BY <2>1, <2>2, <2>3
<1>4. ResolvedOK(stored', source') /\ ViewOK(view', stored')
  BY <1>1, <1>2, <1>3 DEF ResolvedOK, Accepted, SourceGrows
<1>5. DecisionInboxTypeOK'
  BY <1>2, <1>3 DEF InboxInv, DecisionInboxTypeOK
<1>6. Advances(stored, stored')
  BY <1>2, StoredStays
<1> QED BY <1>2, <1>3, <1>4, <1>5, <1>6, Carry

\* The page is opened again; the process starts again.
LEMMA ProcessSteps ==
  ASSUME InboxInv, Remount \/ Restart
  PROVE  InboxInv' /\ Advances(stored, stored')
<1>1. UNCHANGED <<stored, source, emitted>> /\ faults' \in 0..MaxFaults
  BY FaultType DEF Remount, Restart
<1>2. Absent \in Entry
  BY DEF Absent, Entry
<1>3. DecisionInboxTypeOK' /\ ViewOK(view', stored')
  <2>1. CASE Remount
    BY <1>1, <2>1 DEF Remount, InboxInv, DecisionInboxTypeOK
  <2>2. CASE Restart
    <3>1. hooks' \in [Hooks -> HookState]
      BY <2>2, WrittenTypes DEF Restart
    <3> QED BY <1>1, <1>2, <2>2, <3>1 DEF Restart, InboxInv, DecisionInboxTypeOK, ViewOK
  <2> QED BY <2>1, <2>2
<1>4. \A x \in Hooks :
        \/ hooks'[x] = hooks[x] /\ stored' = stored
        \/ hooks'[x] = [hooks[x] EXCEPT !.fresh = FALSE]
        \/ HookOK(hooks'[x], stored', source', emitted) /\ hooks'[x].pc # "call"
  <2>1. Idle.pc # "call" /\ HookOK(Idle, stored', source', emitted)
    BY IdleOK DEF Idle
  <2> QED BY <1>1, <2>1 DEF Remount, Restart
<1> QED BY <1>1, <1>3, <1>4, StoredStays, SourceStays, Carry

\* Every step, by its action.
LEMMA InboxStep ==
  ASSUME InboxInv, Next
  PROVE  InboxInv' /\ Advances(stored, stored')
<1>1. CASE Load \/ \E h \in Hooks : Reload(h) \/ Refresh(h)
  BY <1>1, ReadSteps
<1>2. CASE \E h \in Hooks : HookStep(h)
  <2>1. PICK h \in Hooks : HookStep(h)
    BY <1>2
  <2>2. CASE Discover(h) \/ DiscoverFails(h)
    BY <2>2, DiscoverSteps
  <2>3. CASE Call(h)
    BY <2>3, CallStep
  <2>4. CASE \E ok \in BOOLEAN : SaveMerged(h, ok) \/ SavePrepared(h, ok)
    BY <2>4, MergedSave, PreparedSave
  <2>5. CASE \E ok \in BOOLEAN : SaveCompleted(h, ok) \/ SaveUncertain(h, ok)
    BY <2>5, CompletedSave, UncertainSave
  <2> QED BY <2>1, <2>2, <2>3, <2>4, <2>5 DEF HookStep
<1>3. CASE \E h \in Hooks, r \in Discovered, a \in Answers : BeginResolve(h, r, a)
  BY <1>3, BeginStep
<1>4. CASE \/ \E s \in SideEffects, after \in Entry :
                ToolUse(s, after) \/ \E h \in Hooks : DecideSideEffect(h, s, after)
           \/ ToolUseUnchanged
  BY <1>4, ApprovalSteps
<1>5. CASE \/ \E r \in Discovered : Appear(r) \/ \E a \in Answers : ForeignAnswer(r, a)
           \/ \E r \in Questions : QuestionCloses(r)
  BY <1>5, SourceSteps
<1>6. CASE Remount \/ Restart
  BY <1>6, ProcessSteps
<1> QED BY <1>1, <1>2, <1>3, <1>4, <1>5, <1>6 DEF Next

\* Nothing happens.
LEMMA InboxStutter ==
  ASSUME InboxInv, UNCHANGED vars
  PROVE  InboxInv'
<1>1. DecisionInboxTypeOK' /\ ViewOK(view', stored')
  BY DEF InboxInv, DecisionInboxTypeOK, ViewOK, vars
<1>2. UNCHANGED <<stored, source, emitted, hooks>>
  BY DEF vars
<1> QED BY <1>1, <1>2, StoredStays, SourceStays, Carry

\* The inductive invariant holds.
LEMMA InboxInvHolds == Spec => []InboxInv
<1>1. InboxInv /\ [Next]_vars => InboxInv'
  BY InboxStep, InboxStutter
<1> QED BY <1>1, InboxInit, PTL DEF Spec

-----------------------------------------------------------------------------
(* The theorems.                                                             *)

\* The snapshot, the page's copy, the promises and the runtime keep their types.
THEOREM InboxTypeCorrect == Spec => []DecisionInboxTypeOK
<1>1. InboxInv => DecisionInboxTypeOK
  BY DEF InboxInv
<1> QED BY <1>1, InboxInvHolds, PTL

\* Whatever fails, restarts, is remounted or recovered, the inbox sends a request
\* one answer at most, and does not offer again what it answered.
THEOREM AnswersAreGivenOnce == Spec => []OneAnswer
<1>1. InboxInv => OneAnswer
  <2> SUFFICES ASSUME InboxInv PROVE OneAnswer
    OBVIOUS
  <2>1. AnsweredOnce
    BY DEF InboxInv, SentOnce, AnsweredOnce
  <2>2. ASSUME NEW r \in Discovered, emitted[r] > 0
        PROVE  /\ stored[r].status \in {"resolving", "uncertain", "resolved"} \/ OutsideLimit(stored, r)
               /\ view.requests[r].status # "pending" \/ ~view.fresh
    <3>1. OnRecord(stored, r)
      BY <2>2 DEF InboxInv, SentOnce
    <3>2. stored[r].status # "pending"
      BY <3>1 DEF OnRecord, Handled, InboxInv, Within, Present, Requests
    <3> QED BY <3>1, <3>2 DEF OnRecord, Handled, InboxInv, ViewOK
  <2> QED BY <2>1, <2>2 DEF OneAnswer, AnsweredIsNotOffered
<1> QED BY <1>1, InboxInvHolds, PTL

\* What is on record as resolved was answered in the runtime, a question with the
\* very answer on record.
THEOREM ResolvedMeansAnswered == Spec => []ResolvedWasAnswered
<1>1. InboxInv => ResolvedWasAnswered
  BY DEF InboxInv, ResolvedOK, Accepted, ResolvedWasAnswered
<1> QED BY <1>1, InboxInvHolds, PTL

\* No writer's snapshot takes back an answer, an approval, its consumption or an
\* uncertain outcome, although each of them writes a copy it made earlier.
THEOREM EntriesMoveForward == Spec => DecisionsMoveForward
<1> DEFINE Moved == \A r \in Requests :
                      \/ Forward(stored[r], stored'[r])
                      \/ r \in Gates /\ stored[r].status = "resolved" /\ stored'[r].status = "resolved"
                      \/ (stored'[r] = Absent /\ OutsideLimit(stored', r))
<1>1. InboxInv /\ [Next]_vars => [Moved]_vars
  BY InboxStep DEF Advances
<1>2. Spec => [][Moved]_vars
  BY <1>1, InboxInvHolds, PTL DEF Spec
<1> QED BY <1>2 DEF DecisionsMoveForward

=============================================================================
