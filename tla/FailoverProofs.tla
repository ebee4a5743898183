---------------------------- MODULE FailoverProofs ----------------------------
(***************************************************************************)
(* Proofs about Failover, for any accounts, recoveries, terminals, contexts *)
(* and limits: one agent at a time, an audit that only moves forward, a      *)
(* success that is bound, and a stop that leaves nobody alive.              *)
(*                                                                         *)
(* A recovery works on copies of two files made at the click.  The argument *)
(* is that a selection can be saved only on the latest copy of an open      *)
(* audit, so that from then on one recovery is the "driver": nobody else's  *)
(* save fits, and nobody else is eligible, until it settled or was reloaded *)
(* away.  All else follows the phases of the driver.                        *)
(***************************************************************************)
EXTENDS Failover, FiniteSetTheorems, SequenceTheorems, TLAPS

O == INSTANCE OrcaRuntimeProofs WITH
  Tasks <- {Task}, Deps <- [t \in {Task} |-> {}], Workers <- Terminals

-----------------------------------------------------------------------------
(* Orca's transactions.  The instance spells them with names of its own.     *)

\* The transactions of the runtime.
LEMMA SameRuntime ==
  /\ O!RuntimeTypeOK <=> Orca!RuntimeTypeOK
  /\ O!NoResult = Orca!NoResult
  /\ O!NoContext = Orca!NoContext
  /\ \A t : O!LiveOn(t) = Orca!LiveOn(t)
  /\ \A c, t, w : O!Claim(c, t, w) <=> Orca!Claim(c, t, w)
  /\ \A c : O!Fail(c) <=> Orca!Fail(c)
  /\ \A c, x : O!Report(c, x) <=> Orca!Report(c, x)
  /\ \A c : O!Release(c) <=> Orca!Release(c)
  /\ \A t, x : O!Update(t, x) <=> Orca!Update(t, x)
<1>2. O!RuntimeTypeOK <=> Orca!RuntimeTypeOK
  BY DEF O!RuntimeTypeOK, Orca!RuntimeTypeOK, O!RuntimeTaskStatus, Orca!RuntimeTaskStatus,
         O!Result, Orca!Result, O!Context, Orca!Context
<1>3. \A c, t, w : O!Claim(c, t, w) <=> Orca!Claim(c, t, w)
  BY DEF O!Claim, Orca!Claim, O!LiveAt, Orca!LiveAt, O!NoContext, Orca!NoContext
<1>4. \A c : O!Fail(c) <=> Orca!Fail(c)
  BY DEF O!Fail, Orca!Fail, O!LiveOn, Orca!LiveOn
<1>5. \A c, x : O!Report(c, x) <=> Orca!Report(c, x)
  BY DEF O!Report, Orca!Report, O!LiveOn, Orca!LiveOn, O!Settled, Orca!Settled,
         O!Promote, Orca!Promote
<1>6. \A c : O!Release(c) <=> Orca!Release(c)
  BY DEF O!Release, Orca!Release, O!LiveOn, Orca!LiveOn
<1>7. \A t, x : O!Update(t, x) <=> Orca!Update(t, x)
  BY DEF O!Update, Orca!Update, O!Updatable, Orca!Updatable, O!LiveOn, Orca!LiveOn,
         O!Settled, Orca!Settled, O!Promote, Orca!Promote, O!PushedResult, Orca!PushedResult
<1>8. O!NoResult = Orca!NoResult /\ O!NoContext = Orca!NoContext
  BY DEF O!NoResult, Orca!NoResult, O!NoContext, Orca!NoContext
<1>9. \A t : O!LiveOn(t) = Orca!LiveOn(t)
  BY DEF O!LiveOn, Orca!LiveOn
<1> QED BY <1>2, <1>3, <1>4, <1>5, <1>6, <1>7, <1>8, <1>9

\* A context once used keeps its terminal and is never free again, and a stopped one stays so.
ContextsKept ==
  \A c \in Contexts : runtime.ctx[c].status # "unused" =>
    /\ runtime'.ctx[c].status # "unused"
    /\ runtime'.ctx[c].worker = runtime.ctx[c].worker
    /\ runtime.ctx[c].status = "stopped" => runtime'.ctx[c].status = "stopped"

\* No context is taken into use.
NoneNew ==
  \A c \in Contexts : runtime'.ctx[c].status # "unused" => runtime.ctx[c].status # "unused"

\* What any flow but a dispatch may do to Orca's tables.
Transaction ==
  \/ UNCHANGED runtime
  \/ \E c \in Contexts : Orca!Fail(c)
  \/ \E c \in Contexts : Orca!Release(c)
  \/ \E c \in Contexts, outcome \in {"succeeded", "failed"} : Orca!Report(c, outcome)
  \/ \E status \in {"ready", "blocked"} : Orca!Update(Task, status)

\* What the runtime's module assumes of its constants.
LEMMA RuntimeAssumed ==
  /\ [t \in {Task} |-> {}] \in [{Task} -> SUBSET {Task}]
  /\ None \notin {Task} \cup Terminals \cup Contexts
  /\ BreakerLimit \in Nat \ {0}
  BY FailoverAssumption

\* The runtime's own invariant, and what no transaction takes back.
LEMMA RuntimeStep ==
  ASSUME O!RuntimeInv, [O!RuntimeNext]_runtime
  PROVE  O!RuntimeInv' /\ ContextsKept
<1>1. O!RuntimeInv'
  BY O!RuntimeNextInv, RuntimeAssumed
<1>2. ASSUME NEW c \in Contexts, runtime.ctx[c].status # "unused"
      PROVE  /\ runtime'.ctx[c].status # "unused"
             /\ runtime'.ctx[c].worker = runtime.ctx[c].worker
             /\ runtime.ctx[c].status # "dispatched" => runtime'.ctx[c] = runtime.ctx[c]
  BY <1>2, O!ContextKept, RuntimeAssumed
<1> QED BY <1>1, <1>2 DEF ContextsKept

\* Only a claim takes a context into use.
LEMMA TransactionKeeps ==
  ASSUME O!RuntimeInv, Transaction
  PROVE  O!RuntimeInv' /\ ContextsKept /\ NoneNew
<1>1. [O!RuntimeNext]_runtime
  BY SameRuntime DEF Transaction, O!RuntimeNext
<1>2. /\ runtime = [task |-> runtime.task, result |-> runtime.result,
                    failures |-> runtime.failures, ctx |-> runtime.ctx]
      /\ runtime.ctx \in [Contexts -> O!Context]
  BY O!RuntimeFields, RuntimeAssumed DEF O!RuntimeInv
<1>3. ASSUME NEW c \in Contexts, Orca!Fail(c) PROVE NoneNew
  BY <1>2, <1>3 DEF Orca!Fail, NoneNew
<1>4. ASSUME NEW c \in Contexts, Orca!Release(c) PROVE NoneNew
  BY <1>2, <1>4 DEF Orca!Release, NoneNew
<1>5. ASSUME NEW c \in Contexts, NEW outcome, Orca!Report(c, outcome) PROVE NoneNew
  BY <1>2, <1>5 DEF Orca!Report, Orca!Settled, Orca!LiveOn, NoneNew
<1>6. ASSUME NEW status, Orca!Update(Task, status) PROVE NoneNew
  BY <1>2, <1>6 DEF Orca!Update, Orca!Settled, Orca!LiveOn, NoneNew
<1>7. NoneNew
  BY <1>3, <1>4, <1>5, <1>6 DEF Transaction, NoneNew
<1> QED BY <1>1, <1>7, RuntimeStep

-----------------------------------------------------------------------------
(* The audit.                                                               *)

\* An attempt, and an audit but for its length.
Attempt == [account : Accounts, outcome : {"selected", "failed", "succeeded", "uncertain"}]

AuditRecord ==
  [state : {"active", "succeeded", "stopped", "uncertain"}, attempts : Seq(Attempt),
   replacement : Contexts \cup {None}]

\* An audit, its attempts read as a sequence.
LEMMA AuditType ==
  \A audit : audit \in Audit <=> audit \in AuditRecord /\ Len(audit.attempts) <= Ceiling
<1>1. \A s : s \in UNION {[1 .. n -> Attempt] : n \in 0 .. Ceiling}
             <=> s \in Seq(Attempt) /\ Len(s) <= Ceiling
  <2>1. ASSUME NEW s \in UNION {[1 .. n -> Attempt] : n \in 0 .. Ceiling}
        PROVE  s \in Seq(Attempt) /\ Len(s) <= Ceiling
    <3>1. PICK n \in 0 .. Ceiling : s \in [1 .. n -> Attempt]
      OBVIOUS
    <3>2. n \in Nat /\ n <= Ceiling
      BY FailoverAssumption
    <3>3. s \in Seq(Attempt)
      BY <3>1, <3>2
    <3>4. Len(s) = n
      BY <3>1, <3>2, <3>3, LenProperties
    <3> QED BY <3>2, <3>3, <3>4
  <2>2. ASSUME NEW s \in Seq(Attempt), Len(s) <= Ceiling
        PROVE  s \in UNION {[1 .. n -> Attempt] : n \in 0 .. Ceiling}
    <3>1. Len(s) \in 0 .. Ceiling
      BY <2>2, FailoverAssumption, LenProperties
    <3>2. s \in [1 .. Len(s) -> Attempt]
      BY LenProperties
    <3> QED BY <3>1, <3>2
  <2> QED BY <2>1, <2>2
<1>2. Audit = [state : {"active", "succeeded", "stopped", "uncertain"},
               attempts : UNION {[1 .. n -> Attempt] : n \in 0 .. Ceiling},
               replacement : Contexts \cup {None}]
  BY DEF Audit, Attempt
<1> DEFINE Runs == UNION {[1 .. n -> Attempt] : n \in 0 .. Ceiling}
<1> HIDE DEF Runs
<1>3. Audit = [state : {"active", "succeeded", "stopped", "uncertain"},
               attempts : Runs, replacement : Contexts \cup {None}]
  BY <1>2 DEF Runs
<1>4. \A s : s \in Runs <=> s \in Seq(Attempt) /\ Len(s) <= Ceiling
  BY <1>1 DEF Runs
<1> QED BY <1>3, <1>4 DEF AuditRecord

\* A selection adds one attempt, of an account that was not tried.
LEMMA SelectedFacts ==
  ASSUME NEW audit \in Audit, NEW a \in Accounts \ Tried(audit),
         audit.state = "active", Len(audit.attempts) < Ceiling
  PROVE  /\ Selected(audit, a) \in Audit
         /\ Pending(Selected(audit, a))
         /\ Latest(Selected(audit, a)).account = a
         /\ Tried(Selected(audit, a)) = Tried(audit) \cup {a}
         /\ \A i \in DOMAIN audit.attempts :
              /\ i \in DOMAIN Selected(audit, a).attempts
              /\ Selected(audit, a).attempts[i] = audit.attempts[i]
         /\ \A i \in DOMAIN Selected(audit, a).attempts :
              \/ i \in DOMAIN audit.attempts
              \/ Selected(audit, a).attempts[i].outcome = "selected"
<1> DEFINE new == [account |-> a, outcome |-> "selected"]
           n == Len(audit.attempts)
           S == Append(audit.attempts, new)
<1>1. /\ audit \in AuditRecord
      /\ audit.attempts \in Seq(Attempt) /\ n \in Nat
      /\ audit.replacement \in Contexts \cup {None}
      /\ DOMAIN audit.attempts = 1 .. n
  BY AuditType, LenProperties DEF AuditRecord
<1>2. new \in Attempt
  BY DEF Attempt
<1>3. /\ S \in Seq(Attempt) /\ Len(S) = n + 1
      /\ \A i \in 1 .. n : S[i] = audit.attempts[i]
      /\ S[n + 1] = new /\ DOMAIN S = 1 .. n + 1
  BY <1>1, <1>2, AppendProperties, LenProperties
<1>4. Selected(audit, a) = [state |-> "active", attempts |-> S, replacement |-> audit.replacement]
  BY <1>1 DEF Selected, AuditRecord
<1> HIDE DEF S, new
<1> DEFINE b == Selected(audit, a)
<1>5. b.state = "active" /\ b.attempts = S /\ b.replacement = audit.replacement
      /\ b = [state |-> b.state, attempts |-> b.attempts, replacement |-> b.replacement]
  BY <1>4
<1> HIDE DEF b
<1>6. b \in Audit
  BY <1>1, <1>3, <1>5, AuditType, FailoverAssumption DEF AuditRecord
<1>7. Pending(b) /\ Latest(b).account = a
  <2>1. S # <<>>
    BY <1>1, <1>3
  <2>2. new.account = a /\ new.outcome = "selected"
    BY DEF new
  <2> QED BY <1>3, <1>5, <2>1, <2>2 DEF Pending, Latest
<1>8. \A i \in DOMAIN audit.attempts : i \in DOMAIN b.attempts /\ b.attempts[i] = audit.attempts[i]
  BY <1>1, <1>3, <1>5
<1>9. \A i \in DOMAIN b.attempts :
        i \in DOMAIN audit.attempts \/ (b.attempts[i].outcome = "selected" /\ b.attempts[i].account = a)
  <2> SUFFICES ASSUME NEW i \in 1 .. n + 1
               PROVE  i \in 1 .. n \/ (S[i].outcome = "selected" /\ S[i].account = a)
    BY <1>1, <1>3, <1>5
  <2>1. i \in 1 .. n \/ i = n + 1
    BY <1>1
  <2> QED BY <1>3, <2>1 DEF new
<1>10. n + 1 \in DOMAIN b.attempts /\ b.attempts[n + 1].account = a
  BY <1>1, <1>3, <1>5 DEF new
<1>11. Tried(b) = Tried(audit) \cup {a}
  BY <1>8, <1>9, <1>10 DEF Tried
<1> QED BY <1>6, <1>7, <1>8, <1>9, <1>11 DEF b

\* Settling revises the outcome of the pending attempt and nothing else of the attempts.
LEMMA SettledFacts ==
  ASSUME NEW audit \in Audit, Pending(audit),
         NEW outcome \in {"failed", "succeeded", "uncertain"}, NEW c \in Contexts \cup {None}
  PROVE  /\ Settled(audit, outcome, c) \in Audit
         /\ Settled(audit, outcome, c).replacement = c
         /\ ~Pending(Settled(audit, outcome, c))
         /\ Tried(Settled(audit, outcome, c)) = Tried(audit)
         /\ DOMAIN Settled(audit, outcome, c).attempts = DOMAIN audit.attempts
         /\ Settled(audit, outcome, c).state = "active" => outcome = "failed"
         /\ Settled(audit, outcome, c).state = "succeeded" <=> outcome = "succeeded"
         /\ \A i \in DOMAIN audit.attempts :
              /\ Settled(audit, outcome, c).attempts[i].account = audit.attempts[i].account
              /\ \/ Settled(audit, outcome, c).attempts[i] = audit.attempts[i]
                 \/ /\ audit.attempts[i].outcome = "selected"
                    /\ Settled(audit, outcome, c).attempts[i].outcome = outcome
<1> DEFINE n == Len(audit.attempts)
           b == Settled(audit, outcome, c)
           S == [audit.attempts EXCEPT ![n].outcome = outcome]
           state == CASE outcome = "succeeded" -> "succeeded"
                      [] outcome = "uncertain" -> "uncertain"
                      [] OTHER -> IF n >= Ceiling THEN "stopped" ELSE "active"
<1>1. /\ audit \in AuditRecord
      /\ audit.attempts \in Seq(Attempt) /\ n \in Nat /\ n <= Ceiling
      /\ DOMAIN audit.attempts = 1 .. n
      /\ audit.attempts \in [1 .. n -> Attempt]
  BY AuditType, LenProperties DEF AuditRecord
<1>2. n \in 1 .. n /\ audit.attempts[n].outcome = "selected"
  <2>1. n # 0
    BY <1>1, EmptySeq DEF Pending
  <2> QED BY <1>1, <2>1 DEF Pending, Latest
<1>3. /\ S \in [1 .. n -> Attempt]
      /\ S[n].outcome = outcome /\ S[n].account = audit.attempts[n].account
      /\ \A i \in 1 .. n : i # n => S[i] = audit.attempts[i]
  BY <1>1, <1>2 DEF Attempt
<1> HIDE DEF S
<1>4. S \in Seq(Attempt) /\ Len(S) = n
  <2>1. PICK m \in Nat : m = n
    BY <1>1
  <2>2. S \in [1 .. m -> Attempt]
    BY <1>3, <2>1
  <2>3. S \in Seq(Attempt)
    BY <2>2
  <2> QED BY <2>1, <2>2, <2>3, LenProperties
<1>5. b = [state |-> state, attempts |-> S, replacement |-> c]
  <2>1. b = [audit EXCEPT !.attempts[n].outcome = outcome, !.replacement = c, !.state = state]
    BY Zenon DEF Settled
  <2> HIDE DEF state, n
  <2>2. S = [audit.attempts EXCEPT ![n].outcome = outcome]
    BY DEF S
  <2> QED BY <1>1, <2>1, <2>2 DEF AuditRecord
<1> HIDE DEF b, state
<1>6. /\ b.state = state /\ b.attempts = S /\ b.replacement = c
      /\ b = [state |-> b.state, attempts |-> b.attempts, replacement |-> b.replacement]
  BY <1>5
<1>7. /\ state \in {"active", "succeeded", "stopped", "uncertain"}
      /\ state = "active" => outcome = "failed"
      /\ state = "succeeded" <=> outcome = "succeeded"
  BY DEF state
<1>8. b \in Audit
  BY <1>1, <1>4, <1>6, <1>7, AuditType DEF AuditRecord
<1>9. ~Pending(b)
  BY <1>3, <1>4, <1>6 DEF Pending, Latest
<1>10. DOMAIN b.attempts = DOMAIN audit.attempts
  BY <1>1, <1>3, <1>6
<1>11. \A i \in DOMAIN audit.attempts :
         /\ b.attempts[i].account = audit.attempts[i].account
         /\ \/ b.attempts[i] = audit.attempts[i]
            \/ audit.attempts[i].outcome = "selected" /\ b.attempts[i].outcome = outcome
  BY <1>1, <1>2, <1>3, <1>6
<1>12. Tried(b) = Tried(audit)
  BY <1>10, <1>11 DEF Tried
<1> QED BY <1>6, <1>7, <1>8, <1>9, <1>10, <1>11, <1>12 DEF b

\* An audit ended for want of an account keeps its attempts.
LEMMA EndedFacts ==
  ASSUME NEW audit \in Audit
  PROVE  /\ [audit EXCEPT !.state = "stopped"] \in Audit
         /\ [audit EXCEPT !.state = "stopped"].attempts = audit.attempts
         /\ [audit EXCEPT !.state = "stopped"].state = "stopped"
         /\ Tried([audit EXCEPT !.state = "stopped"]) = Tried(audit)
<1> DEFINE b == [audit EXCEPT !.state = "stopped"]
<1>1. /\ audit \in AuditRecord
      /\ audit.attempts \in Seq(Attempt) /\ Len(audit.attempts) <= Ceiling
      /\ audit.replacement \in Contexts \cup {None}
  BY AuditType DEF AuditRecord
<1>2. b = [state |-> "stopped", attempts |-> audit.attempts, replacement |-> audit.replacement]
  BY <1>1 DEF AuditRecord
<1> HIDE DEF b
<1>3. /\ b.state = "stopped" /\ b.attempts = audit.attempts /\ b.replacement = audit.replacement
      /\ b = [state |-> b.state, attempts |-> b.attempts, replacement |-> b.replacement]
  BY <1>2
<1>4. b \in Audit
  BY <1>1, <1>3, AuditType DEF AuditRecord
<1> QED BY <1>3, <1>4 DEF b, Tried

-----------------------------------------------------------------------------
(* The inductive invariant.                                                 *)

\* A recovery that holds a copy of the two ledgers, and one whose selection is on
\* disk: it is the driver of the audit until it settled the attempt or gave up.
Driving == {"switching", "reading", "settling", "stopping", "closing", "launching", "readying",
            "dispatching", "injecting", "saving", "succeeding", "failing"}
Copying == {"checking", "selecting"} \cup Driving

\* Before the driver binds the dispatch; while the terminal is the first one; once
\* the first context is stopped; and once the first terminal is dead.
Unbinding == Driving \ {"succeeding", "failing"}
Approaching == {"selecting", "switching", "reading", "settling", "stopping", "closing"}
Replacing == {"launching", "readying", "dispatching", "injecting", "saving", "succeeding"}
Prompting == {"injecting", "orphan", "saving", "succeeding"}

Open(audit) == audit.state = "active" /\ ~Pending(audit)

NoneAlive == \A t \in Terminals : ~Alive(t)

\* A copy is of an earlier revision, or of this one.  A dispatch that was bound
\* to a replacement was not open to another recovery when it was copied.
Copied(x) ==
  x.phase \in Copying =>
    /\ x.capacity.revision <= capacity.revision
    /\ x.capacity.revision = capacity.revision => x.capacity.audit = capacity.audit
    /\ x.work.revision <= work.revision
    /\ x.work.revision = work.revision => x.work = work
    /\ x.work.bound # Ctx0 => ~Open(x.capacity.audit)

\* A recovery that may select was found eligible on its copy: it is about the
\* first context, in the first terminal.
Eligibly(x) ==
  /\ x.phase \in {"selecting"} \cup Driving => x.work.state = "running" /\ x.work.bound = Ctx0
  /\ x.phase = "selecting" => Open(x.capacity.audit)
  /\ x.phase \in Approaching => x.terminal = Term0

\* The driver's selection is the pending one, and what it did so far is so.
Driven(x) ==
  /\ x.phase \in Driving => Pending(capacity.audit) /\ x.capacity.audit = capacity.audit
  /\ x.phase \in Unbinding => work.bound = Ctx0
  /\ x.phase = "switching" => switched[Latest(capacity.audit).account] = 0
  /\ x.phase = "settling" => x.answer \in {"failed", "uncertain"}
  /\ x.phase \in {"closing"} \cup Replacing => runtime.ctx[Ctx0].status = "stopped"
  /\ x.phase \in Replacing => agents[Term0] = "dead"
  /\ x.phase = "launching" => NoneAlive /\ work.state # "cancelled"
  /\ x.phase \in Prompting => x.context \in Contexts \ {Ctx0}
  /\ x.phase = "succeeding" => work.bound = x.context

FlowsFine == \A r \in Recoveries : Copied(flow[r]) /\ Eligibly(flow[r]) /\ Driven(flow[r])

SoleDriver ==
  \A q, r \in Recoveries : flow[q].phase \in Driving /\ flow[r].phase \in Driving => q = r

\* A dispatch bound to a replacement is open to no further recovery.
BoundOnce == work.bound # Ctx0 => ~Open(capacity.audit)

\* An open audit has only failed attempts, but for the selected one; whoever was
\* asked for is on it.
AuditOpen ==
  capacity.audit.state = "active" =>
    \A i \in DOMAIN capacity.audit.attempts :
      capacity.audit.attempts[i].outcome \in {"selected", "failed"}

AskedIsTried == \A a \in Accounts : switched[a] # 0 => a \in Tried(capacity.audit)

\* The first context is the first terminal's, and no context was given to a
\* terminal that never ran an agent.
Seated ==
  /\ runtime.ctx[Ctx0].status # "unused" /\ runtime.ctx[Ctx0].worker = Term0
  /\ \A c \in Contexts : runtime.ctx[c].status # "unused" =>
       runtime.ctx[c].worker \in Terminals /\ agents[runtime.ctx[c].worker] # "unused"

OneAlive == \A s, t \in Terminals : Alive(s) /\ Alive(t) => s = t

CancelledIsDead == work.state = "cancelled" => NoneAlive

\* The inductive invariant.
FailoverInv ==
  /\ O!RuntimeInv
  /\ FailoverTypeOK
  /\ FlowsFine
  /\ SoleDriver
  /\ BoundOnce
  /\ AuditOpen
  /\ AskedIsTried
  /\ Seated
  /\ OneAlive
  /\ CancelledIsDead
  /\ SuccessIsBound

-----------------------------------------------------------------------------
(* What a step must respect.                                                *)

\* The records of the recoveries.
FlowSet ==
  [phase : Phases, capacity : Capacity, work : Work, terminal : Terminals,
   context : Contexts \cup {None},
   answer : {"none", "returned", "threw", "applied", "failed", "uncertain"},
   response : Accounts]

\* No revision is used for two contents, and nothing that is stopped or dead is
\* revived.
Onward ==
  /\ capacity'.revision >= capacity.revision
  /\ capacity'.revision = capacity.revision => capacity'.audit = capacity.audit
  /\ work'.revision >= work.revision
  /\ work'.revision = work.revision => work' = work
  /\ ContextsKept
  /\ agents[Term0] = "dead" => agents'[Term0] = "dead"

\* What the driver relies on.
Undisturbed ==
  /\ capacity'.audit = capacity.audit
  /\ work'.bound = work.bound
  /\ switched' = switched
  /\ NoneAlive => NoneAlive'
  /\ NoneAlive /\ work.state # "cancelled" => work'.state # "cancelled"

\* A step that neither moves the audit or the binding, nor launches or claims.
Calm ==
  /\ Onward
  /\ capacity'.audit = capacity.audit
  /\ work'.bound = work.bound
  /\ switched' = switched
  /\ NoneNew
  /\ \A t \in Terminals :
       /\ agents'[t] = "unused" => agents[t] = "unused"
       /\ Alive(t)' => Alive(t)
  /\ work'.state = "cancelled" => work.state = "cancelled" \/ (~NoneAlive /\ NoneAlive')

\* What the invariant says of one recovery.
Fine(x) == Copied(x) /\ Eligibly(x) /\ Driven(x)

\* What is known of each variable.
LEMMA Fields ==
  ASSUME FailoverInv
  PROVE  /\ capacity \in Capacity /\ work \in Work
         /\ agents \in [Terminals -> {"unused", "idle", "working", "halted", "dead"}]
         /\ session \in Terminals /\ active \in Accounts /\ free \subseteq Accounts
         /\ switched \in [Accounts -> Nat]
         /\ flow \in [Recoveries -> FlowSet]
         /\ stopping \in [phase : {"new", "proving", "closing", "over"}, revision : Nat,
                          terminal : Terminals]
         /\ faults \in 0 .. MaxFaults
         /\ capacity.audit \in Audit
         /\ runtime.ctx \in [Contexts -> O!Context]
         /\ \A r \in Recoveries : Fine(flow[r])
<1>1. runtime.ctx \in [Contexts -> O!Context]
  BY O!RuntimeFields, RuntimeAssumed DEF O!RuntimeInv, FailoverInv
<1>2. capacity \in Capacity
  BY DEF FailoverInv, FailoverTypeOK
<1>3. \A r \in Recoveries : Fine(flow[r])
  BY DEF FailoverInv, FlowsFine, Fine
<1>4. capacity.audit \in Audit
  BY <1>2 DEF Capacity
<1> QED BY <1>1, <1>2, <1>3, <1>4 DEF FailoverInv, FailoverTypeOK, FlowSet

\* A copy stays one of an earlier revision, or of this one.
LEMMA CopiedKept ==
  ASSUME FailoverInv, FailoverTypeOK', Onward, NEW q \in Recoveries,
         flow'[q].capacity = flow[q].capacity, flow'[q].work = flow[q].work,
         flow'[q].phase \in Copying => flow[q].phase \in Copying
  PROVE  Copied(flow[q])'
<1>0. /\ Copied(flow[q])
      /\ capacity.revision \in Nat /\ capacity'.revision \in Nat
      /\ work.revision \in Nat /\ work'.revision \in Nat
      /\ flow[q].capacity.revision \in Nat /\ flow[q].work.revision \in Nat
  <2>1. flow[q] \in FlowSet /\ capacity \in Capacity /\ work \in Work /\ Fine(flow[q])
    BY Fields
  <2>2. flow[q].capacity \in Capacity /\ flow[q].work \in Work
    BY <2>1 DEF FlowSet
  <2>3. capacity' \in Capacity /\ work' \in Work
    BY DEF FailoverTypeOK
  <2> QED BY <2>1, <2>2, <2>3 DEF Fine, Capacity, Work
<1>1. PICK n \in Nat : n = capacity.revision
  BY <1>0
<1>2. PICK n2 \in Nat : n2 = capacity'.revision
  BY <1>0
<1>3. PICK m \in Nat : m = flow[q].capacity.revision
  BY <1>0
<1>4. PICK k \in Nat : k = work.revision
  BY <1>0
<1>5. PICK k2 \in Nat : k2 = work'.revision
  BY <1>0
<1>6. PICK l \in Nat : l = flow[q].work.revision
  BY <1>0
<1>7. /\ n2 >= n /\ (n2 = n => capacity'.audit = capacity.audit)
      /\ k2 >= k /\ (k2 = k => work' = work)
  BY <1>1, <1>2, <1>4, <1>5 DEF Onward
<1> SUFFICES ASSUME flow'[q].phase \in Copying
             PROVE  /\ m <= n2
                    /\ m = n2 => flow[q].capacity.audit = capacity'.audit
                    /\ l <= k2
                    /\ l = k2 => flow[q].work = work'
                    /\ flow[q].work.bound # Ctx0 => ~Open(flow[q].capacity.audit)
  BY <1>2, <1>3, <1>5, <1>6 DEF Copied
<1>8. /\ m <= n /\ (m = n => flow[q].capacity.audit = capacity.audit)
      /\ l <= k /\ (l = k => flow[q].work = work)
      /\ flow[q].work.bound # Ctx0 => ~Open(flow[q].capacity.audit)
  BY <1>0, <1>1, <1>3, <1>4, <1>6 DEF Copied
<1>9. m <= n2 /\ (m = n2 => m = n /\ n2 = n)
  BY <1>7, <1>8
<1>10. l <= k2 /\ (l = k2 => l = k /\ k2 = k)
  BY <1>7, <1>8
<1> QED BY <1>7, <1>8, <1>9, <1>10

\* A recovery that the step is not about stays fine.
LEMMA OthersKept ==
  ASSUME FailoverInv, FailoverTypeOK', Onward, NEW q \in Recoveries, flow'[q] = flow[q],
         flow[q].phase \in Driving => Undisturbed
  PROVE  Fine(flow[q])'
<1>0. Copied(flow[q]) /\ Eligibly(flow[q]) /\ Driven(flow[q])
  BY Fields DEF Fine
<1>1. Copied(flow[q])'
  BY CopiedKept
<1>2. Eligibly(flow[q])'
  BY <1>0 DEF Eligibly
<1>3. Driven(flow[q])'
  <2>1. Ctx0 \in Contexts /\ runtime.ctx[Ctx0].status # "unused"
    BY FailoverAssumption DEF FailoverInv, Seated
  <2>2. runtime.ctx[Ctx0].status = "stopped" => runtime'.ctx[Ctx0].status = "stopped"
    BY <2>1 DEF Onward, ContextsKept
  <2>3. agents[Term0] = "dead" => agents'[Term0] = "dead"
    BY DEF Onward
  <2>4. CASE flow[q].phase \in Driving
    BY <1>0, <2>2, <2>3, <2>4 DEF Driven, Undisturbed, Unbinding, Replacing, Prompting, Driving
  <2>5. CASE flow[q].phase \notin Driving
    BY <1>0, <2>5 DEF Driven, Unbinding, Replacing, Prompting, Driving
  <2> QED BY <2>4, <2>5
<1> QED BY <1>1, <1>2, <1>3 DEF Fine

\* What a calm step leaves as it was.
LEMMA CalmKept ==
  ASSUME FailoverInv, O!RuntimeInv', FailoverTypeOK', Calm
  PROVE  /\ BoundOnce' /\ AuditOpen' /\ AskedIsTried' /\ Seated'
         /\ OneAlive' /\ CancelledIsDead' /\ SuccessIsBound'
         /\ Undisturbed
<1> DEFINE audit == capacity.audit
<1>1. capacity'.audit = capacity.audit /\ work'.bound = work.bound /\ switched' = switched
  BY DEF Calm
<1>2. BoundOnce' /\ AuditOpen' /\ AskedIsTried'
  BY <1>1 DEF FailoverInv, BoundOnce, AuditOpen, AskedIsTried
<1>3. Ctx0 \in Contexts /\ Term0 \in Terminals
  BY FailoverAssumption
<1>4. Seated'
  BY <1>3 DEF FailoverInv, Seated, Calm, Onward, ContextsKept, NoneNew
<1>5. OneAlive'
  BY DEF FailoverInv, OneAlive, Calm
<1>6. NoneAlive => NoneAlive'
  BY DEF NoneAlive, Calm
<1>7. CancelledIsDead'
  BY <1>6 DEF FailoverInv, CancelledIsDead, Calm
<1>8. SuccessIsBound'
  BY <1>1, <1>3 DEF FailoverInv, SuccessIsBound, Calm, Onward, ContextsKept, Seated
<1>9. Undisturbed
  BY <1>1, <1>6 DEF Undisturbed, Calm
<1> QED BY <1>2, <1>4, <1>5, <1>7, <1>8, <1>9

\* A calm step that no recovery takes.
LEMMA CalmAround ==
  ASSUME FailoverInv, O!RuntimeInv', FailoverTypeOK', Calm, flow' = flow
  PROVE  FailoverInv'
<1>1. \A q \in Recoveries : Fine(flow[q])'
  BY CalmKept, OthersKept DEF Calm
<1>2. FlowsFine' /\ SoleDriver'
  BY <1>1 DEF FlowsFine, Fine, FailoverInv, SoleDriver
<1> QED BY <1>2, CalmKept DEF FailoverInv

\* Nobody else takes a step.
Alone(r) == \A q \in Recoveries \ {r} : flow'[q] = flow[q]

\* A step of recovery r: it is the sole driver before and after.
LEMMA FlowsKept ==
  ASSUME FailoverInv, FailoverTypeOK', Onward, NEW r \in Recoveries, Alone(r), Fine(flow[r])',
         flow'[r].phase \in Driving =>
           flow[r].phase \in Driving \/ \A q \in Recoveries : flow[q].phase \notin Driving,
         \A q \in Recoveries \ {r} : flow[q].phase \in Driving => Undisturbed
  PROVE  FlowsFine' /\ SoleDriver'
<1>1. \A q \in Recoveries \ {r} : Fine(flow[q])'
  BY OthersKept DEF Alone
<1>2. SoleDriver'
  BY DEF FailoverInv, SoleDriver, Alone
<1> QED BY <1>1, <1>2 DEF FlowsFine, Fine

\* A calm step of recovery r.
LEMMA CalmStep ==
  ASSUME FailoverInv, O!RuntimeInv', FailoverTypeOK', Calm, NEW r \in Recoveries,
         Alone(r), Fine(flow[r])', flow'[r].phase \in Driving => flow[r].phase \in Driving
  PROVE  FailoverInv'
<1>1. FlowsFine' /\ SoleDriver'
  BY CalmKept, FlowsKept DEF Calm
<1> QED BY <1>1, CalmKept DEF FailoverInv
-----------------------------------------------------------------------------
(* The steps around the recoveries.                                         *)

\* The type of the whole, part by part.
LEMMA TypeFrom ==
  ASSUME O!RuntimeInv',
         capacity' \in Capacity, work' \in Work,
         agents' \in [Terminals -> {"unused", "idle", "working", "halted", "dead"}],
         session' \in Terminals, active' \in Accounts, free' \subseteq Accounts,
         switched' \in [Accounts -> Nat], flow' \in [Recoveries -> FlowSet],
         stopping' \in [phase : {"new", "proving", "closing", "over"}, revision : Nat,
                        terminal : Terminals],
         faults' \in 0 .. MaxFaults
  PROVE  FailoverTypeOK'
<1>1. Orca!RuntimeTypeOK'
  BY SameRuntime, PTL DEF O!RuntimeInv
<1> QED BY <1>1 DEF FailoverTypeOK, FlowSet

\* One more fault is still within the bound.
LEMMA DisturbType ==
  ASSUME FailoverInv, Disturb
  PROVE  faults' \in 0 .. MaxFaults
  BY Fields, FailoverAssumption DEF Disturb

\* A refreshed capacity ledger is the next one, with the same audit.
LEMMA RefreshedFacts ==
  ASSUME FailoverInv,
         capacity' = [capacity EXCEPT !.revision = @ + 1, !.active = active, !.free = free]
  PROVE  /\ capacity' \in Capacity /\ capacity'.audit = capacity.audit
         /\ capacity'.revision = capacity.revision + 1 /\ capacity.revision \in Nat
         /\ capacity'.revision >= capacity.revision /\ capacity'.revision # capacity.revision
<1>1. capacity \in Capacity /\ active \in Accounts /\ free \subseteq Accounts
  BY Fields
<1>2. PICK n \in Nat : n = capacity.revision
  BY <1>1 DEF Capacity
<1>3. capacity' = [revision |-> n + 1, active |-> active, free |-> free, audit |-> capacity.audit]
  BY <1>1, <1>2 DEF Capacity
<1>4. capacity' \in Capacity
  BY <1>1, <1>2, <1>3 DEF Capacity
<1> QED BY <1>2, <1>3, <1>4

\* The next dispatch in the work ledger.
LEMMA WorkFacts ==
  ASSUME FailoverInv, NEW stop, NEW state, NEW bound,
         work' = [revision |-> work.revision + 1, state |-> state, stop |-> stop, bound |-> bound],
         stop \in {"none", "requested", "stopped", "uncertain", "completed"},
         state \in {"running", "reported", "cancelled"}, bound \in Contexts
  PROVE  /\ work' \in Work /\ work'.bound = bound /\ work'.state = state
         /\ work.revision \in Nat /\ work'.revision = work.revision + 1
         /\ work'.revision >= work.revision /\ work'.revision # work.revision
<1>1. work \in Work
  BY Fields
<1>2. PICK n \in Nat : n = work.revision
  BY <1>1 DEF Work
<1>3. work' = [revision |-> n + 1, state |-> state, stop |-> stop, bound |-> bound]
  BY <1>2
<1>4. work' \in Work
  BY <1>2, <1>3 DEF Work
<1> QED BY <1>2, <1>3, <1>4

\* What SaveStop may do to the dispatch and to the stop.
LEMMA SaveStopFacts ==
  ASSUME FailoverInv, NEW state \in {"stopped", "uncertain", "completed"},
         NEW phase \in {"closing", "over"}, SaveStop(state, phase)
  PROVE  /\ work' \in Work /\ work'.bound = work.bound
         /\ work'.revision >= work.revision /\ (work'.revision = work.revision => work' = work)
         /\ work'.state = "cancelled" => work.state = "cancelled" \/ state = "completed"
         /\ stopping' \in [phase : {"new", "proving", "closing", "over"}, revision : Nat,
                           terminal : Terminals]
<1> DEFINE next == IF state = "completed" THEN "cancelled" ELSE work.state
<1>1. /\ work \in Work
      /\ stopping \in [phase : {"new", "proving", "closing", "over"}, revision : Nat,
                       terminal : Terminals]
  BY Fields
<1>2. CASE stopping.revision = work.revision
  <2>1. /\ work' = [work EXCEPT !.revision = @ + 1, !.stop = state, !.state = next]
        /\ stopping' = [stopping EXCEPT !.phase = phase, !.revision = @ + 1]
    BY <1>2 DEF SaveStop
  <2>2. work.bound \in Contexts /\ next \in {"running", "reported", "cancelled"}
    BY <1>1 DEF Work
  <2> HIDE DEF next
  <2>3. work' = [revision |-> work.revision + 1, state |-> next, stop |-> state, bound |-> work.bound]
    BY <1>1, <2>1 DEF Work
  <2>4. PICK m \in Nat : m = stopping.revision
    BY <1>1
  <2>5. stopping' = [phase |-> phase, revision |-> m + 1, terminal |-> stopping.terminal]
    BY <1>1, <2>1, <2>4
  <2>6. stopping' \in [phase : {"new", "proving", "closing", "over"}, revision : Nat,
                       terminal : Terminals]
    BY <1>1, <2>4, <2>5
  <2> QED BY <2>2, <2>3, <2>6, WorkFacts DEF next
<1>3. CASE stopping.revision # work.revision
  <2>1. work' = work /\ stopping' = [stopping EXCEPT !.phase = "over"]
    BY <1>3 DEF SaveStop
  <2>2. work.revision >= work.revision
    BY <1>1 DEF Work
  <2> QED BY <1>1, <2>1, <2>2
<1> QED BY <1>2, <1>3

\* Ledgers that are left alone.
LEMMA Unmoved ==
  ASSUME FailoverInv
  PROVE  capacity.revision >= capacity.revision /\ work.revision >= work.revision
  BY Fields DEF Work, Capacity

\* What Kill and Spare leave of the agents.
AgentsCalm ==
  /\ agents' \in [Terminals -> {"unused", "idle", "working", "halted", "dead"}]
  /\ \A t \in Terminals :
       /\ agents'[t] = "unused" => agents[t] = "unused"
       /\ agents[t] = "dead" => agents'[t] = "dead"
       /\ Alive(t)' => Alive(t)

\* Whoever kills an agent kills the only one.
LEMMA KillFacts ==
  ASSUME FailoverInv, NEW t \in Terminals, Kill(t)
  PROVE  AgentsCalm /\ ~NoneAlive /\ NoneAlive' /\ agents'[t] = "dead"
<1>1. AgentsCalm /\ agents'[t] = "dead" /\ ~NoneAlive
  BY Fields DEF Kill, Alive, AgentsCalm, NoneAlive
<1>2. NoneAlive'
  BY Fields DEF Kill, Alive, NoneAlive, FailoverInv, OneAlive
<1> QED BY <1>1, <1>2

\* Agents that are left alone.
LEMMA AgentsUnchanged ==
  ASSUME FailoverInv, agents' = agents
  PROVE  AgentsCalm
  BY Fields DEF AgentsCalm, Alive

\* A step that keeps the audit, the binding and the agents as described is calm.
LEMMA CalmFrom ==
  ASSUME FailoverInv, ContextsKept, NoneNew, AgentsCalm, switched' = switched,
         capacity'.audit = capacity.audit, capacity'.revision >= capacity.revision,
         work'.bound = work.bound, work'.revision >= work.revision,
         work'.revision = work.revision => work' = work,
         work'.state = "cancelled" => work.state = "cancelled" \/ (~NoneAlive /\ NoneAlive')
  PROVE  Calm
  BY FailoverAssumption DEF Calm, Onward, AgentsCalm

\* The user asks for a stop.
LEMMA RequestStopKeeps == ASSUME FailoverInv, RequestStop PROVE FailoverInv'
<1>1. Transaction /\ agents' = agents /\ capacity' = capacity /\ switched' = switched
  BY DEF RequestStop, Transaction
<1>2. /\ work' \in Work /\ work'.bound = work.bound /\ work'.revision = work.revision + 1
      /\ work.revision \in Nat /\ work'.state = work.state
      /\ stopping' \in [phase : {"new", "proving", "closing", "over"}, revision : Nat,
                        terminal : Terminals]
  <2>1. work \in Work /\ session \in Terminals
    BY Fields
  <2>2. /\ work' = [revision |-> work.revision + 1, state |-> work.state,
                     stop |-> "requested", bound |-> work.bound]
        /\ work.state \in {"running", "reported", "cancelled"} /\ work.bound \in Contexts
    BY <2>1 DEF RequestStop, Work
  <2>3. PICK n \in Nat : n = work.revision
    BY <2>1 DEF Work
  <2>4. stopping' = [phase |-> "proving", revision |-> n + 1, terminal |-> session]
    BY <2>3 DEF RequestStop
  <2>5. stopping' \in [phase : {"new", "proving", "closing", "over"}, revision : Nat,
                       terminal : Terminals]
    BY <2>1, <2>4
  <2> QED BY <2>2, <2>5, WorkFacts
<1>3. O!RuntimeInv' /\ ContextsKept /\ NoneNew
  BY <1>1, TransactionKeeps DEF FailoverInv
<1>4. FailoverTypeOK'
  BY <1>1, <1>2, <1>3, Fields, TypeFrom DEF RequestStop
<1>5. Calm
  <2>1. /\ work'.revision >= work.revision
        /\ work'.revision # work.revision
    BY <1>2
  <2> QED BY <1>1, <1>2, <1>3, <2>1, Unmoved, AgentsUnchanged, CalmFrom
<1> QED BY <1>3, <1>4, <1>5, CalmAround DEF RequestStop

\* The stop proves the context, and saves what it proved.
LEMMA ProveStopKeeps == ASSUME FailoverInv, ProveStop PROVE FailoverInv'
<1>1. Transaction /\ agents' = agents /\ capacity' = capacity /\ switched' = switched
  <2>1. work.bound \in Contexts
    BY Fields DEF Work
  <2> QED BY <2>1 DEF ProveStop, Transaction
<1>2. PICK state \in {"stopped", "uncertain"}, phase \in {"closing", "over"} : SaveStop(state, phase)
  BY DEF ProveStop
<1>3. O!RuntimeInv' /\ ContextsKept /\ NoneNew
  BY <1>1, TransactionKeeps DEF FailoverInv
<1>4. /\ work' \in Work /\ work'.bound = work.bound
      /\ work'.revision >= work.revision /\ (work'.revision = work.revision => work' = work)
      /\ work'.state = "cancelled" => work.state = "cancelled"
      /\ stopping' \in [phase : {"new", "proving", "closing", "over"}, revision : Nat,
                        terminal : Terminals]
  BY <1>2, SaveStopFacts
<1>5. faults' \in 0 .. MaxFaults
  BY Fields, DisturbType DEF ProveStop
<1>6. FailoverTypeOK'
  BY <1>1, <1>3, <1>4, <1>5, Fields, TypeFrom DEF ProveStop
<1>7. Calm
  BY <1>1, <1>3, <1>4, Unmoved, AgentsUnchanged, CalmFrom
<1> QED BY <1>3, <1>6, <1>7, CalmAround DEF ProveStop

\* The stop closes the terminal, and saves what it proved.
LEMMA CloseStopKeeps == ASSUME FailoverInv, CloseStop PROVE FailoverInv'
<1>1. /\ Transaction /\ capacity' = capacity /\ switched' = switched
      /\ stopping.terminal \in Terminals
  BY Fields DEF CloseStop, Transaction
<1>2. O!RuntimeInv' /\ ContextsKept /\ NoneNew
  BY <1>1, TransactionKeeps DEF FailoverInv
<1>3. PICK state \in {"uncertain", "completed"} :
        /\ SaveStop(state, "over")
        /\ Kill(stopping.terminal) \/ Spare(stopping.terminal)
        /\ state = "completed" => Kill(stopping.terminal)
  BY DEF CloseStop, Proven
<1>4. /\ work' \in Work /\ work'.bound = work.bound
      /\ work'.revision >= work.revision /\ (work'.revision = work.revision => work' = work)
      /\ work'.state = "cancelled" => work.state = "cancelled" \/ state = "completed"
      /\ stopping' \in [phase : {"new", "proving", "closing", "over"}, revision : Nat,
                        terminal : Terminals]
  BY <1>3, SaveStopFacts
<1>5. faults' \in 0 .. MaxFaults
  BY Fields, DisturbType DEF CloseStop
<1>6. AgentsCalm /\ (state = "completed" => ~NoneAlive /\ NoneAlive')
  BY <1>1, <1>3, KillFacts, AgentsUnchanged DEF Spare
<1>7. FailoverTypeOK'
  BY <1>1, <1>2, <1>4, <1>5, <1>6, Fields, TypeFrom DEF CloseStop, AgentsCalm
<1>8. Calm
  BY <1>1, <1>2, <1>4, <1>6, Unmoved, CalmFrom
<1> QED BY <1>2, <1>7, <1>8, CalmAround DEF CloseStop

\* The agents, the accounts and the runtime change, the ledgers do not.
LEMMA QuietKeeps ==
  ASSUME FailoverInv, Transaction, AgentsCalm, capacity' = capacity, work' = work,
         session' = session, active' \in Accounts, free' \subseteq Accounts,
         switched' = switched, flow' = flow, stopping' = stopping, faults' \in 0 .. MaxFaults
  PROVE  FailoverInv'
<1>1. O!RuntimeInv' /\ ContextsKept /\ NoneNew
  BY TransactionKeeps DEF FailoverInv
<1>2. FailoverTypeOK'
  BY <1>1, Fields, TypeFrom DEF AgentsCalm
<1>3. Calm
  BY <1>1, Unmoved, CalmFrom
<1> QED BY <1>1, <1>2, <1>3, CalmAround

\* An agent stops at its account's limit.
LEMMA HaltKeeps == ASSUME FailoverInv, NEW t \in Terminals, Halt(t) PROVE FailoverInv'
<1>1. AgentsCalm
  BY Fields DEF Halt, AgentsCalm, Alive
<1>2. Transaction
  BY DEF Halt, Transaction
<1> QED BY <1>1, <1>2, Fields, QuietKeeps DEF Halt

\* The account is used up.
LEMMA UseUpKeeps == ASSUME FailoverInv, UseUp PROVE FailoverInv'
<1>1. Transaction
  BY DEF UseUp, Transaction
<1> QED BY <1>1, Fields, AgentsUnchanged, QuietKeeps DEF UseUp

\* The user chooses another account.
LEMMA UserSelectsKeeps == ASSUME FailoverInv, NEW a \in Accounts, UserSelects(a) PROVE FailoverInv'
<1>1. Transaction /\ faults' \in 0 .. MaxFaults
  BY DisturbType DEF UserSelects, Transaction
<1> QED BY <1>1, Fields, AgentsUnchanged, QuietKeeps DEF UserSelects

\* A worker reports.
LEMMA ReportsKeeps ==
  ASSUME FailoverInv, NEW c \in Contexts, NEW outcome \in {"succeeded", "failed"}, Reports(c, outcome)
  PROVE  FailoverInv'
<1>1. Transaction
  BY DEF Reports, Transaction
<1> QED BY <1>1, Fields, AgentsUnchanged, QuietKeeps DEF Reports

\* The exit of an agent fails its context.
LEMMA ExitsKeeps == ASSUME FailoverInv, NEW c \in Contexts, Exits(c) PROVE FailoverInv'
<1>1. Transaction
  BY DEF Exits, Transaction
<1> QED BY <1>1, Fields, AgentsUnchanged, QuietKeeps DEF Exits

\* The task's status is pushed.
LEMMA PushStatusKeeps == ASSUME FailoverInv, PushStatus PROVE FailoverInv'
<1>1. Transaction /\ faults' \in 0 .. MaxFaults
  BY DisturbType DEF PushStatus, Transaction
<1> QED BY <1>1, Fields, AgentsUnchanged, QuietKeeps DEF PushStatus

\* The capacity page is refreshed.
LEMMA RefreshKeeps == ASSUME FailoverInv, Refresh PROVE FailoverInv'
<1>1. Transaction /\ faults' \in 0 .. MaxFaults
  BY DisturbType DEF Refresh, Transaction
<1>2. O!RuntimeInv' /\ ContextsKept /\ NoneNew
  BY <1>1, TransactionKeeps DEF FailoverInv
<1>3. capacity' \in Capacity /\ capacity'.audit = capacity.audit /\ capacity'.revision >= capacity.revision
  BY RefreshedFacts DEF Refresh
<1>4. FailoverTypeOK'
  BY <1>1, <1>2, <1>3, Fields, TypeFrom DEF Refresh
<1>5. Calm
  BY <1>2, <1>3, Unmoved, AgentsUnchanged, CalmFrom DEF Refresh
<1> QED BY <1>2, <1>4, <1>5, CalmAround DEF Refresh

\* Another flow saves the work ledger.
LEMMA SavesWorkKeeps ==
  ASSUME FailoverInv, NEW state \in {"running", "reported", "cancelled"},
         work' = [work EXCEPT !.revision = @ + 1, !.state = state],
         state = "cancelled" => work.state = "cancelled",
         UNCHANGED <<capacity, runtime, agents, session, active, free, switched, flow, stopping>>,
         faults' \in 0 .. MaxFaults
  PROVE  FailoverInv'
<1>1. Transaction
  BY DEF Transaction
<1>2. O!RuntimeInv' /\ ContextsKept /\ NoneNew
  BY <1>1, TransactionKeeps DEF FailoverInv
<1>3. PICK stop, bound : stop = work.stop /\ bound = work.bound
  OBVIOUS
<1>4. /\ work' = [revision |-> work.revision + 1, state |-> state, stop |-> stop, bound |-> bound]
      /\ stop \in {"none", "requested", "stopped", "uncertain", "completed"}
      /\ bound \in Contexts
  BY <1>3, Fields DEF Work
<1>5. /\ work' \in Work /\ work'.bound = bound /\ work'.state = state
      /\ work'.revision >= work.revision /\ work'.revision # work.revision
  <2>1. state \in {"running", "reported", "cancelled"}
    OBVIOUS
  <2>2. FailoverInv
    OBVIOUS
  <2> QED BY ONLY <1>4, <2>1, <2>2, WorkFacts
<1>6. FailoverTypeOK'
  BY <1>2, <1>5, Fields, TypeFrom
<1>7. Calm
  BY <1>2, <1>3, <1>5, Unmoved, AgentsUnchanged, CalmFrom
<1> QED BY <1>2, <1>6, <1>7, CalmAround

\* The sync applies a report.
LEMMA SyncReportKeeps == ASSUME FailoverInv, SyncReport PROVE FailoverInv'
<1>1. work' = [work EXCEPT !.revision = @ + 1, !.state = "reported"]
  BY DEF SyncReport
<1> QED BY <1>1, Fields, SavesWorkKeeps DEF SyncReport

\* Any other save.
LEMMA OtherSaveKeeps == ASSUME FailoverInv, OtherSave PROVE FailoverInv'
<1>1. PICK state : state = work.state
  OBVIOUS
<1>2. /\ work' = [work EXCEPT !.revision = @ + 1, !.state = state]
      /\ state \in {"running", "reported", "cancelled"}
  BY <1>1, Fields DEF OtherSave, Work
<1>3. faults' \in 0 .. MaxFaults
  BY DisturbType DEF OtherSave
<1> QED BY <1>1, <1>2, <1>3, SavesWorkKeeps DEF OtherSave

-----------------------------------------------------------------------------
(* The steps of a recovery.                                                 *)

\* The record of a recovery after Go.
LEMMA GoFacts ==
  ASSUME FailoverInv, NEW r \in Recoveries, NEW x \in FlowSet, Go(r, x)
  PROVE  flow' \in [Recoveries -> FlowSet] /\ flow'[r] = x /\ Alone(r)
  BY Fields DEF Go, Alone

\* A recovery that is over has nothing to be fine about.
LEMMA OverIsFine ==
  ASSUME NEW r \in Recoveries, flow'[r].phase \in {"new", "over", "failed"}
  PROVE  Fine(flow[r])'
  BY DEF Fine, Copied, Eligibly, Driven, Copying, Driving, Unbinding, Approaching, Replacing,
         Prompting

\* At forgets all of a recovery that is over, and keeps all else of one that is not.
LEMMA AtFacts ==
  ASSUME NEW f \in FlowSet, NEW phase \in Phases
  PROVE  /\ At(f, phase) \in FlowSet /\ At(f, phase).phase = phase
         /\ phase \notin {"over", "failed"} =>
              /\ At(f, phase).capacity = f.capacity /\ At(f, phase).work = f.work
              /\ At(f, phase).terminal = f.terminal /\ At(f, phase).context = f.context
              /\ At(f, phase).answer = f.answer
<1>1. NoAudit \in Audit
  <2>1. /\ <<>> \in Seq(Attempt) /\ Len(<<>>) = 0
    BY EmptySeq
  <2>2. NoAudit \in AuditRecord /\ NoAudit.attempts = <<>>
    BY <2>1 DEF NoAudit, AuditRecord
  <2> QED BY <2>1, <2>2, AuditType, FailoverAssumption
<1>2. Idle \in FlowSet
  <2>1. Idle.capacity \in Capacity
    BY <1>1, FailoverAssumption DEF Idle, Capacity
  <2>2. Idle.work \in Work
    BY FailoverAssumption DEF Idle, Work
  <2> QED BY <2>1, <2>2, FailoverAssumption DEF Idle, FlowSet, Phases
<1>3. CASE phase \in {"over", "failed"}
  <2>1. At(f, phase) = [Idle EXCEPT !.phase = phase]
    BY <1>3 DEF At
  <2> QED BY <1>2, <1>3, <2>1 DEF FlowSet
<1>4. CASE phase \notin {"over", "failed"}
  <2>1. At(f, phase) = [f EXCEPT !.phase = phase]
    BY <1>4 DEF At
  <2> QED BY <1>4, <2>1 DEF FlowSet
<1> QED BY <1>3, <1>4

\* The record of a recovery after To.
LEMMA ToFacts ==
  ASSUME FailoverInv, NEW r \in Recoveries, NEW phase \in Phases, To(r, phase)
  PROVE  /\ flow' \in [Recoveries -> FlowSet] /\ Alone(r) /\ flow'[r].phase = phase
         /\ phase \in {"over", "failed"} => Fine(flow[r])'
         /\ phase \notin {"over", "failed"} =>
              /\ flow'[r].capacity = flow[r].capacity /\ flow'[r].work = flow[r].work
              /\ flow'[r].terminal = flow[r].terminal /\ flow'[r].context = flow[r].context
              /\ flow'[r].answer = flow[r].answer
<1>1. flow[r] \in FlowSet
  BY Fields
<1>2. PICK x : x = At(flow[r], phase)
  OBVIOUS
<1>3. /\ x \in FlowSet /\ x.phase = phase
      /\ phase \notin {"over", "failed"} =>
           /\ x.capacity = flow[r].capacity /\ x.work = flow[r].work
           /\ x.terminal = flow[r].terminal /\ x.context = flow[r].context
           /\ x.answer = flow[r].answer
  BY <1>1, <1>2, AtFacts
<1>4. flow' \in [Recoveries -> FlowSet] /\ flow'[r] = x /\ Alone(r)
  BY <1>2, <1>3, GoFacts DEF To
<1> QED BY <1>3, <1>4, OverIsFine

\* What the invariant says of the driver.
LEMMA DriverFacts ==
  ASSUME FailoverInv, NEW r \in Recoveries, flow[r].phase \in Driving
  PROVE  /\ flow[r] \in FlowSet /\ flow[r].capacity \in Capacity /\ flow[r].work \in Work
         /\ flow[r].capacity.audit = capacity.audit /\ Pending(capacity.audit)
         /\ flow[r].work.bound = Ctx0 /\ flow[r].work.state = "running"
         /\ Fine(flow[r])
         /\ \A q \in Recoveries \ {r} : flow[q].phase \notin Driving
<1>1. flow[r] \in FlowSet /\ Fine(flow[r])
  BY Fields
<1>2. flow[r].capacity \in Capacity /\ flow[r].work \in Work
  BY <1>1 DEF FlowSet
<1>3. \A q \in Recoveries \ {r} : flow[q].phase \notin Driving
  BY DEF FailoverInv, SoleDriver
<1> QED BY <1>1, <1>2, <1>3 DEF Fine, Eligibly, Driven

\* The driver goes on with its copy: what is left to show is about its new phase.
LEMMA DriverGoesOn ==
  ASSUME FailoverInv, FailoverTypeOK', Onward, NEW r \in Recoveries,
         flow[r].phase \in Driving, flow'[r].phase \in Driving,
         flow'[r].capacity = flow[r].capacity, flow'[r].work = flow[r].work,
         capacity'.audit = capacity.audit,
         flow'[r].phase \in Approaching => flow'[r].terminal = Term0
  PROVE  /\ Copied(flow[r])' /\ Eligibly(flow[r])'
         /\ Pending(capacity.audit)' /\ flow'[r].capacity.audit = capacity'.audit
<1>1. Copied(flow[r])'
  BY CopiedKept DEF Copying
<1>2. Pending(capacity'.audit)
  BY DriverFacts
<1>3. Eligibly(flow[r])'
  <2>1. flow'[r].phase # "selecting"
    BY DEF Driving
  <2> QED BY <2>1, DriverFacts DEF Eligibly
<1>4. flow'[r].capacity.audit = capacity'.audit
  BY DriverFacts
<1> QED BY <1>1, <1>2, <1>3, <1>4

\* An error leaves the driver to record its failure.
LEMMA FailingIsFine ==
  ASSUME FailoverInv, FailoverTypeOK', Onward, NEW r \in Recoveries,
         flow[r].phase \in Driving, flow'[r].phase = "failing",
         flow'[r].capacity = flow[r].capacity, flow'[r].work = flow[r].work,
         capacity'.audit = capacity.audit
  PROVE  Fine(flow[r])'
<1>1. flow'[r].phase \in Driving /\ flow'[r].phase \notin Approaching
  BY DEF Driving, Approaching
<1>2. Copied(flow[r])' /\ Eligibly(flow[r])' /\ Pending(capacity.audit)' /\ flow'[r].capacity.audit = capacity'.audit
  BY <1>1, DriverGoesOn
<1>3. Driven(flow[r])'
  BY <1>2 DEF Driven, Unbinding, Replacing, Prompting
<1> QED BY <1>2, <1>3 DEF Fine

\* The page refreshes the capacity ledger and copies both.
LEMMA RecoverKeeps ==
  ASSUME FailoverInv, NEW r \in Recoveries, Recover(r) PROVE FailoverInv'
<1>1. /\ capacity' \in Capacity /\ capacity'.audit = capacity.audit
      /\ capacity'.revision >= capacity.revision /\ capacity'.revision \in Nat
      /\ work \in Work /\ work.revision \in Nat
  BY Fields, RefreshedFacts DEF Recover, Capacity, Work
<1>2. PICK cap \in Capacity, w \in Work : cap = capacity' /\ w = work
  BY <1>1
<1>3. /\ flow' \in [Recoveries -> FlowSet] /\ Alone(r)
      /\ flow'[r].phase = "checking" /\ flow'[r].capacity = cap /\ flow'[r].work = w
  <2>1. PICK x : x = [flow[r] EXCEPT !.phase = "checking", !.capacity = cap, !.work = w]
    OBVIOUS
  <2>2. flow[r] \in FlowSet /\ flow' = [flow EXCEPT ![r] = x]
    BY <1>2, <2>1, Fields DEF Recover, Go
  <2>3. x \in FlowSet /\ x.phase = "checking" /\ x.capacity = cap /\ x.work = w
    BY <1>2, <2>1, <2>2 DEF FlowSet, Phases
  <2>4. Go(r, x)
    BY <2>2 DEF Go
  <2> QED BY <2>3, <2>4, GoFacts
<1>4. Transaction
  BY DEF Recover, Transaction
<1>5. O!RuntimeInv' /\ ContextsKept /\ NoneNew
  BY <1>4, TransactionKeeps DEF FailoverInv
<1>6. FailoverTypeOK'
  BY <1>1, <1>3, <1>5, Fields, TypeFrom DEF Recover
<1>7. Calm
  BY <1>1, <1>5, Unmoved, AgentsUnchanged, CalmFrom DEF Recover
<1>8. Fine(flow[r])'
  <2>1. BoundOnce /\ work' = work
    BY DEF FailoverInv, Recover
  <2>2. Copied(flow[r])'
    BY <1>1, <1>2, <1>3, <2>1 DEF Copied, BoundOnce
  <2>3. Eligibly(flow[r])' /\ Driven(flow[r])'
    BY <1>3 DEF Eligibly, Driven, Driving, Approaching, Unbinding, Replacing, Prompting
  <2> QED BY <2>2, <2>3 DEF Fine
<1>9. flow'[r].phase \notin Driving
  BY <1>3 DEF Driving
<1> QED BY <1>3, <1>5, <1>6, <1>7, <1>8, <1>9, CalmStep

\* A step of a recovery that changes its record alone.
LEMMA AloneKeeps ==
  ASSUME FailoverInv, NEW r \in Recoveries, Alone(r), flow' \in [Recoveries -> FlowSet],
         UNCHANGED <<capacity, work, runtime, agents, session, active, free, switched, stopping>>,
         faults' \in 0 .. MaxFaults
  PROVE  O!RuntimeInv' /\ FailoverTypeOK' /\ Calm
<1>1. Transaction
  BY DEF Transaction
<1>2. O!RuntimeInv' /\ ContextsKept /\ NoneNew
  BY <1>1, TransactionKeeps DEF FailoverInv
<1>3. FailoverTypeOK'
  BY <1>2, Fields, TypeFrom
<1>4. Calm
  BY <1>2, Unmoved, AgentsUnchanged, CalmFrom
<1> QED BY <1>2, <1>3, <1>4

\* The eligibility of the dispatch is judged on the copy and on the terminal.
LEMMA CheckKeeps ==
  ASSUME FailoverInv, NEW r \in Recoveries, Check(r) PROVE FailoverInv'
<1>1. flow[r] \in FlowSet /\ Fine(flow[r]) /\ session \in Terminals
  BY Fields
<1>2. CASE Eligible(r)
  <2>1. flow' = [flow EXCEPT ![r] = [flow[r] EXCEPT !.phase = "selecting", !.terminal = session]]
    BY <1>2 DEF Check, Go
  <2>2. PICK x : x = [flow[r] EXCEPT !.phase = "selecting", !.terminal = session]
    OBVIOUS
  <2>3. /\ x \in FlowSet /\ x.phase = "selecting" /\ x.terminal = session
        /\ x.capacity = flow[r].capacity /\ x.work = flow[r].work
    BY <1>1, <2>2 DEF FlowSet, Phases
  <2>4. Go(r, x)
    BY <2>1, <2>2 DEF Go
  <2>5. flow' \in [Recoveries -> FlowSet] /\ flow'[r] = x /\ Alone(r)
    BY <2>3, <2>4, GoFacts
  <2>6. O!RuntimeInv' /\ FailoverTypeOK' /\ Calm
    BY <2>5, Fields, AloneKeeps DEF Check
  <2>7. Copied(flow[r])'
    <3>1. flow[r].phase \in Copying
      BY DEF Check, Copying
    <3> QED BY <2>3, <2>5, <2>6, <3>1, CopiedKept DEF Calm
  <2>8. Eligibly(flow[r])'
    <3>1. Open(x.capacity.audit) /\ x.work.state = "running"
      BY <1>2, <2>3 DEF Eligible, Open
    <3>2. x.work.bound = Ctx0
      BY <1>1, <2>3, <3>1 DEF Fine, Copied, Check, Copying
    <3>3. x.terminal = Term0
      BY <1>2, <2>3, <3>2 DEF Eligible, FailoverInv, Seated
    <3> QED BY <2>3, <2>5, <3>1, <3>2, <3>3 DEF Eligibly
  <2>9. Driven(flow[r])' /\ flow'[r].phase \notin Driving
    BY <2>3, <2>5 DEF Driven, Driving, Unbinding, Replacing, Prompting
  <2> QED BY <2>5, <2>6, <2>7, <2>8, <2>9, CalmStep DEF Fine
<1>3. CASE ~Eligible(r)
  <2>1. To(r, "over") /\ "over" \in Phases
    BY <1>3 DEF Check, Phases
  <2>2. /\ flow' \in [Recoveries -> FlowSet] /\ Alone(r) /\ flow'[r].phase = "over"
        /\ Fine(flow[r])'
    BY <2>1, ToFacts
  <2>3. O!RuntimeInv' /\ FailoverTypeOK' /\ Calm
    BY <2>2, Fields, AloneKeeps DEF Check
  <2>4. flow'[r].phase \notin Driving
    BY <2>2 DEF Driving
  <2> QED BY <2>2, <2>3, <2>4, CalmStep
<1> QED BY <1>2, <1>3

\* The account in use is read back.
LEMMA ReadBackKeeps ==
  ASSUME FailoverInv, NEW r \in Recoveries, ReadBack(r) PROVE FailoverInv'
<1>1. /\ flow[r] \in FlowSet /\ Fine(flow[r]) /\ flow[r].phase = "reading"
  BY Fields DEF ReadBack
<1>2. PICK phase \in {"stopping", "settling"}, answer \in {"applied", "failed", "uncertain"} :
        /\ Go(r, [flow[r] EXCEPT !.phase = phase, !.answer = answer, !.response = First])
        /\ phase = "settling" => answer \in {"failed", "uncertain"}
  <2>1. PICK read \in BOOLEAN :
          Go(r, [flow[r] EXCEPT
                   !.phase = IF Outcome(r, read) = "applied" THEN "stopping" ELSE "settling",
                   !.answer = Outcome(r, read), !.response = First])
    BY DEF ReadBack
  <2>2. Outcome(r, read) \in {"applied", "failed", "uncertain"}
    BY DEF Outcome
  <2> QED BY <2>1, <2>2
<1>3. PICK x : x = [flow[r] EXCEPT !.phase = phase, !.answer = answer, !.response = First]
  OBVIOUS
<1>4. /\ x \in FlowSet /\ x.phase = phase /\ x.answer = answer /\ x.terminal = flow[r].terminal
      /\ x.capacity = flow[r].capacity /\ x.work = flow[r].work
  BY <1>1, <1>3, FailoverAssumption DEF FlowSet, Phases
<1>5. flow' \in [Recoveries -> FlowSet] /\ flow'[r] = x /\ Alone(r)
  BY <1>2, <1>3, <1>4, GoFacts
<1>6. faults' \in 0 .. MaxFaults
  BY Fields, DisturbType DEF ReadBack
<1>7. O!RuntimeInv' /\ FailoverTypeOK' /\ Calm
  BY <1>5, <1>6, AloneKeeps DEF ReadBack
<1>8. flow[r].phase \in Driving /\ flow'[r].phase \in Driving /\ x.terminal = Term0
  BY <1>1, <1>4, <1>5 DEF Driving, Fine, Eligibly, Approaching
<1>9. /\ Copied(flow[r])' /\ Eligibly(flow[r])'
      /\ Pending(capacity.audit)' /\ flow'[r].capacity.audit = capacity'.audit
  BY <1>4, <1>5, <1>7, <1>8, DriverGoesOn DEF Calm
<1>10. Driven(flow[r])'
  <2>1. work'.bound = Ctx0
    BY <1>1, <1>7 DEF Calm, Fine, Driven, Unbinding, Driving
  <2> QED BY <1>2, <1>4, <1>5, <1>9, <2>1 DEF Driven, Replacing, Prompting
<1> QED BY <1>5, <1>7, <1>8, <1>9, <1>10, CalmStep DEF Fine

\* A step of the driver that touches the runtime's tables or the agents, and moves on
\* to a phase, or to "failing".
LEMMA EffectIsCalm ==
  ASSUME FailoverInv, NEW r \in Recoveries, NEW phase \in Phases, To(r, phase),
         Transaction, AgentsCalm,
         UNCHANGED <<capacity, work, session, active, free, switched, stopping>>,
         faults' \in 0 .. MaxFaults
  PROVE  O!RuntimeInv' /\ FailoverTypeOK' /\ Calm /\ Alone(r)
<1>1. flow' \in [Recoveries -> FlowSet] /\ Alone(r)
  BY ToFacts
<1>2. O!RuntimeInv' /\ ContextsKept /\ NoneNew
  BY TransactionKeeps DEF FailoverInv
<1>3. FailoverTypeOK'
  BY <1>1, <1>2, Fields, TypeFrom DEF AgentsCalm
<1>4. Calm
  BY <1>2, Unmoved, CalmFrom
<1> QED BY <1>1, <1>2, <1>3, <1>4

\* The driver's effect failed, whether or not it happened.
LEMMA EffectFails ==
  ASSUME FailoverInv, NEW r \in Recoveries, flow[r].phase \in Driving, To(r, "failing"),
         Transaction, AgentsCalm,
         UNCHANGED <<capacity, work, session, active, free, switched, stopping>>,
         faults' \in 0 .. MaxFaults
  PROVE  FailoverInv'
<1>1. "failing" \in Phases /\ "failing" \in Driving
  BY DEF Phases, Driving
<1>2. O!RuntimeInv' /\ FailoverTypeOK' /\ Calm /\ Alone(r)
  BY <1>1, EffectIsCalm
<1>3. /\ flow'[r].phase = "failing"
      /\ flow'[r].capacity = flow[r].capacity /\ flow'[r].work = flow[r].work
  BY <1>1, ToFacts
<1>4. Fine(flow[r])'
  BY <1>2, <1>3, FailingIsFine DEF Calm
<1> QED BY <1>1, <1>2, <1>3, <1>4, CalmStep

\* The driver moves to the next phase: the effect must have proven what that says.
LEMMA EffectGoesOn ==
  ASSUME FailoverInv, NEW r \in Recoveries, flow[r].phase \in Driving,
         NEW phase \in Driving, To(r, phase), Transaction, AgentsCalm,
         UNCHANGED <<capacity, work, session, active, free, switched, stopping>>,
         faults' \in 0 .. MaxFaults,
         phase \in {"closing", "launching", "dispatching", "saving"},
         flow[r].phase \in Unbinding,
         phase = "closing" => flow[r].phase \in Approaching,
         runtime'.ctx[Ctx0].status = "stopped",
         phase # "closing" => agents'[Term0] = "dead",
         phase = "launching" => NoneAlive' /\ work.state # "cancelled",
         phase = "saving" => flow[r].phase \in Prompting
  PROVE  FailoverInv'
<1>1. phase \in Phases
  BY DEF Phases, Driving
<1>2. O!RuntimeInv' /\ FailoverTypeOK' /\ Calm /\ Alone(r)
  BY <1>1, EffectIsCalm
<1>3. /\ flow'[r].phase = phase /\ flow'[r].context = flow[r].context
      /\ flow'[r].capacity = flow[r].capacity /\ flow'[r].work = flow[r].work
      /\ flow'[r].terminal = flow[r].terminal
  <2>1. phase \notin {"over", "failed"}
    OBVIOUS
  <2> QED BY <1>1, <2>1, ToFacts
<1>4. Fine(flow[r]) /\ Eligibly(flow[r]) /\ Driven(flow[r])
  BY Fields DEF Fine
<1>5. phase \in Approaching => flow'[r].terminal = Term0
  BY <1>3, <1>4 DEF Eligibly, Approaching
<1>6. /\ Copied(flow[r])' /\ Eligibly(flow[r])'
      /\ Pending(capacity.audit)' /\ flow'[r].capacity.audit = capacity'.audit
  BY <1>2, <1>3, <1>5, DriverGoesOn DEF Calm
<1>7. Driven(flow[r])'
  BY <1>3, <1>4, <1>6 DEF Driven, Replacing, Prompting
<1> QED BY <1>2, <1>3, <1>6, <1>7, CalmStep DEF Fine

\* The first context is about to be, or was, stopped.
LEMMA StopOldKeeps ==
  ASSUME FailoverInv, NEW r \in Recoveries, StopOld(r) PROVE FailoverInv'
<1>1. /\ flow[r].phase = "stopping" /\ flow[r].phase \in Driving /\ flow[r].phase \in Unbinding
      /\ flow[r].phase \in Approaching /\ flow[r].work.bound = Ctx0
  BY DriverFacts DEF StopOld, Driving, Unbinding, Approaching
<1>2. Ctx0 \in Contexts
  BY FailoverAssumption
<1>3. AgentsCalm /\ Transaction
  BY <1>1, <1>2, AgentsUnchanged DEF StopOld, Lost, Transaction
<1>4. faults' \in 0 .. MaxFaults
  BY Fields, DisturbType DEF StopOld, Lost
<1>5. CASE To(r, "failing")
  BY <1>1, <1>3, <1>4, <1>5, EffectFails DEF StopOld
<1>6. CASE To(r, "closing") /\ runtime'.ctx[Ctx0].status = "stopped"
  <2>1. "closing" \in Driving
    BY DEF Driving
  <2> QED BY <1>1, <1>3, <1>4, <1>6, <2>1, EffectGoesOn DEF StopOld
<1> QED BY <1>1, <1>5, <1>6 DEF StopOld, Lost

\* The first terminal is closed, and only a kill is a proof.
LEMMA CloseOldKeeps ==
  ASSUME FailoverInv, NEW r \in Recoveries, CloseOld(r) PROVE FailoverInv'
<1>1. /\ flow[r].phase = "closing" /\ flow[r].phase \in Driving /\ flow[r].phase \in Unbinding
      /\ flow[r].phase \in Approaching /\ flow[r].work.bound = Ctx0
  BY DriverFacts DEF CloseOld, Driving, Unbinding, Approaching
<1>2. Fine(flow[r]) /\ Ctx0 \in Contexts /\ Term0 \in Terminals
  BY Fields, FailoverAssumption
<1>3. flow[r].terminal = Term0 /\ runtime.ctx[Ctx0].status = "stopped"
  BY <1>1, <1>2 DEF Fine, Eligibly, Driven
<1>4. Transaction
  BY DEF CloseOld, Transaction
<1>5. /\ Kill(Term0) \/ Spare(Term0)
      /\ To(r, "failing") \/ (To(r, "launching") /\ Kill(Term0))
      /\ faults' = faults \/ Disturb
  BY <1>3 DEF CloseOld, Lost, Proven
<1>6. AgentsCalm
  BY <1>2, <1>5, KillFacts, AgentsUnchanged DEF Spare
<1>7. faults' \in 0 .. MaxFaults
  BY <1>5, Fields, DisturbType
<1>8. CASE To(r, "failing")
  BY <1>1, <1>4, <1>6, <1>7, <1>8, EffectFails DEF CloseOld
<1>9. CASE To(r, "launching") /\ Kill(Term0)
  <2>1. ~NoneAlive /\ NoneAlive' /\ agents'[Term0] = "dead"
    BY <1>2, <1>9, KillFacts
  <2>2. work.state # "cancelled"
    BY <2>1 DEF FailoverInv, CancelledIsDead
  <2>3. runtime'.ctx[Ctx0].status = "stopped" /\ "launching" \in Driving
    BY <1>3 DEF CloseOld, Driving
  <2> QED BY <1>1, <1>4, <1>6, <1>7, <1>9, <2>1, <2>2, <2>3, EffectGoesOn DEF CloseOld
<1> QED BY <1>5, <1>8, <1>9

\* The task is made ready again.
LEMMA ReadyKeeps ==
  ASSUME FailoverInv, NEW r \in Recoveries, Ready(r) PROVE FailoverInv'
<1>1. /\ flow[r].phase = "readying" /\ flow[r].phase \in Driving /\ flow[r].phase \in Unbinding
  BY DEF Ready, Driving, Unbinding
<1>2. Fine(flow[r]) /\ Ctx0 \in Contexts
  BY Fields, FailoverAssumption
<1>3. runtime.ctx[Ctx0].status = "stopped" /\ agents[Term0] = "dead"
  BY <1>1, <1>2 DEF Fine, Driven, Replacing
<1>4. Transaction /\ AgentsCalm
  BY AgentsUnchanged DEF Ready, Lost, Transaction
<1>5. faults' \in 0 .. MaxFaults
  BY Fields, DisturbType DEF Ready, Lost
<1>6. CASE To(r, "failing")
  BY <1>1, <1>4, <1>5, <1>6, EffectFails DEF Ready
<1>7. CASE To(r, "dispatching")
  <2>1. ContextsKept
    BY <1>4, TransactionKeeps DEF FailoverInv
  <2>2. runtime'.ctx[Ctx0].status = "stopped"
    BY <1>2, <1>3, <2>1 DEF ContextsKept
  <2>3. agents'[Term0] = "dead" /\ "dispatching" \in Driving
    BY <1>3 DEF Ready, Driving
  <2> QED BY <1>1, <1>4, <1>5, <1>7, <2>2, <2>3, EffectGoesOn DEF Ready
<1> QED BY <1>6, <1>7 DEF Ready, Lost

\* The prompt is sent, for a recovery or for one that is gone.
LEMMA InjectKeeps ==
  ASSUME FailoverInv, NEW r \in Recoveries, Inject(r) PROVE FailoverInv'
<1>1. flow[r].phase \in {"injecting", "orphan"} /\ flow[r] \in FlowSet /\ Fine(flow[r])
  BY Fields DEF Inject
<1>2. flow[r].context \in Contexts \ {Ctx0} /\ flow[r].terminal \in Terminals /\ Ctx0 \in Contexts
  BY <1>1, FailoverAssumption DEF Fine, Driven, Prompting, FlowSet
<1>3. Transaction
  BY <1>2 DEF Inject, Transaction
<1>4. AgentsCalm
  <2>1. CASE agents' = agents
    BY <2>1, AgentsUnchanged
  <2>2. CASE Alive(flow[r].terminal) /\ agents' = [agents EXCEPT ![flow[r].terminal] = "working"]
    BY <1>2, <2>2, Fields DEF AgentsCalm, Alive
  <2> QED BY <2>1, <2>2 DEF Inject
<1>5. faults' \in 0 .. MaxFaults
  BY Fields, DisturbType DEF Inject
<1>6. /\ flow[r].phase = "orphan" => To(r, "over")
      /\ flow[r].phase = "injecting" => To(r, "saving") \/ To(r, "failing")
  BY DEF Inject
<1>7. CASE flow[r].phase = "orphan"
  <2>1. "over" \in Phases /\ "over" \notin Driving
    BY DEF Phases, Driving
  <2>2. O!RuntimeInv' /\ FailoverTypeOK' /\ Calm /\ Alone(r)
    BY <1>3, <1>4, <1>5, <1>6, <1>7, <2>1, EffectIsCalm DEF Inject
  <2>3. flow'[r].phase = "over" /\ Fine(flow[r])'
    BY <1>6, <1>7, <2>1, ToFacts
  <2> QED BY <2>1, <2>2, <2>3, CalmStep
<1>8. CASE flow[r].phase = "injecting"
  <2>1. flow[r].phase \in Driving /\ flow[r].phase \in Unbinding /\ flow[r].phase \in Prompting
    BY <1>8 DEF Driving, Unbinding, Prompting
  <2>2. CASE To(r, "failing")
    BY <1>3, <1>4, <1>5, <2>1, <2>2, EffectFails DEF Inject
  <2>3. CASE To(r, "saving")
    <3>1. runtime.ctx[Ctx0].status = "stopped" /\ agents[Term0] = "dead"
      BY <1>1, <1>8 DEF Fine, Driven, Replacing
    <3>2. ContextsKept
      BY <1>3, TransactionKeeps DEF FailoverInv
    <3>3. runtime'.ctx[Ctx0].status = "stopped"
      BY <1>2, <3>1, <3>2 DEF ContextsKept
    <3>4. agents'[Term0] = "dead" /\ "saving" \in Driving
      BY <1>4, <3>1, FailoverAssumption DEF AgentsCalm, Driving
    <3> QED BY <1>3, <1>4, <1>5, <2>1, <2>3, <3>3, <3>4, EffectGoesOn DEF Inject
  <2> QED BY <1>6, <1>8, <2>2, <2>3
<1> QED BY <1>1, <1>7, <1>8

\* A step of the driver that moves the binding, launches or claims.  The audit stays.
LEMMA DriverKeeps ==
  ASSUME FailoverInv, O!RuntimeInv', FailoverTypeOK', Onward, NEW r \in Recoveries, Alone(r),
         flow[r].phase \in Driving, Fine(flow[r])', capacity'.audit = capacity.audit,
         Seated', OneAlive', CancelledIsDead', AskedIsTried'
  PROVE  FailoverInv'
<1>1. /\ Pending(capacity.audit)
      /\ \A q \in Recoveries \ {r} : flow[q].phase \notin Driving
  BY DriverFacts
<1>2. FlowsFine' /\ SoleDriver'
  BY <1>1, FlowsKept
<1>3. BoundOnce' /\ AuditOpen'
  BY <1>1 DEF FailoverInv, BoundOnce, AuditOpen, Open
<1>4. SuccessIsBound'
  BY <1>1 DEF SuccessIsBound, Pending
<1> QED BY <1>2, <1>3, <1>4 DEF FailoverInv

\* Codex is asked for the selected account.
LEMMA SwitchKeeps ==
  ASSUME FailoverInv, NEW r \in Recoveries, Switch(r) PROVE FailoverInv'
<1>1. flow[r].phase = "switching" /\ flow[r].phase \in Driving
  BY DEF Switch, Driving
<1>2. /\ flow[r] \in FlowSet /\ flow[r].capacity.audit = capacity.audit /\ Fine(flow[r])
      /\ Pending(capacity.audit)
  BY <1>1, DriverFacts
<1>3. /\ Target(r) = Latest(capacity.audit).account
      /\ Target(r) \in Tried(capacity.audit) /\ Target(r) \in Accounts
  <2>1. capacity.audit.attempts \in Seq(Attempt)
    BY Fields, AuditType DEF AuditRecord
  <2>2. PICK n \in Nat : n = Len(capacity.audit.attempts)
    BY <2>1, LenProperties
  <2>3. n \in DOMAIN capacity.audit.attempts /\ n \in 1 .. n
    BY <1>2, <2>1, <2>2, EmptySeq, LenProperties DEF Pending
  <2>4. capacity.audit.attempts[n] \in Attempt
    BY <2>1, <2>2, <2>3, ElementOfSeq
  <2>5. Target(r) = capacity.audit.attempts[n].account
    BY <1>2, <2>2 DEF Target, Latest
  <2> QED BY <1>2, <2>3, <2>4, <2>5 DEF Target, Tried, Attempt
<1>4. active' \in Accounts
  BY <1>3, Fields, FailoverAssumption DEF Switch, Selection
<1>5. PICK x : /\ Go(r, x)
               /\ \/ x = [flow[r] EXCEPT !.phase = "reading", !.answer = "returned",
                                         !.response = active']
                  \/ x = [flow[r] EXCEPT !.phase = "reading", !.answer = "threw"]
  BY DEF Switch
<1>6. /\ x \in FlowSet /\ x.phase = "reading" /\ x.terminal = flow[r].terminal
      /\ x.capacity = flow[r].capacity /\ x.work = flow[r].work
  BY <1>2, <1>4, <1>5 DEF FlowSet, Phases
<1>7. flow' \in [Recoveries -> FlowSet] /\ flow'[r] = x /\ Alone(r)
  BY <1>5, <1>6, GoFacts
<1>8. faults' \in 0 .. MaxFaults
  BY Fields, DisturbType DEF Switch
<1>9. /\ switched' \in [Accounts -> Nat]
      /\ \A a \in Accounts : a # Target(r) => switched'[a] = switched[a]
  BY <1>3, Fields DEF Switch
<1>10. Transaction
  BY DEF Switch, Transaction
<1>11. O!RuntimeInv' /\ ContextsKept
  BY <1>10, TransactionKeeps DEF FailoverInv
<1>12. FailoverTypeOK'
  BY <1>4, <1>7, <1>8, <1>9, <1>11, Fields, TypeFrom DEF Switch
<1>13. Onward
  BY <1>11, Unmoved DEF Onward, Switch
<1>14. Fine(flow[r])'
  <2>1. x.phase \in Driving /\ x.terminal = Term0
    BY <1>2, <1>1, <1>6 DEF Driving, Fine, Eligibly, Approaching
  <2>2. /\ Copied(flow[r])' /\ Eligibly(flow[r])'
        /\ Pending(capacity.audit)' /\ flow'[r].capacity.audit = capacity'.audit
    BY <1>1, <1>6, <1>7, <1>12, <1>13, <2>1, DriverGoesOn DEF Switch
  <2>3. work'.bound = Ctx0
    BY <1>1, <1>2 DEF Switch, Fine, Driven, Unbinding, Driving
  <2>4. Driven(flow[r])'
    BY <1>6, <1>7, <2>2, <2>3 DEF Driven, Replacing, Prompting
  <2> QED BY <2>2, <2>4 DEF Fine
<1>15. AskedIsTried'
  BY <1>3, <1>9 DEF Switch, AskedIsTried, FailoverInv
<1>16. Seated' /\ OneAlive' /\ CancelledIsDead'
  BY DEF Switch, Seated, OneAlive, CancelledIsDead, NoneAlive, Alive, FailoverInv
<1> QED BY <1>1, <1>7, <1>11, <1>12, <1>13, <1>14, <1>15, <1>16, DriverKeeps DEF Switch

\* The replacement's terminal is launched: no other agent was alive.
LEMMA LaunchKeeps ==
  ASSUME FailoverInv, NEW r \in Recoveries, Launch(r) PROVE FailoverInv'
<1>1. /\ flow[r].phase = "launching" /\ flow[r].phase \in Driving
      /\ flow[r] \in FlowSet /\ Fine(flow[r])
  BY Fields DEF Launch, Driving
<1>2. NoneAlive /\ work.state # "cancelled" /\ agents[Term0] = "dead"
      /\ runtime.ctx[Ctx0].status = "stopped" /\ work.bound = Ctx0
  BY <1>1 DEF Fine, Driven, Replacing, Unbinding, Driving
<1>3. /\ faults' \in 0 .. MaxFaults
      /\ \/ UNCHANGED <<agents, session>>
         \/ \E t \in Terminals : agents[t] = "unused" /\ Launched(t)
  BY Fields, DisturbType DEF Launch, Lost
<1>4. /\ agents' \in [Terminals -> {"unused", "idle", "working", "halted", "dead"}]
      /\ session' \in Terminals
      /\ \A t \in Terminals : agents'[t] = "unused" => agents[t] = "unused"
      /\ agents'[Term0] = "dead"
      /\ OneAlive'
  <2>1. CASE UNCHANGED <<agents, session>>
    BY <1>2, <2>1, Fields DEF FailoverInv, OneAlive, Alive
  <2>2. ASSUME NEW t \in Terminals, agents[t] = "unused", Launched(t)
        PROVE  /\ agents' \in [Terminals -> {"unused", "idle", "working", "halted", "dead"}]
               /\ session' \in Terminals
               /\ \A s \in Terminals : agents'[s] = "unused" => agents[s] = "unused"
               /\ agents'[Term0] = "dead"
               /\ OneAlive'
    BY <1>2, <2>2, Fields, FailoverAssumption DEF Launched, OneAlive, NoneAlive, Alive
  <2> QED BY <1>3, <2>1, <2>2
<1>5. PICK x \in FlowSet :
        /\ Go(r, x) /\ x.phase \in {"readying", "failing"}
        /\ x.capacity = flow[r].capacity /\ x.work = flow[r].work
  <2>1. CASE To(r, "failing")
    <3>1. "failing" \in Phases
      BY DEF Phases
    <3> QED BY <1>1, <2>1, <3>1, AtFacts DEF To
  <2>2. ASSUME NEW t \in Terminals, Go(r, [flow[r] EXCEPT !.phase = "readying", !.terminal = t])
        PROVE  \E x \in FlowSet :
                 /\ Go(r, x) /\ x.phase \in {"readying", "failing"}
                 /\ x.capacity = flow[r].capacity /\ x.work = flow[r].work
    <3>1. PICK x : x = [flow[r] EXCEPT !.phase = "readying", !.terminal = t]
      OBVIOUS
    <3>2. /\ x \in FlowSet /\ x.phase = "readying"
          /\ x.capacity = flow[r].capacity /\ x.work = flow[r].work
      BY <1>1, <3>1 DEF FlowSet, Phases
    <3> QED BY <2>2, <3>1, <3>2
  <2> QED BY <2>1, <2>2 DEF Launch, Lost
<1>6. flow' \in [Recoveries -> FlowSet] /\ flow'[r] = x /\ Alone(r)
  BY <1>5, GoFacts
<1>7. Transaction
  BY DEF Launch, Transaction
<1>8. O!RuntimeInv' /\ ContextsKept
  BY <1>7, TransactionKeeps DEF FailoverInv
<1>9. FailoverTypeOK'
  BY <1>3, <1>4, <1>6, <1>8, Fields, TypeFrom DEF Launch
<1>10. Onward
  BY <1>4, <1>8, Unmoved DEF Onward, Launch
<1>11. Fine(flow[r])'
  <2>1. x.phase \in Driving /\ x.phase \notin Approaching
    BY <1>5 DEF Driving, Approaching
  <2>2. /\ Copied(flow[r])' /\ Eligibly(flow[r])'
        /\ Pending(capacity.audit)' /\ flow'[r].capacity.audit = capacity'.audit
    BY <1>1, <1>5, <1>6, <1>9, <1>10, <2>1, DriverGoesOn DEF Launch
  <2>3. work'.bound = Ctx0 /\ runtime'.ctx[Ctx0].status = "stopped"
    BY <1>2 DEF Launch
  <2>4. Driven(flow[r])'
    BY <1>4, <1>5, <1>6, <2>2, <2>3 DEF Driven, Unbinding, Driving, Replacing, Prompting
  <2> QED BY <2>2, <2>4 DEF Fine
<1>12. Seated'
  BY <1>4 DEF Seated, FailoverInv, Launch
<1>13. CancelledIsDead' /\ AskedIsTried'
  BY <1>2 DEF CancelledIsDead, AskedIsTried, FailoverInv, Launch
<1> QED BY <1>1, <1>4, <1>6, <1>8, <1>9, <1>10, <1>11, <1>12, <1>13, DriverKeeps DEF Launch

\* A context is claimed for the replacement's terminal.
LEMMA ClaimFacts ==
  ASSUME FailoverInv, NEW c \in Contexts, NEW t \in Terminals, Orca!Claim(c, Task, t), Alive(t),
         agents' = agents
  PROVE  /\ O!RuntimeInv' /\ ContextsKept /\ c # Ctx0 /\ Seated'
<1>1. O!RuntimeNext
  BY SameRuntime DEF O!RuntimeNext
<1>2. O!RuntimeInv' /\ ContextsKept
  BY <1>1, RuntimeStep DEF FailoverInv
<1>3. runtime.ctx[c] = [status |-> "unused", task |-> None, worker |-> None]
  BY DEF Orca!Claim, Orca!NoContext
<1>4. c # Ctx0 /\ Ctx0 \in Contexts
  BY <1>3, FailoverAssumption DEF FailoverInv, Seated
<1>5. /\ runtime = [task |-> runtime.task, result |-> runtime.result,
                    failures |-> runtime.failures, ctx |-> runtime.ctx]
      /\ runtime.ctx \in [Contexts -> O!Context]
  BY O!RuntimeFields, RuntimeAssumed DEF O!RuntimeInv, FailoverInv
<1>6. /\ runtime'.ctx[c].worker = t
      /\ \A d \in Contexts : d # c => runtime'.ctx[d] = runtime.ctx[d]
  BY <1>5 DEF Orca!Claim
<1>7. Seated'
  BY <1>4, <1>6 DEF FailoverInv, Seated, Alive
<1> QED BY <1>2, <1>4, <1>7

\* The task is dispatched to the replacement, up to the prompt.
LEMMA DispatchKeeps ==
  ASSUME FailoverInv, NEW r \in Recoveries, Dispatch(r) PROVE FailoverInv'
<1>1. /\ flow[r].phase = "dispatching" /\ flow[r].phase \in Driving
      /\ flow[r] \in FlowSet /\ Fine(flow[r]) /\ flow[r].terminal \in Terminals
  BY Fields DEF Dispatch, Driving, FlowSet
<1>2. /\ agents[Term0] = "dead" /\ runtime.ctx[Ctx0].status = "stopped" /\ work.bound = Ctx0
      /\ Ctx0 \in Contexts
  BY <1>1, FailoverAssumption DEF Fine, Driven, Replacing, Unbinding, Driving
<1>3. CASE To(r, "failing") /\ UNCHANGED runtime
  <2>1. Transaction /\ AgentsCalm
    BY <1>3, AgentsUnchanged DEF Dispatch, Transaction
  <2>2. faults' \in 0 .. MaxFaults
    BY Fields, DisturbType DEF Dispatch, Lost
  <2> QED BY <1>1, <1>3, <2>1, <2>2, EffectFails DEF Dispatch
<1>4. ASSUME NEW c \in Contexts, Claimable(r), Orca!Claim(c, Task, flow[r].terminal),
             Go(r, [flow[r] EXCEPT !.phase = "injecting", !.context = c]), faults' = faults
      PROVE  FailoverInv'
  <2>1. O!RuntimeInv' /\ ContextsKept /\ c # Ctx0 /\ Seated'
    BY <1>1, <1>4, ClaimFacts DEF Claimable, Dispatch
  <2>2. PICK x : x = [flow[r] EXCEPT !.phase = "injecting", !.context = c]
    OBVIOUS
  <2>3. /\ x \in FlowSet /\ x.phase = "injecting" /\ x.context = c
        /\ x.capacity = flow[r].capacity /\ x.work = flow[r].work
    BY <1>1, <2>2 DEF FlowSet, Phases
  <2>4. flow' \in [Recoveries -> FlowSet] /\ flow'[r] = x /\ Alone(r)
    BY <1>4, <2>2, <2>3, GoFacts
  <2>5. FailoverTypeOK'
    BY <1>4, <2>1, <2>4, Fields, TypeFrom DEF Dispatch
  <2>6. Onward
    BY <2>1, Unmoved DEF Onward, Dispatch
  <2>7. Fine(flow[r])'
    <3>1. x.phase \in Driving /\ x.phase \notin Approaching
      BY <2>3 DEF Driving, Approaching
    <3>2. /\ Copied(flow[r])' /\ Eligibly(flow[r])'
          /\ Pending(capacity.audit)' /\ flow'[r].capacity.audit = capacity'.audit
      BY <1>1, <2>3, <2>4, <2>5, <2>6, <3>1, DriverGoesOn DEF Dispatch
    <3>3. /\ work'.bound = Ctx0 /\ runtime'.ctx[Ctx0].status = "stopped" /\ agents'[Term0] = "dead"
      BY <1>2, <2>1 DEF Dispatch, ContextsKept
    <3>4. Driven(flow[r])'
      BY <2>1, <2>3, <2>4, <3>2, <3>3 DEF Driven, Unbinding, Driving
    <3> QED BY <3>2, <3>4 DEF Fine
  <2>8. OneAlive' /\ CancelledIsDead' /\ AskedIsTried'
    BY DEF FailoverInv, Dispatch, OneAlive, CancelledIsDead, NoneAlive, Alive, AskedIsTried
  <2> QED BY <1>1, <2>1, <2>4, <2>5, <2>6, <2>7, <2>8, DriverKeeps DEF Dispatch
<1> QED BY <1>3, <1>4 DEF Dispatch, Lost

\* The dispatch is bound to the replacement, in the copy made at the click, if that is
\* still the ledger.
LEMMA SaveWorkKeeps ==
  ASSUME FailoverInv, NEW r \in Recoveries, SaveWork(r) PROVE FailoverInv'
<1>1. /\ flow[r].phase = "saving" /\ flow[r].phase \in Driving
      /\ flow[r] \in FlowSet /\ Fine(flow[r])
  BY Fields DEF SaveWork, Driving
<1>2. /\ agents[Term0] = "dead" /\ runtime.ctx[Ctx0].status = "stopped"
      /\ flow[r].context \in Contexts \ {Ctx0} /\ Ctx0 \in Contexts
      /\ flow[r].work.state = "running"
  BY <1>1, FailoverAssumption DEF Fine, Driven, Replacing, Prompting, Eligibly, Driving
<1>3. Transaction /\ agents' = agents /\ capacity' = capacity /\ switched' = switched
  BY DEF SaveWork, Transaction
<1>4. O!RuntimeInv' /\ ContextsKept
  BY <1>3, TransactionKeeps DEF FailoverInv
<1>5. CASE To(r, "failing") /\ work' = work
  <2>1. faults' \in 0 .. MaxFaults
    BY Fields, DisturbType DEF SaveWork
  <2> QED BY <1>1, <1>3, <1>5, <2>1, EffectFails, AgentsUnchanged DEF SaveWork
<1>6. ASSUME flow[r].work.revision = work.revision, To(r, "succeeding"), faults' = faults,
             work' = [flow[r].work EXCEPT !.revision = @ + 1, !.bound = flow[r].context]
      PROVE  FailoverInv'
  <2>1. flow[r].work = work /\ work \in Work
    BY <1>1, <1>6, Fields DEF Fine, Copied, Copying, Driving
  <2>2. PICK c \in Contexts : c = flow[r].context
    BY <1>2
  <2>3. PICK state, stop : state = work.state /\ stop = work.stop
    OBVIOUS
  <2>4. /\ work' = [revision |-> work.revision + 1, state |-> state, stop |-> stop, bound |-> c]
        /\ state \in {"running", "reported", "cancelled"}
        /\ stop \in {"none", "requested", "stopped", "uncertain", "completed"}
    BY <1>6, <2>1, <2>2, <2>3 DEF Work
  <2>5. /\ work' \in Work /\ work'.bound = c /\ work'.state = state
        /\ work'.revision >= work.revision /\ work'.revision # work.revision
    <3>1. FailoverInv
      OBVIOUS
    <3> QED BY ONLY <2>2, <2>4, <3>1, WorkFacts
  <2>6. "succeeding" \in Phases
    BY DEF Phases
  <2>7. /\ flow' \in [Recoveries -> FlowSet] /\ Alone(r) /\ flow'[r].phase = "succeeding"
        /\ flow'[r].capacity = flow[r].capacity /\ flow'[r].work = flow[r].work
        /\ flow'[r].context = c
    BY <1>6, <2>2, <2>6, ToFacts
  <2>8. FailoverTypeOK'
    BY <1>3, <1>4, <1>6, <2>5, <2>7, Fields, TypeFrom DEF SaveWork
  <2>9. Onward
    BY <1>3, <1>4, <2>5, Unmoved DEF Onward
  <2>10. Fine(flow[r])'
    <3>1. flow'[r].phase \in Driving /\ flow'[r].phase \notin Approaching
      BY <2>7 DEF Driving, Approaching
    <3>2. /\ Copied(flow[r])' /\ Eligibly(flow[r])'
          /\ Pending(capacity.audit)' /\ flow'[r].capacity.audit = capacity'.audit
      BY <1>1, <1>3, <2>7, <2>8, <2>9, <3>1, DriverGoesOn
    <3>3. runtime'.ctx[Ctx0].status = "stopped" /\ agents'[Term0] = "dead"
      BY <1>2, <1>3, <1>4 DEF ContextsKept
    <3>4. Driven(flow[r])'
      BY <1>2, <2>2, <2>5, <2>7, <3>2, <3>3 DEF Driven, Unbinding, Driving
    <3> QED BY <3>2, <3>4 DEF Fine
  <2>11. CancelledIsDead'
    BY <1>2, <2>1, <2>3, <2>5 DEF CancelledIsDead
  <2>12. Seated' /\ OneAlive' /\ AskedIsTried'
    BY <1>3 DEF FailoverInv, SaveWork, Seated, OneAlive, Alive, AskedIsTried
  <2> QED BY <1>1, <1>3, <1>4, <2>7, <2>8, <2>9, <2>10, <2>11, <2>12, DriverKeeps
<1> QED BY <1>5, <1>6 DEF SaveWork, SaveOutcome

\* The selection is saved first, if the copy is still the capacity ledger.
LEMMA SelectKeeps ==
  ASSUME FailoverInv, NEW r \in Recoveries, Select(r) PROVE FailoverInv'
<1> DEFINE cap == flow[r].capacity
<1>1. /\ flow[r].phase = "selecting" /\ flow[r] \in FlowSet /\ Fine(flow[r]) /\ cap \in Capacity
      /\ flow[r].work.bound = Ctx0 /\ Open(cap.audit)
      /\ flow[r].terminal = Term0 /\ flow[r].work.state = "running"
  BY Fields DEF Select, FlowSet, Fine, Eligibly, Approaching
<1>2. Transaction /\ agents' = agents /\ switched' = switched /\ work' = work
  BY DEF Select, Transaction
<1>3. O!RuntimeInv' /\ ContextsKept /\ NoneNew
  BY <1>2, TransactionKeeps DEF FailoverInv
<1>4. CASE capacity' = capacity /\ To(r, "over")
  <2>1. "over" \in Phases /\ "over" \notin Driving
    BY DEF Phases, Driving
  <2>2. /\ flow' \in [Recoveries -> FlowSet] /\ Alone(r) /\ flow'[r].phase = "over"
        /\ Fine(flow[r])'
    BY <1>4, <2>1, ToFacts
  <2>3. O!RuntimeInv' /\ FailoverTypeOK' /\ Calm
    BY <1>4, <2>2, Fields, AloneKeeps DEF Select
  <2> QED BY <2>1, <2>2, <2>3, CalmStep
<1>5. ASSUME Fits(cap), NEW audit \in Audit, NEW phase \in {"over", "switching"},
             capacity' = Saved(cap, audit),
             Go(r, At([flow[r] EXCEPT !.capacity = capacity'], phase)),
             ~Open(audit),
             audit.state = "active" =>
               \A i \in DOMAIN audit.attempts : audit.attempts[i].outcome \in {"selected", "failed"},
             audit.state # "succeeded",
             Tried(capacity.audit) \subseteq Tried(audit),
             phase = "switching" => Pending(audit) /\ switched[Latest(audit).account] = 0
      PROVE  FailoverInv'
  <2>1. cap.revision = capacity.revision /\ cap.audit = capacity.audit
    BY <1>1, <1>5 DEF Fits, Fine, Copied, Copying
  <2>2. work.bound = Ctx0 /\ \A q \in Recoveries : flow[q].phase \notin Driving
    <3>1. Open(capacity.audit)
      BY <1>1, <2>1
    <3>2. work.bound = Ctx0
      BY <3>1 DEF FailoverInv, BoundOnce
    <3>3. ASSUME NEW q \in Recoveries, flow[q].phase \in Driving PROVE FALSE
      BY <3>1, <3>3, DriverFacts DEF Open
    <3> QED BY <3>2, <3>3
  <2>3. PICK n \in Nat : n = capacity.revision
    BY <1>1, <2>1 DEF Capacity
  <2>4. capacity' = [revision |-> n + 1, active |-> cap.active, free |-> cap.free, audit |-> audit]
    BY <1>1, <1>5, <2>1, <2>3 DEF Saved, Capacity
  <2>5. /\ capacity' \in Capacity /\ capacity'.audit = audit
        /\ capacity'.revision >= capacity.revision /\ capacity'.revision # capacity.revision
    BY <1>1, <2>3, <2>4 DEF Capacity
  <2>6. PICK new \in Capacity : new = capacity'
    BY <2>5
  <2>7. PICK f : f = [flow[r] EXCEPT !.capacity = new]
    OBVIOUS
  <2>8. /\ f \in FlowSet /\ f.capacity = new /\ f.work = flow[r].work /\ f.terminal = Term0
    BY <1>1, <2>7 DEF FlowSet
  <2>9. PICK x : x = At(f, phase)
    OBVIOUS
  <2>10. /\ x \in FlowSet /\ x.phase = phase
         /\ phase = "switching" => x.capacity = new /\ x.work = flow[r].work /\ x.terminal = Term0
    <3>1. phase \in Phases
      BY DEF Phases
    <3> QED BY <2>8, <2>9, <3>1, AtFacts
  <2>11. Go(r, x)
    BY <1>5, <2>6, <2>7, <2>9
  <2>12. flow' \in [Recoveries -> FlowSet] /\ flow'[r] = x /\ Alone(r)
    BY <2>10, <2>11, GoFacts
  <2>13. FailoverTypeOK'
    BY <1>2, <1>3, <2>5, <2>12, Fields, TypeFrom DEF Select
  <2>14. Onward
    BY <1>2, <1>3, <2>5, Unmoved DEF Onward
  <2>15. Fine(flow[r])'
    <3>1. CASE phase = "over"
      BY <2>10, <2>12, <3>1, OverIsFine
    <3>2. CASE phase = "switching"
      <4>1. Copied(flow[r])'
        <5>1. /\ flow[r].work.revision <= work.revision
              /\ flow[r].work.revision = work.revision => flow[r].work = work
          BY <1>1 DEF Fine, Copied, Copying
        <5>2. new.revision = capacity'.revision /\ new.revision <= new.revision /\ new.audit = capacity'.audit
          BY <2>6 DEF Capacity
        <5> QED BY <1>1, <1>2, <2>10, <2>12, <3>2, <5>1, <5>2 DEF Copied
      <4>2. Eligibly(flow[r])'
        BY <1>1, <2>10, <2>12, <3>2 DEF Eligibly
      <4>3. Driven(flow[r])'
        BY <1>2, <1>5, <2>2, <2>5, <2>6, <2>10, <2>12, <3>2
           DEF Driven, Replacing, Prompting
      <4> QED BY <4>1, <4>2, <4>3 DEF Fine
    <3> QED BY <3>1, <3>2
  <2>16. FlowsFine' /\ SoleDriver'
    BY <2>2, <2>12, <2>13, <2>14, <2>15, FlowsKept
  <2>17. BoundOnce' /\ AuditOpen' /\ AskedIsTried' /\ SuccessIsBound'
    BY <1>2, <1>5, <2>5 DEF BoundOnce, AuditOpen, AskedIsTried, SuccessIsBound, FailoverInv
  <2>18. Seated' /\ OneAlive' /\ CancelledIsDead'
    BY <1>2 DEF FailoverInv, Select, Seated, OneAlive, CancelledIsDead, NoneAlive, Alive
  <2> QED BY <1>3, <2>13, <2>16, <2>17, <2>18 DEF FailoverInv
<1>6. ASSUME Fits(cap),
             capacity' = Saved(cap, [cap.audit EXCEPT !.state = "stopped"]),
             Go(r, At([flow[r] EXCEPT !.capacity = capacity'], "over"))
      PROVE  FailoverInv'
  <2>1. cap.audit \in Audit /\ cap.audit = capacity.audit
    BY <1>1, <1>6 DEF Fits, Fine, Copied, Copying, Capacity
  <2>2. PICK audit : audit = [cap.audit EXCEPT !.state = "stopped"]
    OBVIOUS
  <2>3. audit \in Audit /\ audit.state = "stopped" /\ Tried(audit) = Tried(capacity.audit)
    BY <2>1, <2>2, EndedFacts
  <2>4. ~Open(audit)
    BY <2>3 DEF Open
  <2>5. capacity' = Saved(cap, audit)
    BY <1>6, <2>2
  <2> QED BY <1>5, <1>6, <2>3, <2>4, <2>5
<1>7. ASSUME Fits(cap), NEW a \in Selectable(cap),
             capacity' = Saved(cap, Selected(cap.audit, a)),
             Go(r, At([flow[r] EXCEPT !.capacity = capacity'], "switching"))
      PROVE  FailoverInv'
  <2>1. cap.audit \in Audit /\ cap.audit = capacity.audit
    BY <1>1, <1>7 DEF Fits, Fine, Copied, Copying, Capacity
  <2>2. /\ cap.audit.state = "active" /\ a \in Accounts \ Tried(cap.audit)
        /\ Len(cap.audit.attempts) < Ceiling
    <3>1. Len(cap.audit.attempts) \in Nat /\ Ceiling \in Nat
      BY <2>1, AuditType, LenProperties, FailoverAssumption DEF AuditRecord
    <3> QED BY <1>1, <3>1 DEF Open, Selectable, Capacity
  <2>3. PICK audit : audit = Selected(cap.audit, a)
    OBVIOUS
  <2>4. /\ audit \in Audit /\ Pending(audit) /\ Latest(audit).account = a
        /\ Tried(audit) = Tried(cap.audit) \cup {a}
        /\ \A i \in DOMAIN cap.audit.attempts : audit.attempts[i] = cap.audit.attempts[i]
        /\ \A i \in DOMAIN audit.attempts :
             i \in DOMAIN cap.audit.attempts \/ audit.attempts[i].outcome = "selected"
    BY <2>1, <2>2, <2>3, SelectedFacts
  <2>5. ~Open(audit) /\ audit.state # "succeeded"
    BY <2>4 DEF Open, Pending
  <2>6. switched[a] = 0
    BY <2>1, <2>2 DEF FailoverInv, AskedIsTried
  <2>7. \A i \in DOMAIN audit.attempts : audit.attempts[i].outcome \in {"selected", "failed"}
    BY <2>1, <2>2, <2>4 DEF FailoverInv, AuditOpen
  <2>8. capacity' = Saved(cap, audit) /\ Tried(capacity.audit) \subseteq Tried(audit)
    BY <1>7, <2>1, <2>3, <2>4
  <2> QED BY <1>5, <1>7, <2>4, <2>5, <2>6, <2>7, <2>8
<1> QED BY <1>4, <1>6, <1>7 DEF Select

\* What became of the attempt is saved.
LEMMA SettleKeeps ==
  ASSUME FailoverInv, NEW r \in Recoveries, Settle(r) PROVE FailoverInv'
<1> DEFINE cap == flow[r].capacity
<1>1. /\ flow[r].phase \in {"settling", "succeeding", "failing"} /\ flow[r].phase \in Driving
      /\ flow[r] \in FlowSet /\ Fine(flow[r]) /\ cap \in Capacity
      /\ cap.audit = capacity.audit /\ Pending(capacity.audit)
  <2>1. flow[r].phase \in {"settling", "succeeding", "failing"} /\ flow[r].phase \in Driving
    BY DEF Settle, Driving
  <2> QED BY <2>1, DriverFacts
<1>2. Transaction /\ agents' = agents /\ switched' = switched /\ work' = work
  BY DEF Settle, Transaction
<1>3. O!RuntimeInv' /\ ContextsKept /\ NoneNew
  BY <1>2, TransactionKeeps DEF FailoverInv
<1>4. faults' \in 0 .. MaxFaults
  BY Fields, DisturbType DEF Settle
<1>5. ASSUME capacity' = capacity, NEW phase \in {"over", "failed", "failing"}, To(r, phase)
      PROVE  FailoverInv'
  <2>1. phase \in Phases
    BY DEF Phases
  <2>2. CASE phase = "failing"
    BY <1>1, <1>2, <1>4, <1>5, <2>2, EffectFails, AgentsUnchanged DEF Settle
  <2>3. CASE phase \in {"over", "failed"}
    <3>1. /\ flow' \in [Recoveries -> FlowSet] /\ Alone(r) /\ flow'[r].phase = phase
          /\ Fine(flow[r])' /\ phase \notin Driving
      BY <1>5, <2>1, <2>3, ToFacts DEF Driving
    <3>2. O!RuntimeInv' /\ FailoverTypeOK' /\ Calm
      BY <1>4, <1>5, <3>1, Fields, AloneKeeps DEF Settle
    <3> QED BY <3>1, <3>2, CalmStep
  <2> QED BY <2>2, <2>3
<1>6. ASSUME Fits(cap), NEW outcome \in {"failed", "uncertain", "succeeded"},
             capacity' = Saved(cap, Settled(cap.audit, outcome,
                                            IF outcome = "succeeded" THEN flow[r].context ELSE None)),
             NEW phase \in {"over", "failed"}, To(r, phase),
             outcome = "failed" => flow[r].phase = "settling",
             outcome = "succeeded" => flow[r].phase = "succeeding"
      PROVE  FailoverInv'
  <2>1. PICK c : c = IF outcome = "succeeded" THEN flow[r].context ELSE None
    OBVIOUS
  <2>2. c \in Contexts \cup {None} /\ (outcome = "succeeded" => c = flow[r].context)
    BY <1>1, <2>1 DEF FlowSet
  <2>3. PICK audit : audit = Settled(capacity.audit, outcome, c)
    OBVIOUS
  <2>4. /\ audit \in Audit /\ audit.replacement = c /\ ~Pending(audit)
        /\ Tried(audit) = Tried(capacity.audit)
        /\ DOMAIN audit.attempts = DOMAIN capacity.audit.attempts
        /\ audit.state = "active" => outcome = "failed"
        /\ audit.state = "succeeded" <=> outcome = "succeeded"
        /\ \A i \in DOMAIN capacity.audit.attempts :
             \/ audit.attempts[i] = capacity.audit.attempts[i]
             \/ audit.attempts[i].outcome = outcome
    BY <1>1, <2>2, <2>3, Fields, SettledFacts
  <2>5. capacity' = Saved(cap, audit) /\ cap.revision = capacity.revision
    BY <1>1, <1>6, <2>1, <2>3 DEF Fits
  <2>6. PICK n \in Nat : n = capacity.revision
    BY <1>1, <2>5 DEF Capacity
  <2>7. capacity' = [revision |-> n + 1, active |-> cap.active, free |-> cap.free, audit |-> audit]
    BY <1>1, <2>5, <2>6 DEF Saved, Capacity
  <2>8. /\ capacity' \in Capacity /\ capacity'.audit = audit
        /\ capacity'.revision >= capacity.revision /\ capacity'.revision # capacity.revision
    BY <1>1, <2>4, <2>6, <2>7 DEF Capacity
  <2>9. /\ flow' \in [Recoveries -> FlowSet] /\ Alone(r) /\ flow'[r].phase = phase
        /\ Fine(flow[r])' /\ phase \notin Driving
    <3>1. phase \in Phases /\ phase \notin Driving
      BY DEF Phases, Driving
    <3> QED BY <1>6, <3>1, ToFacts
  <2>10. FailoverTypeOK'
    BY <1>2, <1>3, <1>4, <2>8, <2>9, Fields, TypeFrom DEF Settle
  <2>11. Onward
    BY <1>2, <1>3, <2>8, Unmoved DEF Onward
  <2>12. FlowsFine' /\ SoleDriver'
    BY <1>1, <2>9, <2>10, <2>11, FlowsKept, DriverFacts
  <2>13. BoundOnce'
    <3>1. outcome = "failed" => work.bound = Ctx0
      BY <1>1, <1>6 DEF Fine, Driven, Unbinding, Driving
    <3> QED BY <1>2, <2>4, <2>8, <3>1 DEF BoundOnce, Open
  <2>14. AuditOpen'
    <3>1. capacity.audit.state = "active"
      BY <1>1 DEF Pending
    <3> QED BY <2>4, <2>8, <3>1 DEF AuditOpen, FailoverInv
  <2>15. AskedIsTried'
    BY <1>2, <2>4, <2>8 DEF AskedIsTried, FailoverInv
  <2>16. SuccessIsBound'
    <3> SUFFICES ASSUME audit.state = "succeeded"
                 PROVE  /\ work'.bound = c /\ work'.bound # Ctx0
                        /\ runtime'.ctx[Ctx0].status = "stopped" /\ agents'[Term0] = "dead"
      BY <2>4, <2>8 DEF SuccessIsBound
    <3>1. flow[r].phase = "succeeding" /\ c = flow[r].context
      BY <1>6, <2>2, <2>4
    <3> QED BY <1>1, <1>2, <3>1 DEF Settle, Fine, Driven, Replacing, Prompting
  <2>17. Seated' /\ OneAlive' /\ CancelledIsDead'
    BY <1>2 DEF FailoverInv, Settle, Seated, OneAlive, CancelledIsDead, NoneAlive, Alive
  <2> QED BY <1>3, <2>10, <2>12, <2>13, <2>14, <2>15, <2>16, <2>17 DEF FailoverInv
<1>7. flow[r].phase = "settling" => flow[r].answer \in {"failed", "uncertain"}
  BY <1>1 DEF Fine, Driven
<1>8. CASE flow[r].phase = "settling"
  <2>1. \/ /\ Fits(cap) /\ To(r, "over")
           /\ capacity' = Saved(cap, Settled(cap.audit, flow[r].answer,
                                  IF flow[r].answer = "succeeded" THEN flow[r].context ELSE None))
        \/ capacity' = capacity /\ To(r, "over")
    BY <1>8 DEF Settle
  <2>2. PICK outcome \in {"failed", "uncertain"} : outcome = flow[r].answer
    BY <1>7, <1>8
  <2> QED BY <1>5, <1>6, <1>8, <2>1, <2>2
<1>9. CASE flow[r].phase = "succeeding"
  <2>1. \/ /\ Fits(cap) /\ To(r, "over")
           /\ capacity' = Saved(cap, Settled(cap.audit, "succeeded",
                                  IF "succeeded" = "succeeded" THEN flow[r].context ELSE None))
        \/ capacity' = capacity /\ To(r, "failing")
    BY <1>9 DEF Settle
  <2> QED BY <1>5, <1>6, <1>9, <2>1
<1>10. CASE flow[r].phase = "failing"
  <2>1. \/ /\ Fits(cap) /\ To(r, "failed")
           /\ capacity' = Saved(cap, Settled(cap.audit, "uncertain",
                                  IF "uncertain" = "succeeded" THEN flow[r].context ELSE None))
        \/ capacity' = capacity /\ To(r, "failed")
    BY <1>10 DEF Settle
  <2> QED BY <1>5, <1>6, <1>10, <2>1
<1> QED BY <1>1, <1>8, <1>9, <1>10

\* No recovery outlives a reload; a prompt may.
LEMMA GoneFacts ==
  ASSUME FailoverInv, NEW prompts, prompts \subseteq {"injecting", "orphan"}, Gone(prompts)
  PROVE  /\ flow' \in [Recoveries -> FlowSet]
         /\ \A r \in Recoveries : Fine(flow[r])' /\ flow'[r].phase \notin Driving
         /\ stopping' \in [phase : {"new", "proving", "closing", "over"}, revision : Nat,
                           terminal : Terminals]
<1>1. \A r \in Recoveries : flow[r] \in FlowSet
  BY Fields
<1>2. ASSUME NEW r \in Recoveries
      PROVE  flow'[r] \in FlowSet /\ Fine(flow[r])' /\ flow'[r].phase \notin Driving
  <2>1. PICK phase : phase = CASE flow[r].phase = "new" -> "new"
                               [] flow[r].phase \in prompts -> "orphan"
                               [] OTHER -> "over"
    OBVIOUS
  <2>2. /\ phase \in {"new", "orphan", "over"}
        /\ phase = "orphan" => flow[r].phase \in prompts
    <3>1. CASE flow[r].phase = "new"
      <4>1. flow[r].phase \notin prompts
        BY <3>1
      <4> QED BY <2>1, <3>1, <4>1
    <3>2. CASE flow[r].phase # "new"
      BY <2>1, <3>2
    <3> QED BY <3>1, <3>2
  <2>3. flow'[r] = At(flow[r], phase)
    BY <2>1, Zenon DEF Gone
  <2>4. phase \in Phases /\ phase \notin Driving
    BY <2>2 DEF Phases, Driving
  <2>5. /\ flow'[r] \in FlowSet /\ flow'[r].phase = phase
        /\ phase = "orphan" => flow'[r].context = flow[r].context
    BY <1>1, <2>2, <2>3, <2>4, AtFacts
  <2>6. CASE phase \in {"new", "over"}
    BY <2>4, <2>5, <2>6, OverIsFine
  <2>7. CASE phase = "orphan"
    <3>1. flow[r].phase \in Prompting
      BY <2>2, <2>7 DEF Prompting
    <3>2. flow[r].context \in Contexts \ {Ctx0}
      BY <3>1, Fields DEF Fine, Driven
    <3>3. Fine(flow[r])'
      BY <2>5, <2>7, <3>2
         DEF Fine, Copied, Eligibly, Driven, Copying, Driving, Unbinding, Approaching, Replacing
    <3> QED BY <2>4, <2>5, <3>3
  <2> QED BY <2>2, <2>6, <2>7
<1>3. flow' \in [Recoveries -> FlowSet]
  <2>1. flow' = [r \in Recoveries |-> flow'[r]]
    BY Zenon DEF Gone
  <2> QED BY <1>2, <2>1
<1>4. stopping' \in [phase : {"new", "proving", "closing", "over"}, revision : Nat,
                     terminal : Terminals]
  BY Fields DEF Gone
<1> QED BY <1>2, <1>3, <1>4

\* A reload ends every flow and touches nothing else.
LEMMA ReloadKeeps == ASSUME FailoverInv, Reload PROVE FailoverInv'
<1>1. /\ flow' \in [Recoveries -> FlowSet]
      /\ \A r \in Recoveries : Fine(flow[r])' /\ flow'[r].phase \notin Driving
      /\ stopping' \in [phase : {"new", "proving", "closing", "over"}, revision : Nat,
                        terminal : Terminals]
  BY GoneFacts DEF Reload
<1>2. Transaction /\ faults' \in 0 .. MaxFaults
  BY DisturbType DEF Reload, Transaction
<1>3. O!RuntimeInv' /\ ContextsKept /\ NoneNew
  BY <1>2, TransactionKeeps DEF FailoverInv
<1>4. FailoverTypeOK'
  BY <1>1, <1>2, <1>3, Fields, TypeFrom DEF Reload
<1>5. Calm
  BY <1>3, Unmoved, AgentsUnchanged, CalmFrom DEF Reload
<1>6. FlowsFine' /\ SoleDriver'
  BY <1>1 DEF FlowsFine, Fine, SoleDriver
<1> QED BY <1>3, <1>4, <1>5, <1>6, CalmKept DEF FailoverInv

\* A restart settles the interrupted attempt.
LEMMA RestartKeeps == ASSUME FailoverInv, Restart PROVE FailoverInv'
<1>1. /\ flow' \in [Recoveries -> FlowSet]
      /\ \A r \in Recoveries : Fine(flow[r])' /\ flow'[r].phase \notin Driving
      /\ stopping' \in [phase : {"new", "proving", "closing", "over"}, revision : Nat,
                        terminal : Terminals]
  BY GoneFacts DEF Restart
<1>2. Transaction /\ faults' \in 0 .. MaxFaults
  BY DisturbType DEF Restart, Transaction
<1>3. O!RuntimeInv' /\ ContextsKept /\ NoneNew
  BY <1>2, TransactionKeeps DEF FailoverInv
<1>4. FlowsFine' /\ SoleDriver'
  BY <1>1 DEF FlowsFine, Fine, SoleDriver
<1>5. CASE ~Pending(capacity.audit)
  <2>1. capacity' = capacity
    BY <1>5 DEF Restart
  <2>2. FailoverTypeOK'
    BY <1>1, <1>2, <1>3, <2>1, Fields, TypeFrom DEF Restart
  <2>3. Calm
    BY <1>3, <2>1, Unmoved, AgentsUnchanged, CalmFrom DEF Restart
  <2> QED BY <1>3, <1>4, <2>2, <2>3, CalmKept DEF FailoverInv
<1>6. CASE Pending(capacity.audit)
  <2>1. PICK audit : audit = Settled(capacity.audit, "uncertain", None)
    OBVIOUS
  <2>2. /\ audit \in Audit /\ Tried(audit) = Tried(capacity.audit)
        /\ audit.state # "active" /\ audit.state # "succeeded"
    BY <1>6, <2>1, Fields, SettledFacts
  <2>3. capacity' = [capacity EXCEPT !.revision = @ + 1, !.audit = audit]
    BY <1>6, <2>1 DEF Restart, Recovered
  <2>4. PICK n \in Nat : n = capacity.revision
    BY Fields DEF Capacity
  <2>5. capacity' = [revision |-> n + 1, active |-> capacity.active, free |-> capacity.free,
                     audit |-> audit]
    BY <2>3, <2>4, Fields DEF Capacity
  <2>6. capacity' \in Capacity /\ capacity'.audit = audit
    BY <2>2, <2>4, <2>5, Fields DEF Capacity
  <2>7. FailoverTypeOK'
    BY <1>1, <1>2, <1>3, <2>6, Fields, TypeFrom DEF Restart
  <2>8. BoundOnce' /\ AuditOpen' /\ AskedIsTried' /\ SuccessIsBound'
    BY <2>2, <2>6
       DEF BoundOnce, Open, AuditOpen, AskedIsTried, SuccessIsBound, FailoverInv, Restart
  <2>9. Seated' /\ OneAlive' /\ CancelledIsDead'
    BY DEF FailoverInv, Restart, Seated, OneAlive, CancelledIsDead, NoneAlive, Alive
  <2> QED BY <1>3, <1>4, <2>7, <2>8, <2>9 DEF FailoverInv
<1> QED BY <1>5, <1>6

-----------------------------------------------------------------------------
(* The theorems.                                                            *)

\* A running dispatch is a state of the runtime its invariant allows.
LEMMA RuntimeStarts == Init => O!RuntimeInv
<1> SUFFICES ASSUME Init PROVE O!RuntimeInv
  OBVIOUS
<1> USE FailoverAssumption DEF Init
<1> DEFINE first == [status |-> "dispatched", task |-> Task, worker |-> Term0]
<1>1. /\ runtime = [task |-> runtime.task, result |-> runtime.result,
                    failures |-> runtime.failures, ctx |-> runtime.ctx]
      /\ runtime.task = [t \in {Task} |-> "dispatched"]
      /\ runtime.result = [t \in {Task} |-> O!NoResult]
      /\ runtime.failures = [t \in {Task} |-> 0]
      /\ runtime.ctx = [c \in Contexts |-> IF c = Ctx0 THEN first ELSE O!NoContext]
  BY SameRuntime
<1> HIDE DEF Init
<1>2. O!RuntimeTypeOK
  <2>1. first \in O!Context /\ O!NoContext \in O!Context
    BY DEF O!Context, O!NoContext
  <2>2. O!NoResult \in O!Result /\ "dispatched" \in O!RuntimeTaskStatus /\ 0 \in 0 .. BreakerLimit
    BY DEF O!Result, O!NoResult, O!RuntimeTaskStatus
  <2> HIDE DEF first
  <2>3. /\ runtime.task \in [{Task} -> O!RuntimeTaskStatus]
        /\ runtime.result \in [{Task} -> O!Result]
        /\ runtime.failures \in [{Task} -> 0 .. BreakerLimit]
        /\ runtime.ctx \in [Contexts -> O!Context]
    BY <1>1, <2>1, <2>2
  <2> QED BY <1>1, <2>3 DEF O!RuntimeTypeOK
<1>3. /\ Ctx0 \in Contexts /\ runtime.ctx[Ctx0] = first
      /\ \A c \in Contexts : c # Ctx0 => runtime.ctx[c].status = "unused"
      /\ runtime.task[Task] = "dispatched" /\ runtime.result[Task].by = None
  BY <1>1 DEF O!NoContext, O!NoResult
<1>4. O!Used /\ O!Owned /\ O!Sole /\ O!Held
  BY <1>3 DEF O!Used, O!Owned, O!Sole, O!Held, O!Live
<1>5. O!ReportMatchesContext /\ O!NoStrandedTask
  BY <1>3 DEF O!ReportMatchesContext, O!NoStrandedTask
<1> QED BY <1>2, <1>4, <1>5 DEF O!RuntimeInv

\* The invariant holds at first.
LEMMA FailoverInvInit == Init => FailoverInv
<1> SUFFICES ASSUME Init PROVE FailoverInv
  OBVIOUS
<1>1. O!RuntimeInv
  BY RuntimeStarts
<1>2. NoAudit \in Audit /\ Tried(NoAudit) = {} /\ Open(NoAudit)
  <2>1. /\ <<>> \in Seq(Attempt) /\ Len(<<>>) = 0 /\ DOMAIN <<>> = {}
    BY EmptySeq
  <2>2. NoAudit \in AuditRecord /\ NoAudit.attempts = <<>> /\ NoAudit.state = "active"
    BY <2>1 DEF NoAudit, AuditRecord
  <2> QED BY <2>1, <2>2, AuditType, FailoverAssumption DEF Tried, Open, Pending
<1>3. capacity \in Capacity /\ capacity.audit = NoAudit
  BY <1>2, FailoverAssumption DEF Init, Capacity
<1>4. work \in Work /\ work.bound = Ctx0 /\ work.state = "running"
  BY FailoverAssumption DEF Init, Work
<1>5. Idle \in FlowSet /\ Idle.phase = "new"
  <2>1. Idle.capacity \in Capacity
    BY <1>2, FailoverAssumption DEF Idle, Capacity
  <2>2. Idle.work \in Work
    BY FailoverAssumption DEF Idle, Work
  <2> QED BY <2>1, <2>2, FailoverAssumption DEF Idle, FlowSet, Phases
<1>6. flow \in [Recoveries -> FlowSet] /\ \A r \in Recoveries : flow[r].phase = "new"
  <2> HIDE DEF Idle
  <2> QED BY <1>5 DEF Init
<1>7. FailoverTypeOK
  <2>1. Orca!RuntimeTypeOK
    BY <1>1, SameRuntime DEF O!RuntimeInv
  <2>2. flow \in [Recoveries -> FlowSet]
    BY <1>6
  <2> QED BY <1>3, <1>4, <2>1, <2>2, FailoverAssumption DEF FailoverTypeOK, Init, FlowSet
<1>8. FlowsFine /\ SoleDriver
  BY <1>6 DEF FlowsFine, SoleDriver, Copied, Eligibly, Driven, Copying, Driving, Unbinding,
              Approaching, Replacing, Prompting
<1>9. BoundOnce /\ CancelledIsDead
  BY <1>4 DEF BoundOnce, CancelledIsDead
<1>10. AuditOpen /\ AskedIsTried /\ SuccessIsBound
  <2>1. NoAudit.attempts = <<>> /\ DOMAIN <<>> = {} /\ NoAudit.state = "active"
    BY EmptySeq DEF NoAudit
  <2>2. \A a \in Accounts : switched[a] = 0
    BY DEF Init
  <2> QED BY <1>3, <2>1, <2>2 DEF AuditOpen, AskedIsTried, SuccessIsBound
<1>11. Seated
  <2>1. /\ runtime.ctx = [c \in Contexts |->
                   IF c = Ctx0 THEN [status |-> "dispatched", task |-> Task, worker |-> Term0]
                   ELSE Orca!NoContext]
        /\ agents[Term0] = "working"
    BY FailoverAssumption DEF Init
  <2> QED BY <2>1, FailoverAssumption DEF Seated, Orca!NoContext
<1>12. OneAlive
  BY FailoverAssumption DEF Init, OneAlive, Alive
<1> QED BY <1>1, <1>7, <1>8, <1>9, <1>10, <1>11, <1>12 DEF FailoverInv

\* Every step keeps it.
LEMMA FailoverNextInv == FailoverInv /\ [Next]_vars => FailoverInv'
<1> SUFFICES ASSUME FailoverInv, [Next]_vars PROVE FailoverInv'
  OBVIOUS
<1>1. ASSUME NEW r \in Recoveries, Recovery(r) PROVE FailoverInv'
  BY <1>1, RecoverKeeps, CheckKeeps, SelectKeeps, SwitchKeeps, ReadBackKeeps, SettleKeeps,
     StopOldKeeps, CloseOldKeeps, LaunchKeeps, ReadyKeeps, DispatchKeeps, InjectKeeps,
     SaveWorkKeeps DEF Recovery
<1>2. CASE RequestStop \/ ProveStop \/ CloseStop
  BY <1>2, RequestStopKeeps, ProveStopKeeps, CloseStopKeeps
<1>3. CASE UseUp \/ Refresh \/ SyncReport \/ OtherSave \/ PushStatus \/ Reload \/ Restart
  BY <1>3, UseUpKeeps, RefreshKeeps, SyncReportKeeps, OtherSaveKeeps, PushStatusKeeps,
     ReloadKeeps, RestartKeeps
<1>4. ASSUME NEW t \in Terminals, Halt(t) PROVE FailoverInv'
  BY <1>4, HaltKeeps
<1>5. ASSUME NEW a \in Accounts, UserSelects(a) PROVE FailoverInv'
  BY <1>5, UserSelectsKeeps
<1>6. ASSUME NEW c \in Contexts, NEW outcome \in {"succeeded", "failed"}, Reports(c, outcome)
      PROVE  FailoverInv'
  BY <1>6, ReportsKeeps
<1>7. ASSUME NEW c \in Contexts, Exits(c) PROVE FailoverInv'
  BY <1>7, ExitsKeeps
<1>8. CASE UNCHANGED vars
  <2>1. /\ Transaction /\ agents' = agents /\ capacity' = capacity /\ work' = work
        /\ session' = session /\ active' = active /\ free' = free /\ switched' = switched
        /\ flow' = flow /\ stopping' = stopping /\ faults' = faults
    BY <1>8 DEF vars, Transaction
  <2> QED BY <2>1, Fields, AgentsUnchanged, QuietKeeps
<1> QED BY <1>1, <1>2, <1>3, <1>4, <1>5, <1>6, <1>7, <1>8 DEF Next

\* So it holds always.
LEMMA FailoverInvHolds == Spec => []FailoverInv
<1> QED BY FailoverInvInit, FailoverNextInv, PTL DEF Spec

\* The two ledgers, the runtime, the agents and the copies of every recovery keep their
\* types, whatever fails or is reloaded.
THEOREM FailoverTypeCorrect == Spec => []FailoverTypeOK
<1>1. FailoverInv => FailoverTypeOK
  BY DEF FailoverInv
<1> QED BY <1>1, FailoverInvHolds, PTL

\* No second agent is launched for the worker while one is alive, and Orca gives the task
\* to one context only, whichever recoveries, stops and reloads interleave.
THEOREM OneWriterHolds == Spec => []OneWriter
<1>1. ASSUME FailoverInv PROVE OneWriter
  <2>1. Orca!LiveOn(Task) = {} \/ \E c \in Contexts : Orca!LiveOn(Task) = {c}
    <3>1. \A c, d \in Contexts : c \in Orca!LiveOn(Task) /\ d \in Orca!LiveOn(Task) => c = d
      BY <1>1 DEF FailoverInv, O!RuntimeInv, O!Sole, O!Live, Orca!LiveOn
    <3>2. Orca!LiveOn(Task) \subseteq Contexts
      BY DEF Orca!LiveOn
    <3> QED BY <3>1, <3>2
  <2>2. Cardinality(Orca!LiveOn(Task)) <= 1
    <3>1. CASE Orca!LiveOn(Task) = {}
      <4>1. Cardinality({}) = 0
        BY FS_EmptySet
      <4> QED BY <3>1, <4>1
    <3>2. ASSUME NEW c \in Contexts, Orca!LiveOn(Task) = {c}
          PROVE  Cardinality(Orca!LiveOn(Task)) <= 1
      <4>1. Cardinality({c}) = 1
        BY FS_Singleton
      <4> QED BY <3>2, <4>1
    <3> QED BY <2>1, <3>1, <3>2
  <2> QED BY <1>1, <2>2 DEF FailoverInv, OneAlive, OneWriter
<1> QED BY <1>1, FailoverInvHolds, PTL

\* A recovery recorded as successful has bound the dispatch to its own context, and the
\* first context and the first terminal have lost every authority.
THEOREM SuccessIsAlwaysBound == Spec => []SuccessIsBound
<1>1. FailoverInv => SuccessIsBound
  BY DEF FailoverInv
<1> QED BY <1>1, FailoverInvHolds, PTL

\* A dispatch shown as stopped has no agent left, although a recovery was under way.
THEOREM StoppedMeansDead == Spec => []StoppedIsDead
<1>1. ASSUME FailoverInv PROVE StoppedIsDead
  <2> SUFFICES ASSUME work.state = "cancelled"
               PROVE  /\ \A t \in Terminals : ~Alive(t)
                      /\ \A c \in Orca!LiveOn(Task) : agents[runtime.ctx[c].worker] = "dead"
    BY DEF StoppedIsDead
  <2>1. NoneAlive
    BY <1>1 DEF FailoverInv, CancelledIsDead
  <2>2. ASSUME NEW c \in Orca!LiveOn(Task) PROVE agents[runtime.ctx[c].worker] = "dead"
    <3>1. c \in Contexts /\ runtime.ctx[c].status # "unused"
      BY <2>2 DEF Orca!LiveOn
    <3>2. runtime.ctx[c].worker \in Terminals /\ agents[runtime.ctx[c].worker] # "unused"
      BY <1>1, <3>1 DEF FailoverInv, Seated
    <3> QED BY <1>1, <2>1, <3>2, Fields DEF NoneAlive, Alive
  <2> QED BY <2>1, <2>2 DEF NoneAlive
<1> QED BY <1>1, FailoverInvHolds, PTL

\* What a step may do to the audit.
AuditStep ==
  LET old == capacity.audit
      new == capacity'.audit
      outcomes == {old.attempts[i].outcome : i \in DOMAIN old.attempts}
  IN /\ (old.state # "active" \/ outcomes \cap {"uncertain", "succeeded"} # {}) => new = old
     /\ \A i \in DOMAIN old.attempts :
          /\ i \in DOMAIN new.attempts
          /\ \/ new.attempts[i] = old.attempts[i]
             \/ /\ old.attempts[i].outcome = "selected"
                /\ new.attempts[i].account = old.attempts[i].account

\* A step that records no failure, and one that does so on a recovery's reading.
NoneFails ==
  \A i \in DOMAIN capacity.audit.attempts :
    capacity'.audit.attempts[i].outcome = "failed" => capacity.audit.attempts[i].outcome = "failed"

FailureIsRead == NoneFails \/ \E r \in Recoveries : Disproved(r)

\* What a step may do with the outcome of a switch.
ReadStep ==
  /\ \A r \in Recoveries :
       /\ flow[r].phase = "reading" /\ flow'[r].phase = "stopping" =>
            active = Latest(capacity.audit).account
       /\ Disproved(r)' /\ ~Disproved(r) => active # Latest(capacity.audit).account
  /\ \A i \in DOMAIN capacity.audit.attempts :
       capacity'.audit.attempts[i].outcome = "failed" =>
         \/ capacity.audit.attempts[i].outcome = "failed"
         \/ \E r \in Recoveries : Disproved(r)

\* What a step may do to the count of switches.
SwitchStep ==
  \A a \in Accounts : switched'[a] # switched[a] =>
    /\ switched[a] = 0
    /\ Pending(capacity.audit) /\ Latest(capacity.audit).account = a

\* An open audit has no final outcome.
LEMMA OpenHasNoFinal ==
  ASSUME FailoverInv, capacity.audit.state = "active"
  PROVE  {capacity.audit.attempts[i].outcome : i \in DOMAIN capacity.audit.attempts}
           \cap {"uncertain", "succeeded"} = {}
  BY DEF FailoverInv, AuditOpen

\* An audit that is left alone.
LEMMA AuditKept == ASSUME capacity'.audit = capacity.audit PROVE AuditStep /\ NoneFails
  BY DEF AuditStep, NoneFails

\* The pending attempt is settled.
LEMMA AuditSettled ==
  ASSUME FailoverInv, Pending(capacity.audit),
         NEW outcome \in {"failed", "succeeded", "uncertain"}, NEW c \in Contexts \cup {None},
         capacity'.audit = Settled(capacity.audit, outcome, c)
  PROVE  AuditStep /\ (outcome # "failed" => NoneFails)
<1>1. capacity.audit.state = "active"
  BY DEF Pending
<1>2. \A i \in DOMAIN capacity.audit.attempts :
        /\ i \in DOMAIN capacity'.audit.attempts
        /\ \/ capacity'.audit.attempts[i] = capacity.audit.attempts[i]
           \/ /\ capacity.audit.attempts[i].outcome = "selected"
              /\ capacity'.audit.attempts[i].account = capacity.audit.attempts[i].account
              /\ capacity'.audit.attempts[i].outcome = outcome
  <2>1. capacity.audit \in Audit
    BY Fields
  <2>2. PICK old, new : old = capacity.audit /\ new = capacity'.audit
    OBVIOUS
  <2>3. \A i \in DOMAIN old.attempts :
          /\ i \in DOMAIN new.attempts
          /\ new.attempts[i].account = old.attempts[i].account
          /\ \/ new.attempts[i] = old.attempts[i]
             \/ old.attempts[i].outcome = "selected" /\ new.attempts[i].outcome = outcome
    BY <2>1, <2>2, SettledFacts
  <2> QED BY <2>2, <2>3
<1>3. AuditStep
  BY <1>1, <1>2, OpenHasNoFinal DEF AuditStep
<1>4. outcome # "failed" => NoneFails
  BY <1>2 DEF NoneFails
<1> QED BY <1>3, <1>4

\* A selection adds an attempt, or ends the audit.
LEMMA SelectMoves ==
  ASSUME FailoverInv, NEW r \in Recoveries, Select(r) PROVE AuditStep /\ NoneFails
<1> DEFINE cap == flow[r].capacity
<1>1. /\ flow[r] \in FlowSet /\ cap \in Capacity /\ Fine(flow[r]) /\ Open(cap.audit)
      /\ flow[r].phase \in Copying
  BY Fields DEF Select, FlowSet, Fine, Eligibly, Copying
<1>2. CASE capacity' = capacity
  BY <1>2, AuditKept
<1>3. ASSUME Fits(cap), capacity' = Saved(cap, [cap.audit EXCEPT !.state = "stopped"])
      PROVE  AuditStep /\ NoneFails
  <2>1. cap.audit = capacity.audit
    BY <1>1, <1>3 DEF Fits, Fine, Copied
  <2>2. capacity'.audit = [cap.audit EXCEPT !.state = "stopped"]
    BY <1>1, <1>3 DEF Saved, Capacity
  <2>3. capacity'.audit.attempts = capacity.audit.attempts
    BY <2>1, <2>2, Fields, EndedFacts
  <2>4. capacity.audit.state = "active"
    BY <1>1, <2>1 DEF Open
  <2> QED BY <2>3, <2>4, OpenHasNoFinal DEF AuditStep, NoneFails
<1>4. ASSUME Fits(cap), NEW a \in Selectable(cap), capacity' = Saved(cap, Selected(cap.audit, a))
      PROVE  AuditStep /\ NoneFails
  <2>1. cap.audit = capacity.audit
    BY <1>1, <1>4 DEF Fits, Fine, Copied
  <2>2. capacity'.audit = Selected(capacity.audit, a)
    BY <1>1, <1>4, <2>1 DEF Saved, Capacity
  <2>3. /\ capacity.audit.state = "active" /\ a \in Accounts \ Tried(capacity.audit)
        /\ Len(capacity.audit.attempts) < Ceiling
    <3>1. capacity.audit \in Audit
      BY Fields
    <3>2. Len(cap.audit.attempts) \in Nat /\ Ceiling \in Nat
      BY <2>1, <3>1, AuditType, LenProperties, FailoverAssumption DEF AuditRecord
    <3> QED BY <1>1, <2>1, <3>2 DEF Open, Selectable, Capacity
  <2>4. \A i \in DOMAIN capacity.audit.attempts :
          i \in DOMAIN capacity'.audit.attempts
          /\ capacity'.audit.attempts[i] = capacity.audit.attempts[i]
    BY <2>2, <2>3, Fields, SelectedFacts
  <2> QED BY <2>3, <2>4, OpenHasNoFinal DEF AuditStep, NoneFails
<1> QED BY <1>2, <1>3, <1>4 DEF Select

\* A recovery settles its attempt.
LEMMA SettleMoves ==
  ASSUME FailoverInv, NEW r \in Recoveries, Settle(r) PROVE AuditStep /\ FailureIsRead
<1> DEFINE cap == flow[r].capacity
<1>1. /\ flow[r].phase \in Driving /\ flow[r].phase \in {"settling", "succeeding", "failing"}
      /\ flow[r] \in FlowSet /\ Fine(flow[r]) /\ cap \in Capacity
      /\ cap.audit = capacity.audit /\ Pending(capacity.audit)
  <2>1. flow[r].phase \in Driving /\ flow[r].phase \in {"settling", "succeeding", "failing"}
    BY DEF Settle, Driving
  <2> QED BY <2>1, DriverFacts
<1>2. CASE capacity' = capacity
  BY <1>2, AuditKept DEF FailureIsRead
<1>3. PICK outcome : outcome = CASE flow[r].phase = "settling" -> flow[r].answer
                                 [] flow[r].phase = "succeeding" -> "succeeded"
                                 [] OTHER -> "uncertain"
  OBVIOUS
<1>4. outcome \in {"failed", "succeeded", "uncertain"}
  <2>1. flow[r].phase = "settling" => flow[r].answer \in {"failed", "uncertain"}
    BY <1>1 DEF Fine, Driven
  <2>2. CASE flow[r].phase = "settling"
    BY <1>3, <2>1, <2>2
  <2>3. CASE flow[r].phase = "succeeding"
    <3>1. flow[r].phase # "settling"
      BY <2>3
    <3> QED BY <1>3, <2>3, <3>1
  <2>4. CASE flow[r].phase = "failing"
    <3>1. flow[r].phase # "settling" /\ flow[r].phase # "succeeding"
      BY <2>4
    <3> QED BY <1>3, <3>1
  <2> QED BY <1>1, <2>2, <2>3, <2>4
<1>5. outcome = "failed" => Disproved(r)
  <2>1. flow[r].phase = "succeeding" => flow[r].phase # "settling"
    OBVIOUS
  <2> QED BY <1>3, <2>1 DEF Disproved
<1>6. PICK c : c = IF outcome = "succeeded" THEN flow[r].context ELSE None
  OBVIOUS
<1>7. c \in Contexts \cup {None}
  BY <1>1, <1>6 DEF FlowSet
<1>8. capacity' = Saved(cap, Settled(cap.audit, outcome, c)) \/ capacity' = capacity
  BY <1>3, <1>6, Zenon DEF Settle
<1>9. CASE capacity' = Saved(cap, Settled(cap.audit, outcome, c))
  <2>1. capacity'.audit = Settled(capacity.audit, outcome, c)
    <3>1. PICK s : s = Settled(cap.audit, outcome, c)
      OBVIOUS
    <3>2. capacity' = Saved(cap, s)
      BY <1>9, <3>1
    <3>3. capacity'.audit = s
      BY <1>1, <3>2 DEF Saved, Capacity
    <3> QED BY <1>1, <3>1, <3>3
  <2>2. AuditStep /\ (outcome # "failed" => NoneFails)
    BY <1>1, <1>4, <1>7, <2>1, AuditSettled
  <2> QED BY <1>5, <2>2 DEF FailureIsRead
<1> QED BY <1>2, <1>8, <1>9

\* A restart settles the interrupted attempt.
LEMMA RestartMoves == ASSUME FailoverInv, Restart PROVE AuditStep /\ NoneFails
<1>1. CASE ~Pending(capacity.audit)
  BY <1>1, AuditKept DEF Restart
<1>2. CASE Pending(capacity.audit)
  <2>1. PICK s : s = Settled(capacity.audit, "uncertain", None)
    OBVIOUS
  <2>2. capacity' = [capacity EXCEPT !.revision = @ + 1, !.audit = s]
    BY <1>2, <2>1 DEF Restart, Recovered
  <2>3. capacity'.audit = Settled(capacity.audit, "uncertain", None)
    BY <2>1, <2>2, Fields DEF Capacity
  <2> QED BY <1>2, <2>3, AuditSettled
<1> QED BY <1>1, <1>2

\* An account is asked for while its selection is on disk, and for the first time.
LEMMA SwitchMoves == ASSUME FailoverInv, NEW r \in Recoveries, Switch(r) PROVE SwitchStep
<1>1. flow[r].phase = "switching" /\ flow[r].phase \in Driving
  BY DEF Switch, Driving
<1>2. flow[r].capacity.audit = capacity.audit /\ Pending(capacity.audit) /\ Fine(flow[r])
  BY <1>1, DriverFacts
<1>3. Target(r) = Latest(capacity.audit).account /\ switched[Target(r)] = 0
  BY <1>1, <1>2 DEF Target, Fine, Driven
<1>4. \A a \in Accounts : a # Target(r) => switched'[a] = switched[a]
  BY Fields DEF Switch
<1> QED BY <1>2, <1>3, <1>4 DEF SwitchStep

\* What an account that is read back proves.
LEMMA OutcomeFacts ==
  ASSUME NEW r, NEW read \in BOOLEAN
  PROVE  /\ Outcome(r, read) = "applied" => active = Target(r)
         /\ Outcome(r, read) = "failed" => active # Target(r)
<1>1. CASE read /\ active = Target(r)
  BY <1>1 DEF Outcome
<1>2. CASE ~(read /\ active = Target(r))
  BY <1>2 DEF Outcome
<1> QED BY <1>1, <1>2

\* A recovery reads the account back.
LEMMA ReadBackReads == ASSUME FailoverInv, NEW r \in Recoveries, ReadBack(r)
  PROVE  \A q \in Recoveries :
           /\ flow[q].phase = "reading" /\ flow'[q].phase = "stopping" =>
                active = Latest(capacity.audit).account
           /\ Disproved(q)' /\ ~Disproved(q) => active # Latest(capacity.audit).account
<1>1. flow[r].phase = "reading" /\ flow[r].phase \in Driving
  BY DEF ReadBack, Driving
<1>2. flow[r] \in FlowSet /\ Target(r) = Latest(capacity.audit).account
  BY <1>1, DriverFacts DEF Target
<1>3. PICK read \in BOOLEAN :
        Go(r, [flow[r] EXCEPT
                 !.phase = IF Outcome(r, read) = "applied" THEN "stopping" ELSE "settling",
                 !.answer = Outcome(r, read), !.response = First])
  BY DEF ReadBack
<1>4. PICK x : x = [flow[r] EXCEPT
                 !.phase = IF Outcome(r, read) = "applied" THEN "stopping" ELSE "settling",
                 !.answer = Outcome(r, read), !.response = First]
  OBVIOUS
<1>5. PICK outcome : outcome = Outcome(r, read)
  OBVIOUS
<1>6. /\ x.phase = IF outcome = "applied" THEN "stopping" ELSE "settling"
      /\ x.answer = outcome
  BY <1>2, <1>4, <1>5 DEF FlowSet
<1>7. flow'[r] = x /\ \A q \in Recoveries \ {r} : flow'[q] = flow[q]
  BY <1>3, <1>4, Fields DEF Go
<1>8. /\ outcome = "applied" => active = Latest(capacity.audit).account
      /\ outcome = "failed" => active # Latest(capacity.audit).account
  BY <1>2, <1>5, OutcomeFacts
<1>9. \A q \in Recoveries \ {r} : flow[q].phase # "reading"
  BY <1>1, DriverFacts DEF Driving
<1>10. (flow'[r].phase = "stopping" => outcome = "applied")
       /\ (Disproved(r)' => outcome = "failed")
  BY <1>6, <1>7 DEF Disproved
<1> QED BY <1>7, <1>8, <1>9, <1>10 DEF Disproved

\* A recovery that goes on to a phase other than "settling".
LEMMA ToElsewhere ==
  ASSUME FailoverInv, NEW r \in Recoveries, NEW phase \in Phases \ {"settling"}, To(r, phase)
  PROVE  Alone(r) /\ flow'[r].phase # "settling"
  BY ToFacts

\* The same, of a recovery that changes more than its phase.
LEMMA GoElsewhere ==
  ASSUME FailoverInv, NEW r \in Recoveries, NEW x, Go(r, x), x.phase # "settling"
  PROVE  Alone(r) /\ flow'[r].phase # "settling"
  BY Fields DEF Go, Alone

\* No other step of a recovery ends in a proof of failure.
LEMMA OthersReadNothing ==
  ASSUME FailoverInv, NEW r \in Recoveries, Recovery(r), ~ReadBack(r)
  PROVE  Alone(r) /\ flow[r].phase # "reading" /\ flow'[r].phase # "settling"
<1> DEFINE Elsewhere == Alone(r) /\ flow'[r].phase # "settling"
<1>1. flow[r] \in FlowSet
  BY Fields
<1>2. flow[r].phase # "reading"
  BY DEF Recovery, Recover, Check, Select, Switch, Settle, StopOld, CloseOld, Launch, Ready,
         Dispatch, Inject, SaveWork
<1> SUFFICES Elsewhere
  BY <1>2
<1>3. CASE Recover(r)
  BY <1>1, <1>3, GoElsewhere DEF Recover, FlowSet
<1>4. CASE Check(r)
  <2>1. [flow[r] EXCEPT !.phase = "selecting", !.terminal = session].phase = "selecting"
    BY <1>1 DEF FlowSet
  <2> QED BY <1>4, <2>1, GoElsewhere, ToElsewhere DEF Check, Phases
<1>5. CASE Select(r)
  <2>1. ASSUME NEW phase \in {"over", "switching"}, NEW cap \in Capacity,
               Go(r, At([flow[r] EXCEPT !.capacity = cap], phase))
        PROVE  Elsewhere
    <3>1. PICK f : f = [flow[r] EXCEPT !.capacity = cap]
      OBVIOUS
    <3>2. f \in FlowSet
      BY <1>1, <3>1 DEF FlowSet
    <3>3. At(f, phase).phase = phase
      BY <3>2, AtFacts DEF Phases
    <3> QED BY <2>1, <3>1, <3>3, GoElsewhere
  <2>2. capacity' \in Capacity
    BY <1>5, SelectKeeps DEF FailoverInv, FailoverTypeOK
  <2> QED BY <1>5, <2>1, <2>2, ToElsewhere DEF Select, Phases
<1>6. CASE Switch(r)
  <2>1. PICK x : /\ Go(r, x)
                 /\ \/ x = [flow[r] EXCEPT !.phase = "reading", !.answer = "returned",
                                           !.response = active']
                    \/ x = [flow[r] EXCEPT !.phase = "reading", !.answer = "threw"]
    BY <1>6 DEF Switch
  <2>2. x.phase = "reading"
    BY <1>1, <2>1 DEF FlowSet
  <2> QED BY <2>1, <2>2, GoElsewhere
<1>7. CASE Settle(r)
  <2>1. To(r, "over") \/ To(r, "failed") \/ To(r, "failing")
    <3>1. flow[r].phase = "settling" \/ flow[r].phase = "succeeding" \/ flow[r].phase = "failing"
      BY <1>7 DEF Settle
    <3>2. PICK refused :
            /\ refused = CASE flow[r].phase = "settling" -> "over"
                           [] flow[r].phase = "succeeding" -> "failing"
                           [] OTHER -> "failed"
            /\ \/ To(r, IF flow[r].phase = "failing" THEN "failed" ELSE "over")
               \/ To(r, refused)
      BY <1>7, Zenon DEF Settle
    <3>3. refused = "over" \/ refused = "failing" \/ refused = "failed"
      <4>1. CASE flow[r].phase = "settling"
        BY <3>2, <4>1
      <4>2. CASE flow[r].phase = "succeeding"
        <5>1. flow[r].phase # "settling"
          BY <4>2
        <5> QED BY <3>2, <4>2, <5>1
      <4>3. CASE flow[r].phase = "failing"
        <5>1. flow[r].phase # "settling" /\ flow[r].phase # "succeeding"
          BY <4>3
        <5> QED BY <3>2, <5>1
      <4> QED BY <3>1, <4>1, <4>2, <4>3
    <3> QED BY <3>2, <3>3
  <2>2. /\ "over" \in Phases \ {"settling"} /\ "failed" \in Phases \ {"settling"}
        /\ "failing" \in Phases \ {"settling"}
    BY DEF Phases
  <2> QED BY <2>1, <2>2, ToElsewhere
<1>8. CASE StopOld(r)
  BY <1>8, ToElsewhere DEF StopOld, Lost, Phases
<1>9. CASE CloseOld(r)
  BY <1>9, ToElsewhere DEF CloseOld, Lost, Phases
<1>10. CASE Ready(r)
  BY <1>10, ToElsewhere DEF Ready, Lost, Phases
<1>11. CASE SaveWork(r)
  BY <1>11, ToElsewhere DEF SaveWork, SaveOutcome, Phases
<1>12. CASE Launch(r)
  <2>1. ASSUME NEW t \in Terminals, Go(r, [flow[r] EXCEPT !.phase = "readying", !.terminal = t])
        PROVE  Elsewhere
    <3>1. [flow[r] EXCEPT !.phase = "readying", !.terminal = t].phase = "readying"
      BY <1>1 DEF FlowSet
    <3> QED BY <2>1, <3>1, GoElsewhere
  <2>2. To(r, "failing") \/ \E t \in Terminals :
                              Go(r, [flow[r] EXCEPT !.phase = "readying", !.terminal = t])
    BY <1>12 DEF Launch, Lost
  <2> QED BY <2>1, <2>2, ToElsewhere DEF Phases
<1>13. CASE Dispatch(r)
  <2>1. ASSUME NEW c \in Contexts, Go(r, [flow[r] EXCEPT !.phase = "injecting", !.context = c])
        PROVE  Elsewhere
    <3>1. [flow[r] EXCEPT !.phase = "injecting", !.context = c].phase = "injecting"
      BY <1>1 DEF FlowSet
    <3> QED BY <2>1, <3>1, GoElsewhere
  <2>2. To(r, "failing") \/ \E c \in Contexts :
                              Go(r, [flow[r] EXCEPT !.phase = "injecting", !.context = c])
    BY <1>13 DEF Dispatch, Lost
  <2> QED BY <2>1, <2>2, ToElsewhere DEF Phases
<1>14. CASE Inject(r)
  BY <1>14, ToElsewhere DEF Inject, Phases
<1> QED BY <1>2, <1>3, <1>4, <1>5, <1>6, <1>7, <1>8, <1>9, <1>10, <1>11, <1>12, <1>13, <1>14
        DEF Recovery

\* No other step touches the audit or asks for an account.
LEMMA NextMoves == FailoverInv /\ [Next]_vars => AuditStep /\ SwitchStep /\ ReadStep
<1> SUFFICES ASSUME FailoverInv, [Next]_vars PROVE AuditStep /\ SwitchStep /\ ReadStep
  OBVIOUS
<1>1. SwitchStep
  <2>1. CASE switched' = switched
    BY <2>1 DEF SwitchStep
  <2>2. ASSUME NEW r \in Recoveries, Switch(r) PROVE SwitchStep
    BY <2>2, SwitchMoves
  <2>3. switched' = switched \/ \E r \in Recoveries : Switch(r)
    <3>1. ASSUME NEW r \in Recoveries, Recovery(r) PROVE switched' = switched \/ Switch(r)
      BY <3>1 DEF Recovery, Recover, Check, Select, ReadBack, Settle, StopOld, CloseOld, Launch,
                  Ready, Dispatch, Inject, SaveWork
    <3> QED BY <3>1 DEF Next, vars, RequestStop, ProveStop, CloseStop, Halt, UseUp, UserSelects,
                        Refresh, Reports, SyncReport, OtherSave, PushStatus, Exits, Reload, Restart
  <2> QED BY <2>1, <2>2, <2>3
<1>2. AuditStep /\ FailureIsRead
  <2>1. ASSUME NEW r \in Recoveries, Recovery(r) PROVE AuditStep /\ FailureIsRead
    <3>1. CASE Recover(r)
      BY <3>1, RefreshedFacts, AuditKept DEF Recover, FailureIsRead
    <3>2. CASE Select(r) \/ Settle(r)
      BY <3>2, SelectMoves, SettleMoves DEF FailureIsRead
    <3>3. CASE capacity' = capacity
      BY <3>3, AuditKept DEF FailureIsRead
    <3> QED BY <2>1, <3>1, <3>2, <3>3
            DEF Recovery, Check, Switch, ReadBack, StopOld, CloseOld, Launch, Ready, Dispatch,
                Inject, SaveWork
  <2>2. CASE Refresh
    BY <2>2, RefreshedFacts, AuditKept DEF Refresh, FailureIsRead
  <2>3. CASE Restart
    BY <2>3, RestartMoves DEF FailureIsRead
  <2>4. CASE capacity' = capacity
    BY <2>4, AuditKept DEF FailureIsRead
  <2> QED BY <2>1, <2>2, <2>3, <2>4
          DEF Next, vars, RequestStop, ProveStop, CloseStop, Halt, UseUp, UserSelects,
              Reports, SyncReport, OtherSave, PushStatus, Exits, Reload
<1>3. ASSUME NEW q \in Recoveries
      PROVE  /\ flow[q].phase = "reading" /\ flow'[q].phase = "stopping" =>
                  active = Latest(capacity.audit).account
             /\ Disproved(q)' /\ ~Disproved(q) => active # Latest(capacity.audit).account
  <2>1. CASE flow'[q] = flow[q]
    BY <2>1 DEF Disproved
  <2>2. ASSUME NEW r \in Recoveries, Recovery(r)
        PROVE  \/ flow'[q] = flow[q]
               \/ ReadBack(r)
               \/ flow[q].phase # "reading" /\ flow'[q].phase # "settling"
    BY <2>2, OthersReadNothing DEF Alone
  <2>3. ASSUME NEW prompts \in SUBSET {"injecting", "orphan"}, Gone(prompts)
        PROVE  flow'[q].phase \in {"new", "orphan", "over"}
    <3>1. flow[q] \in FlowSet
      BY Fields
    <3>2. PICK phase \in {"new", "orphan", "over"} : flow'[q] = At(flow[q], phase)
      BY <2>3 DEF Gone
    <3> QED BY <3>1, <3>2, AtFacts DEF Phases
  <2>4. CASE Reload \/ Restart
    <3>1. flow'[q].phase \in {"new", "orphan", "over"}
      BY <2>3, <2>4 DEF Reload, Restart
    <3> QED BY <3>1 DEF Disproved
  <2>5. flow' = flow \/ Reload \/ Restart \/ \E r \in Recoveries : Recovery(r)
    BY DEF Next, vars, RequestStop, ProveStop, CloseStop, Halt, UseUp, UserSelects, Refresh,
           Reports, SyncReport, OtherSave, PushStatus, Exits
  <2> QED BY <2>1, <2>2, <2>4, <2>5, ReadBackReads DEF Disproved
<1> QED BY <1>1, <1>2, <1>3 DEF ReadStep, FailureIsRead, NoneFails

\* The audit moves forward only, and on proof only: a selection is on disk before its
\* account is asked for, an account is asked for once, an attempt fails and an agent is
\* replaced on what was read back, and an outcome is never revised.
THEOREM AuditOnlyAdvances == Spec => AuditMovesForward
<1>1. FailoverInv /\ [Next]_vars => [AuditStep]_vars /\ [SwitchStep]_vars /\ [ReadStep]_vars
  BY NextMoves
<1>2. Spec => [][AuditStep]_vars /\ [][SwitchStep]_vars /\ [][ReadStep]_vars
  BY <1>1, FailoverInvHolds, PTL DEF Spec
<1>3. SelectionComesFirst <=> [][SwitchStep]_vars
  BY PTL DEF SelectionComesFirst, SwitchStep
<1>4. AuditIsFinal <=> [][AuditStep]_vars
  BY PTL DEF AuditIsFinal, AuditStep
<1>5. OutcomeIsRead <=> [][ReadStep]_vars
  BY PTL DEF OutcomeIsRead, ReadStep
<1> QED BY <1>2, <1>3, <1>4, <1>5 DEF AuditMovesForward
=============================================================================
