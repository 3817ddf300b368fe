------------------------- MODULE TrustedAgentProofs -------------------------
(***************************************************************************)
(* Proofs about TrustedAgent.  The inductive invariant Inv has three       *)
(* parts: the types; that whatever is executable was granted, so that an   *)
(* execution which read the row earlier still finds it granted; and that   *)
(* the receipts of an action are numbered 1..n while no execution holds    *)
(* an attempt beyond n + 1, so that a receipt that is missing is the next. *)
(***************************************************************************)
EXTENDS TrustedAgent, SequenceTheorems, TLAPS

InExecution(w) == job[w].pc \in {"claim", "ran"}

GrantInv ==
    /\ \A a \in Action : Executable(action[a]) => Granted(action[a])
    /\ \A a \in Action : action[a].state \in Awaiting => action[a].token
    /\ \A w \in Worker : InExecution(w) => Granted(action[job[w].action])
    /\ \A r \in receipts : Granted(action[r.action])

\* n executions of `a` have left a receipt.
Counted(a, n) ==
    /\ Attempts(a) = 1..n
    /\ action[a].attempt \in 0..n
    /\ action[a].state \in Done => action[a].attempt # 0
    /\ \A w \in Worker : InExecution(w) /\ job[w].action = a =>
           job[w].attempt \in 1..(n + 1) /\ job[w].attempt <= MaxAttempt

ChainInv ==
    /\ \A a \in Action : \E n \in 0..MaxAttempt : Counted(a, n)
    /\ \A r \in receipts : r.prev = r.attempt - 1

Inv == TypeOK /\ GrantInv /\ ChainInv

-----------------------------------------------------------------------------
(* Lemmas about the operators. *)

\* The latest receipt of a chain of n is the n-th.
LEMMA LastOfChain ==
    ASSUME NEW a \in Action, NEW n \in Nat, Attempts(a) = 1..n
    PROVE  LastAttempt(a) = n
<1> DEFINE P(x) == \A m \in Attempts(a) : m <= x
           S == Attempts(a) \cup {0}
<1>1. n \in S /\ P(n)
  OBVIOUS
<1>2. ASSUME NEW x \in S, P(x) PROVE x = n
  <2>1. x \in 0..n
    OBVIOUS
  <2>2. n <= x
    <3>1. CASE n = 0
      BY <2>1, <3>1
    <3>2. CASE n # 0
      BY <1>2, <3>2
    <3> QED BY <3>1, <3>2
  <2> QED BY <2>1, <2>2
<1>3. LastAttempt(a) = CHOOSE x \in S : P(x)
  BY DEF LastAttempt
<1> HIDE DEF S, P
<1> QED BY <1>1, <1>2, <1>3

\* A receipt that is persisted extends the chain by one, or was there already.
LEMMA PersistExtends ==
    ASSUME NEW a \in Action, NEW n \in Nat, NEW k \in 1..(n + 1), NEW res \in Done,
           receipts \subseteq Receipt, Attempts(a) = 1..n,
           NEW after, after = PersistReceipt(a, k, res)
    PROVE  \/ k \in 1..n /\ after = receipts
           \/ /\ k = n + 1
              /\ after = receipts \cup {[action |-> a, attempt |-> k,
                                         result |-> res, prev |-> n]}
<1>1. CASE k \in 1..n
  BY <1>1 DEF PersistReceipt
<1>2. CASE k \notin 1..n
  <2>1. k = n + 1
    BY <1>2
  <2>2. LastAttempt(a) = n
    BY LastOfChain
  <2>3. after = receipts \cup {NewReceipt(a, k, res)}
    BY <1>2 DEF PersistReceipt
  <2> QED BY <2>1, <2>2, <2>3 DEF NewReceipt
<1> QED BY <1>1, <1>2

\* One more receipt of `a` changes the attempts of `a` only.
LEMMA AttemptsGrow ==
    ASSUME NEW a \in Action, NEW k, NEW res, NEW p,
           receipts' = receipts \cup {[action |-> a, attempt |-> k,
                                       result |-> res, prev |-> p]}
    PROVE  /\ Attempts(a)' = Attempts(a) \cup {k}
           /\ \A b \in Action \ {a} : Attempts(b)' = Attempts(b)
<1> DEFINE new == [action |-> a, attempt |-> k, result |-> res, prev |-> p]
<1>1. new.action = a /\ new.attempt = k
  OBVIOUS
<1> HIDE DEF new
<1>2. ReceiptsOf(a)' = ReceiptsOf(a) \cup {new}
  BY <1>1 DEF ReceiptsOf, new
<1>3. Attempts(a)' = Attempts(a) \cup {k}
  BY <1>1, <1>2 DEF Attempts
<1>4. ASSUME NEW b \in Action \ {a} PROVE Attempts(b)' = Attempts(b)
  <2>1. ReceiptsOf(b)' = ReceiptsOf(b)
    BY <1>1 DEF ReceiptsOf, new
  <2> QED BY <2>1 DEF Attempts
<1> QED BY <1>3, <1>4

LEMMA AttemptsKept ==
    ASSUME NEW a \in Action, receipts' = receipts
    PROVE  Attempts(a)' = Attempts(a)
BY DEF Attempts, ReceiptsOf

\* The row an outcome inserts.
LEMMA NewRowType ==
    ASSUME NEW p \in Proposal, NEW e \in Nat,
           NEW o \in {"deny", "require_human", "auto_authorize"}
    PROVE  /\ NewRow(p, o, e) \in Row
           /\ NewRow(p, o, e).attempt = 0
           /\ NewRow(p, o, e).state \in {"denied", "awaiting_authorization", "authorized"}
           /\ NewRow(p, o, e).channel # "human"
           /\ NewRow(p, o, e).state = "authorized" =>
                 NewRow(p, o, e).channel = "policy_auto" /\ ~NewRow(p, o, e).token
           /\ NewRow(p, o, e).state = "awaiting_authorization" => NewRow(p, o, e).token
<1>1. CASE o = "deny"
  BY <1>1 DEF NewRow, AbsentRow, Row, Refused, Open, Done, None, NoTime
<1>2. CASE o = "require_human"
  BY <1>2 DEF NewRow, AbsentRow, Row, Refused, Open, Done, None, NoTime
<1>3. CASE o = "auto_authorize"
  BY <1>3 DEF NewRow, AbsentRow, Row, Refused, Open, Done, None, NoTime
<1> QED BY <1>1, <1>2, <1>3

\* An action that has no row yet has no receipt and nobody executes it.
LEMMA AbsentUntouched ==
    ASSUME GrantInv, NEW a \in Action, action[a].state = "absent"
    PROVE  /\ Attempts(a) = {}
           /\ \A w \in Worker : InExecution(w) => job[w].action # a
BY DEF GrantInv, Granted, Attempts, ReceiptsOf, Done

\* An expiry changes the state of overdue awaiting rows and nothing else.
LEMMA ExpireRow ==
    ASSUME TypeOK, NEW now
    PROVE  \A b \in Action :
      LET x == ExpireAwaiting(now)[b]
      IN /\ x \in Row
         /\ \/ x = action[b] /\ ~(action[b].state \in Awaiting /\ action[b].expires < now)
            \/ action[b].state \in Awaiting /\ x.state = "expired"
         /\ x.channel = action[b].channel /\ x.decided = action[b].decided
         /\ x.expires = action[b].expires /\ x.attempt = action[b].attempt
<1> TAKE b \in Action
<1> DEFINE x == ExpireAwaiting(now)[b]
<1> DEFINE y == [action[b] EXCEPT !.state = "expired"]
<1>1. action[b] \in Row
  BY DEF TypeOK
<1>2. /\ y \in Row /\ y.state = "expired"
      /\ y.channel = action[b].channel /\ y.decided = action[b].decided
      /\ y.expires = action[b].expires /\ y.attempt = action[b].attempt
  BY <1>1 DEF Row, Refused
<1>3. x = IF action[b].state \in Awaiting /\ action[b].expires < now
          THEN y ELSE action[b]
  BY DEF ExpireAwaiting
<1> HIDE DEF x, y
<1>4. /\ x \in Row
      /\ \/ x = action[b] /\ ~(action[b].state \in Awaiting /\ action[b].expires < now)
         \/ action[b].state \in Awaiting /\ x.state = "expired"
      /\ x.channel = action[b].channel /\ x.decided = action[b].decided
      /\ x.expires = action[b].expires /\ x.attempt = action[b].attempt
  BY <1>1, <1>2, <1>3
<1> QED BY <1>4 DEF x

-----------------------------------------------------------------------------
(* The inductive invariant. *)

LEMMA InvInit == Init => Inv
<1> SUFFICES ASSUME Init PROVE Inv
  OBVIOUS
<1>1. TypeOK
  BY NoneAssumption DEF Init, TypeOK, Row, AbsentRow, Job, IdleJob, Done, Open,
     Refused, None, NoTime
<1>2. GrantInv
  BY DEF Init, GrantInv, Executable, Granted, AbsentRow, Awaiting, Done, InExecution,
     IdleJob
<1>3. ChainInv
  <2>1. ASSUME NEW a \in Action PROVE Counted(a, 0)
    BY DEF Init, Counted, Attempts, ReceiptsOf, AbsentRow, Done, InExecution, IdleJob
  <2> QED BY <2>1, BoundAssumption DEF ChainInv, Init
<1> QED BY <1>1, <1>2, <1>3 DEF Inv

LEMMA TypeStep == Inv /\ [Next]_vars => TypeOK'
<1> SUFFICES ASSUME Inv, [Next]_vars PROVE TypeOK'
  OBVIOUS
<1> USE DEF Inv
<1>1. ASSUME NEW w \in Worker, NEW r \in Request, NEW p \in Policies,
             BeginPropose(w, r, p)
      PROVE  TypeOK'
  <2>1. r.proposal \in Proposal /\ r.record \in BOOLEAN
    BY InputAssumption DEF Requests
  <2>2. clock + Timeout \in Nat
    BY BoundAssumption DEF TypeOK
  <2>3. (IF p = NoPolicy THEN DefaultOutcome(r) ELSE Outcome(p, r))
            \in {"deny", "require_human", "auto_authorize"}
    BY DEF DefaultOutcome, Outcome
  <2> DEFINE o == IF p = NoPolicy THEN DefaultOutcome(r) ELSE Outcome(p, r)
             new == [IdleJob EXCEPT !.pc = "insert", !.proposal = r.proposal,
                        !.record = r.record, !.expires = clock + Timeout, !.outcome = o]
  <2>4. /\ action' = action /\ receipts' = receipts /\ lock' = lock /\ clock' = clock
        /\ job' = [job EXCEPT ![w] = new]
    BY <1>1 DEF BeginPropose
  <2>5. r.proposal # None
    BY <2>1, NoneAssumption
  <2>6. new \in Job /\ new.pc = "insert" /\ new.outcome # None /\ new.proposal # None
    <3> HIDE DEF o
    <3>1. o \in {"deny", "require_human", "auto_authorize"}
      BY <2>3 DEF o
    <3> QED BY <2>1, <2>2, <2>5, <3>1 DEF Job, IdleJob, Done, None
  <2> HIDE DEF new
  <2> QED BY <2>4, <2>6 DEF TypeOK
<1>2. ASSUME NEW w \in Worker, Insert(w) PROVE TypeOK'
  <2> DEFINE new == NewRow(job[w].proposal, job[w].outcome, job[w].expires)
  <2>1. PICK a \in Action :
          /\ action[a].state = "absent"
          /\ IF job[w].record /\ new.state = "authorized"
             THEN /\ action' = [action EXCEPT ![a] =
                                   [new EXCEPT !.state = "completed", !.attempt = 1]]
                  /\ receipts' = PersistReceipt(a, 1, "completed")
             ELSE /\ action' = [action EXCEPT ![a] = new]
                  /\ UNCHANGED receipts
    BY <1>2 DEF Insert
  <2>2. new \in Row
    BY <1>2, NewRowType DEF Insert, TypeOK, Job, None
  <2>3. receipts' \subseteq Receipt
    <3>1. CASE job[w].record /\ new.state = "authorized"
      <4>1. Attempts(a) = 1..0
        BY <2>1, AbsentUntouched
      <4>2. receipts' = receipts \cup {[action |-> a, attempt |-> 1,
                                        result |-> "completed", prev |-> 0]}
        <5>1. receipts' = PersistReceipt(a, 1, "completed")
          BY <2>1, <3>1
        <5>2. 1 \in 1..(0 + 1) /\ 0 \in Nat /\ "completed" \in Done /\ 1 \notin 1..0
          BY DEF Done
        <5>3. receipts \subseteq Receipt
          BY DEF TypeOK
        <5> HIDE DEF new
        <5> QED BY <4>1, <5>1, <5>2, <5>3, PersistExtends
      <4> QED BY <4>2 DEF TypeOK, Receipt, Done
    <3>2. CASE ~(job[w].record /\ new.state = "authorized")
      BY <2>1, <3>2 DEF TypeOK
    <3> QED BY <3>1, <3>2
  <2>4. action' \in [Action -> Row]
    <3> HIDE DEF new
    <3>1. [new EXCEPT !.state = "completed", !.attempt = 1] \in Row
      BY <2>2 DEF Row, Done
    <3> QED BY <2>1, <2>2, <3>1 DEF TypeOK
  <2>5. job' = [job EXCEPT ![w] = IdleJob] /\ UNCHANGED <<lock, clock>>
    BY <1>2 DEF Insert, Finish
  <2> QED BY <2>3, <2>4, <2>5 DEF TypeOK, Job, IdleJob, Done
<1>3. ASSUME NEW w \in Worker, NEW a \in Action, BeginExecute(w, a) PROVE TypeOK'
  <2>1. NextAttempt(action[a]) \in Nat
    BY DEF TypeOK, Row, NextAttempt
  <2> QED BY <1>3, <2>1, NoneAssumption DEF BeginExecute, TypeOK, Job, IdleJob, Done
<1>4. ASSUME NEW w \in Worker, NEW res \in Done, RunExecutor(w, res) PROVE TypeOK'
  <2> DEFINE new == [job[w] EXCEPT !.pc = "ran", !.result = res]
  <2>1. /\ job[w] \in Job /\ job[w].action # None
        /\ action' = action /\ receipts' = receipts /\ lock' = w /\ clock' = clock
        /\ job' = [job EXCEPT ![w] = new]
    BY <1>4 DEF RunExecutor, TypeOK
  <2>2. new \in Job /\ new.pc = "ran" /\ new.action # None
    BY <2>1 DEF Job
  <2> HIDE DEF new
  <2> QED BY <2>1, <2>2 DEF TypeOK
<1>5. ASSUME NEW w \in Worker, CommitExecution(w) PROVE TypeOK'
  <2> DEFINE a == job[w].action  k == job[w].attempt
  <2>1. a \in Action /\ k \in Nat /\ job[w].result \in Done /\ InExecution(w)
    BY <1>5 DEF CommitExecution, TypeOK, Job, InExecution
  <2>2. PICK n \in 0..MaxAttempt : Counted(a, n)
    BY <2>1 DEF ChainInv
  <2>3. k \in 1..(n + 1) /\ Attempts(a) = 1..n
    BY <2>1, <2>2 DEF Counted
  <2>4. receipts' = PersistReceipt(a, k, job[w].result)
    BY <1>5 DEF CommitExecution
  <2>5. receipts' = receipts
        \/ receipts' = receipts \cup {[action |-> a, attempt |-> k,
                                       result |-> job[w].result, prev |-> n]}
    BY <2>1, <2>3, <2>4, PersistExtends DEF TypeOK
  <2>6. receipts' \subseteq Receipt
    BY <2>1, <2>5 DEF TypeOK, Receipt
  <2>7. action' \in [Action -> Row]
    BY <1>5, <2>1 DEF CommitExecution, TypeOK, Row
  <2>8. job' = [job EXCEPT ![w] = IdleJob] /\ lock' = NoWorker /\ clock' = clock
    BY <1>5 DEF CommitExecution, Finish
  <2> QED BY <2>6, <2>7, <2>8 DEF TypeOK, Job, IdleJob, Done
<1>6. ASSUME NEW w \in Worker, LockTimeout(w) PROVE TypeOK'
  BY <1>6 DEF LockTimeout, Finish, TypeOK, Job, IdleJob, Done
<1>7. ASSUME NEW a \in Action, NEW p \in Proposal, LogDenied(a, p) PROVE TypeOK'
  BY <1>7 DEF LogDenied, TypeOK, Row, AbsentRow, Refused, None, NoTime
<1>8. ASSUME NEW a \in Action, NEW d \in Decision, NEW now \in 0..MaxTime,
             Decide(a, d, now)
      PROVE  TypeOK'
  <2>1. ExpireAwaiting(now) \in [Action -> Row]
    BY DEF TypeOK, ExpireAwaiting, Row, Refused
  <2>2. action' \in [Action -> Row]
    <3> DEFINE seen == ExpireAwaiting(now)
    <3>1. d \in {"authorized", "denied", "cancelled"} /\ clock \in Nat
      BY InputAssumption DEF TypeOK
    <3>2. action' = [seen EXCEPT ![a].state = d, ![a].decided = clock,
                                 ![a].channel = "human"]
      BY <1>8 DEF Decide, SeenByDecision
    <3> HIDE DEF seen
    <3>3. [seen[a] EXCEPT !.state = d, !.decided = clock, !.channel = "human"] \in Row
      BY <2>1, <3>1 DEF Row, Refused, Open, seen
    <3>4. action' = [seen EXCEPT ![a] = [seen[a] EXCEPT !.state = d, !.decided = clock,
                                                      !.channel = "human"]]
      BY <2>1, <3>2 DEF seen
    <3> QED BY <2>1, <3>3, <3>4 DEF seen
  <2> QED BY <1>8, <2>2 DEF Decide, TypeOK
<1>9. ASSUME NEW now \in 0..MaxTime, ExpirePending(now) PROVE TypeOK'
  BY <1>9 DEF ExpirePending, ExpireAwaiting, TypeOK, Row, Refused
<1>10. CASE Crash
  BY <1>10 DEF Crash, TypeOK, Job, IdleJob, Done
<1>11. CASE Tick
  BY <1>11 DEF Tick, TypeOK
<1>12. CASE UNCHANGED vars
  BY <1>12 DEF vars, TypeOK
<1> QED BY <1>1, <1>2, <1>3, <1>4, <1>5, <1>6, <1>7, <1>8, <1>9, <1>10, <1>11, <1>12
        DEF Next, WorkerStep, ActionStep

\* Every granted row stays granted in a step that keeps the rows that could be
\* executed, or only writes an execution's result to them.
Keeps(a) ==
    Granted(action[a]) => Granted(action'[a])

LEMMA GrantStep == Inv /\ [Next]_vars => GrantInv'
<1> SUFFICES ASSUME Inv, [Next]_vars PROVE GrantInv'
  OBVIOUS
<1> USE DEF Inv
<1>a. ASSUME \A a \in Action : Keeps(a)
                 /\ (Executable(action'[a]) => Granted(action'[a]))
                 /\ (action'[a].state \in Awaiting => action'[a].token),
             \A w \in Worker : InExecution(w)' => Granted(action[job'[w].action])
                                              /\ job'[w].action \in Action,
             \A r \in receipts' : Granted(action[r.action]) /\ r.action \in Action
      PROVE  GrantInv'
  BY <1>a DEF GrantInv, Keeps
<1>b. \A w \in Worker : InExecution(w) => Granted(action[job[w].action])
                                        /\ job[w].action \in Action
  BY DEF GrantInv, InExecution, TypeOK, Job
<1>c. \A r \in receipts : Granted(action[r.action]) /\ r.action \in Action
  BY DEF GrantInv, TypeOK, Receipt
<1>d. ASSUME action' = action
      PROVE  \A a \in Action : Keeps(a)
                 /\ (Executable(action'[a]) => Granted(action'[a]))
                 /\ (action'[a].state \in Awaiting => action'[a].token)
  BY <1>d DEF GrantInv, Keeps
<1>1. ASSUME NEW w \in Worker, NEW r \in Request, NEW p \in Policies,
             BeginPropose(w, r, p)
      PROVE  GrantInv'
  <2>1. action' = action /\ receipts' = receipts
        /\ \A v \in Worker : InExecution(v)' => InExecution(v) /\ job'[v] = job[v]
    BY <1>1 DEF BeginPropose, InExecution, TypeOK, IdleJob
  <2> QED BY <1>a, <1>b, <1>c, <1>d, <2>1
<1>2. ASSUME NEW w \in Worker, Insert(w) PROVE GrantInv'
  <2> DEFINE new == NewRow(job[w].proposal, job[w].outcome, job[w].expires)
             done == [new EXCEPT !.state = "completed", !.attempt = 1]
  <2>1. PICK a \in Action :
          /\ action[a].state = "absent"
          /\ IF job[w].record /\ new.state = "authorized"
             THEN /\ action' = [action EXCEPT ![a] = done]
                  /\ receipts' = PersistReceipt(a, 1, "completed")
             ELSE /\ action' = [action EXCEPT ![a] = new]
                  /\ UNCHANGED receipts
    BY <1>2 DEF Insert
  <2>2. /\ new \in Row
        /\ new.state \in {"denied", "awaiting_authorization", "authorized"}
        /\ new.state = "authorized" => new.channel = "policy_auto" /\ ~new.token
        /\ new.state = "awaiting_authorization" => new.token
    BY <1>2, NewRowType DEF Insert, TypeOK, Job, None
  <2>3. \A v \in Worker : InExecution(v)' => InExecution(v) /\ job'[v] = job[v]
    BY <1>2 DEF Insert, Finish, InExecution, TypeOK, IdleJob
  <2>4. \A b \in Action \ {a} : action'[b] = action[b]
    <3> HIDE DEF new, done
    <3> QED BY <2>1 DEF TypeOK
  <2>5. \A w2 \in Worker : InExecution(w2) => job[w2].action # a
    BY <2>1, AbsentUntouched
  <2>6. \A r \in receipts : r.action # a
    BY <1>c, <2>1 DEF Granted, Done
  <2>7. CASE job[w].record /\ new.state = "authorized"
    <3>1. done \in Row /\ done.state = "completed" /\ done.channel = "policy_auto"
          /\ ~done.token
      <4> HIDE DEF new
      <4> QED BY <2>2, <2>7 DEF Row, Done
    <3> HIDE DEF new, done
    <3>2. action'[a] = done
      BY <2>1, <2>7 DEF TypeOK
    <3>3. receipts' = receipts \/ \E k, p :
            receipts' = receipts \cup {[action |-> a, attempt |-> k,
                                        result |-> "completed", prev |-> p]}
      BY <2>1, <2>7 DEF PersistReceipt, NewReceipt
    <3>4. Granted(done) /\ done.state \notin Awaiting
      BY <3>1 DEF Granted, Done, Awaiting
    <3>5. \A b \in Action : Executable(action'[b]) => Granted(action'[b])
      BY <2>4, <3>2, <3>4 DEF GrantInv
    <3>6. \A b \in Action : action'[b].state \in Awaiting => action'[b].token
      BY <2>4, <3>2, <3>4 DEF GrantInv
    <3>7. \A v \in Worker : InExecution(v)' => Granted(action'[job'[v].action])
      BY <1>b, <2>3, <2>4, <2>5
    <3>8. \A r \in receipts' : Granted(action'[r.action])
      BY <1>c, <2>4, <2>6, <3>2, <3>3, <3>4
    <3> QED BY <3>5, <3>6, <3>7, <3>8 DEF GrantInv
  <2>8. CASE ~(job[w].record /\ new.state = "authorized")
    <3>1. Executable(new) => Granted(new)
      <4> HIDE DEF new
      <4> QED BY <2>2 DEF Executable, Granted, Done
    <3>2. new.state \in Awaiting => new.token
      <4> HIDE DEF new
      <4> QED BY <2>2 DEF Awaiting
    <3> HIDE DEF new, done
    <3>3. action'[a] = new /\ receipts' = receipts
      BY <2>1, <2>8 DEF TypeOK
    <3>5. \A b \in Action : Executable(action'[b]) => Granted(action'[b])
      BY <2>4, <3>1, <3>3 DEF GrantInv
    <3>6. \A b \in Action : action'[b].state \in Awaiting => action'[b].token
      BY <2>4, <3>2, <3>3 DEF GrantInv
    <3>7. \A v \in Worker : InExecution(v)' => Granted(action'[job'[v].action])
      BY <1>b, <2>3, <2>4, <2>5
    <3>8. \A r \in receipts' : Granted(action'[r.action])
      BY <1>c, <2>4, <2>6, <3>3
    <3> QED BY <3>5, <3>6, <3>7, <3>8 DEF GrantInv
  <2> QED BY <2>7, <2>8
<1>3. ASSUME NEW w \in Worker, NEW a \in Action, BeginExecute(w, a) PROVE GrantInv'
  <2>1. /\ action' = action /\ receipts' = receipts
        /\ \A v \in Worker \ {w} : job'[v] = job[v]
        /\ job'[w].action = a
    BY <1>3 DEF BeginExecute, TypeOK, IdleJob
  <2>2. Granted(action[a])
    BY <1>3 DEF BeginExecute, GrantInv
  <2>3. \A v \in Worker : InExecution(v)' => Granted(action[job'[v].action])
                                          /\ job'[v].action \in Action
    BY <1>b, <2>1, <2>2 DEF InExecution
  <2> QED BY <1>a, <1>c, <1>d, <2>1, <2>3
<1>4. ASSUME NEW w \in Worker, NEW res \in Done, RunExecutor(w, res) PROVE GrantInv'
  <2>1. action' = action /\ receipts' = receipts
        /\ \A v \in Worker : InExecution(v)' =>
               InExecution(v) /\ job'[v].action = job[v].action
    BY <1>4 DEF RunExecutor, InExecution, TypeOK
  <2> QED BY <1>a, <1>b, <1>c, <1>d, <2>1
<1>5. ASSUME NEW w \in Worker, CommitExecution(w) PROVE GrantInv'
  <2> DEFINE a == job[w].action
             new == [action[a] EXCEPT !.state = job[w].result, !.attempt = job[w].attempt]
  <2>1. a \in Action /\ Granted(action[a]) /\ action[a] \in Row /\ job[w].result \in Done
    BY <1>5, <1>b DEF CommitExecution, TypeOK, Job, InExecution
  <2>2. action' = [action EXCEPT ![a] = new]
        /\ receipts' = PersistReceipt(a, job[w].attempt, job[w].result)
    BY <1>5, <2>1 DEF CommitExecution, TypeOK
  <2>3. Granted(new) /\ new.state \notin Awaiting
    BY <2>1 DEF Granted, Row, Done, Awaiting
  <2>4. \A v \in Worker : InExecution(v)' => InExecution(v) /\ job'[v] = job[v]
    BY <1>5 DEF CommitExecution, Finish, InExecution, TypeOK, IdleJob
  <2>5. \A r \in receipts' : Granted(action[r.action]) /\ r.action \in Action
    BY <1>c, <2>1, <2>2 DEF PersistReceipt, NewReceipt
  <2> HIDE DEF new
  <2>6. \A b \in Action : action'[b] = IF b = a THEN new ELSE action[b]
    BY <2>2 DEF TypeOK
  <2>7. \A b \in Action : Keeps(b)
                 /\ (Executable(action'[b]) => Granted(action'[b]))
                 /\ (action'[b].state \in Awaiting => action'[b].token)
    BY <2>3, <2>6 DEF Keeps, GrantInv
  <2> QED BY <1>a, <1>b, <2>4, <2>5, <2>7
<1>6. ASSUME NEW w \in Worker, LockTimeout(w) PROVE GrantInv'
  <2>1. action' = action /\ receipts' = receipts
        /\ \A v \in Worker : InExecution(v)' => InExecution(v) /\ job'[v] = job[v]
    BY <1>6 DEF LockTimeout, Finish, InExecution, TypeOK, IdleJob
  <2> QED BY <1>a, <1>b, <1>c, <1>d, <2>1
<1>7. ASSUME NEW a \in Action, NEW p \in Proposal, LogDenied(a, p) PROVE GrantInv'
  <2>1. /\ action[a].state = "absent"
        /\ action'[a].state = "denied"
        /\ \A b \in Action \ {a} : action'[b] = action[b]
        /\ receipts' = receipts /\ job' = job
    BY <1>7 DEF LogDenied, TypeOK, AbsentRow
  <2>2. \A b \in Action : Keeps(b)
                 /\ (Executable(action'[b]) => Granted(action'[b]))
                 /\ (action'[b].state \in Awaiting => action'[b].token)
    BY <2>1 DEF Keeps, GrantInv, Granted, Executable, Done, Awaiting
  <2> QED BY <1>a, <1>b, <1>c, <2>1, <2>2 DEF InExecution
<1>8. ASSUME NEW a \in Action, NEW d \in Decision, NEW now \in 0..MaxTime,
             Decide(a, d, now)
      PROVE  GrantInv'
  <2> DEFINE seen == ExpireAwaiting(now)
  <2>1. /\ \A b \in Action : seen[b] \in Row
        /\ \A b \in Action : seen[b] = action[b]
              \/ (action[b].state \in Awaiting /\ seen[b].state = "expired")
    BY ExpireRow
  <2>2. seen[a].state \in Awaiting /\ receipts' = receipts /\ job' = job
    BY <1>8 DEF Decide, SeenByDecision, Decidable
  <2>3. action' = [seen EXCEPT ![a].state = d, ![a].decided = clock, ![a].channel = "human"]
    BY <1>8 DEF Decide, SeenByDecision
  <2>4. /\ action'[a].token = seen[a].token /\ action'[a].channel = "human"
        /\ action'[a].state = d
        /\ \A b \in Action \ {a} : action'[b] = seen[b]
    BY <2>1, <2>3 DEF ExpireAwaiting, Row
  <2>5. action[a].state \in Awaiting /\ action'[a].token
    <3>1. seen[a] = action[a]
      BY <2>1, <2>2 DEF Awaiting
    <3> HIDE DEF seen
    <3> QED BY <2>2, <2>4, <3>1 DEF GrantInv
  <2>6. d \in {"authorized", "denied", "cancelled"}
    BY InputAssumption
  <2> HIDE DEF seen
  <2>7. Keeps(a) /\ (Executable(action'[a]) => Granted(action'[a]))
        /\ (action'[a].state \in Awaiting => action'[a].token)
    BY <2>4, <2>5, <2>6 DEF Keeps, Executable, Granted, Done, Awaiting
  <2>8. ASSUME NEW b \in Action \ {a}
        PROVE  Keeps(b) /\ (Executable(action'[b]) => Granted(action'[b]))
               /\ (action'[b].state \in Awaiting => action'[b].token)
    BY <2>1, <2>4 DEF Keeps, Executable, Granted, GrantInv, Done, Awaiting
  <2> QED BY <1>a, <1>b, <1>c, <2>2, <2>7, <2>8 DEF InExecution
<1>9. ASSUME NEW now \in 0..MaxTime, ExpirePending(now) PROVE GrantInv'
  <2>1. \A b \in Action : action'[b] = action[b]
            \/ (action[b].state \in Awaiting /\ action'[b].state = "expired")
    BY <1>9, ExpireRow DEF ExpirePending
  <2>2. receipts' = receipts /\ job' = job
    BY <1>9 DEF ExpirePending
  <2>3. \A b \in Action : Keeps(b)
                 /\ (Executable(action'[b]) => Granted(action'[b]))
                 /\ (action'[b].state \in Awaiting => action'[b].token)
    BY <2>1 DEF Keeps, GrantInv, Granted, Executable, Done, Awaiting
  <2> QED BY <1>a, <1>b, <1>c, <2>2, <2>3 DEF InExecution
<1>10. CASE Crash
  <2>1. action' = action /\ receipts' = receipts /\ \A v \in Worker : ~InExecution(v)'
    BY <1>10 DEF Crash, InExecution, IdleJob
  <2> QED BY <1>a, <1>c, <1>d, <2>1
<1>11. CASE Tick
  BY <1>11, <1>a, <1>b, <1>c, <1>d DEF Tick, InExecution
<1>12. CASE UNCHANGED vars
  BY <1>12, <1>a, <1>b, <1>c, <1>d DEF vars, InExecution
<1> QED BY <1>1, <1>2, <1>3, <1>4, <1>5, <1>6, <1>7, <1>8, <1>9, <1>10, <1>11, <1>12
        DEF Next, WorkerStep, ActionStep

\* The chain of an action whose receipts stay, and whose jobs stay or end.
LEMMA CountedKept ==
    ASSUME NEW a \in Action, NEW n \in 0..MaxAttempt, Counted(a, n),
           receipts' = receipts, action'[a].attempt \in 0..n,
           action'[a].state \in Done => action'[a].attempt # 0,
           \A w \in Worker : InExecution(w)' => InExecution(w)
               /\ job'[w].action = job[w].action /\ job'[w].attempt = job[w].attempt
    PROVE  Counted(a, n)'
<1>1. Attempts(a)' = Attempts(a)
  BY AttemptsKept
<1> QED BY <1>1 DEF Counted

LEMMA ChainStep == Inv /\ [Next]_vars => ChainInv'
<1> SUFFICES ASSUME Inv, [Next]_vars PROVE ChainInv'
  OBVIOUS
<1> USE DEF Inv
<1> DEFINE JobsKept == \A w \in Worker : InExecution(w)' => InExecution(w)
               /\ job'[w].action = job[w].action /\ job'[w].attempt = job[w].attempt
<1>a. ASSUME receipts' = receipts, JobsKept,
             \A a \in Action :
               \/ /\ action'[a].attempt = action[a].attempt
                  /\ action'[a].state \in Done => action[a].state \in Done
               \/ /\ action'[a].attempt = 0
                  /\ action'[a].state \notin Done
      PROVE  ChainInv'
  <2>1. ASSUME NEW a \in Action PROVE \E n \in 0..MaxAttempt : Counted(a, n)'
    <3>1. PICK n \in 0..MaxAttempt : Counted(a, n)
      BY DEF ChainInv
    <3>2. action'[a].attempt \in 0..n /\ (action'[a].state \in Done => action'[a].attempt # 0)
      BY <1>a, <3>1 DEF Counted
    <3>3. Counted(a, n)'
      BY <1>a, <3>1, <3>2, CountedKept
    <3> QED BY <3>3
  <2> QED BY <1>a, <2>1 DEF ChainInv
<1>b. ASSUME action' = action, receipts' = receipts, JobsKept PROVE ChainInv'
  BY <1>a, <1>b
<1>1. ASSUME NEW w \in Worker, NEW r \in Request, NEW p \in Policies,
             BeginPropose(w, r, p)
      PROVE  ChainInv'
  <2>1. action' = action /\ receipts' = receipts /\ JobsKept
    BY <1>1 DEF BeginPropose, InExecution, TypeOK, IdleJob
  <2> QED BY <1>b, <2>1
<1>2. ASSUME NEW w \in Worker, Insert(w) PROVE ChainInv'
  <2> DEFINE new == NewRow(job[w].proposal, job[w].outcome, job[w].expires)
             done == [new EXCEPT !.state = "completed", !.attempt = 1]
  <2>1. PICK a \in Action :
          /\ action[a].state = "absent"
          /\ IF job[w].record /\ new.state = "authorized"
             THEN /\ action' = [action EXCEPT ![a] = done]
                  /\ receipts' = PersistReceipt(a, 1, "completed")
             ELSE /\ action' = [action EXCEPT ![a] = new]
                  /\ UNCHANGED receipts
    BY <1>2 DEF Insert
  <2>2. /\ new \in Row /\ new.attempt = 0
        /\ new.state \in {"denied", "awaiting_authorization", "authorized"}
    BY <1>2, NewRowType DEF Insert, TypeOK, Job, None
  <2>3. JobsKept
    BY <1>2 DEF Insert, Finish, InExecution, TypeOK, IdleJob
  <2>4. \A b \in Action \ {a} : action'[b] = action[b]
    <3> HIDE DEF new, done
    <3> QED BY <2>1 DEF TypeOK
  <2>5. /\ Attempts(a) = {}
        /\ \A v \in Worker : InExecution(v) => job[v].action # a
    BY <2>1, AbsentUntouched
  <2>6. CASE job[w].record /\ new.state = "authorized"
    <3>1. action'[a].state = "completed" /\ action'[a].attempt = 1
      <4>1. done.state = "completed" /\ done.attempt = 1
        <5> HIDE DEF new
        <5> QED BY <2>2 DEF Row
      <4> HIDE DEF new, done
      <4> QED BY <2>1, <2>6, <4>1 DEF TypeOK
    <3> DEFINE rec == [action |-> a, attempt |-> 1, result |-> "completed", prev |-> 0]
    <3>2. receipts' = receipts \cup {rec}
      <4>1. 1 \in 1..(0 + 1) /\ 0 \in Nat /\ "completed" \in Done /\ 1 \notin 1..0
            /\ Attempts(a) = 1..0
        BY <2>5 DEF Done
      <4>2. receipts \subseteq Receipt /\ receipts' = PersistReceipt(a, 1, "completed")
        BY <2>1, <2>6 DEF TypeOK
      <4> HIDE DEF new
      <4> QED BY <4>1, <4>2, PersistExtends
    <3> HIDE DEF new, done
    <3>3. Attempts(a)' = 1..1 /\ \A b \in Action \ {a} : Attempts(b)' = Attempts(b)
      BY <2>5, <3>2, AttemptsGrow
    <3>4. Counted(a, 1)'
      BY <2>3, <2>5, <3>1, <3>3 DEF Counted
    <3>5. ASSUME NEW b \in Action \ {a} PROVE \E n \in 0..MaxAttempt : Counted(b, n)'
      <4>1. PICK n \in 0..MaxAttempt : Counted(b, n)
        BY DEF ChainInv
      <4>2. Counted(b, n)'
        BY <2>3, <2>4, <3>3, <4>1 DEF Counted
      <4> QED BY <4>2
    <3>6. rec.prev = rec.attempt - 1
      OBVIOUS
    <3>7. \A r \in receipts' : r.prev = r.attempt - 1
      BY <3>2, <3>6 DEF ChainInv
    <3>8. 1 \in 0..MaxAttempt
      BY BoundAssumption
    <3> QED BY <3>4, <3>5, <3>7, <3>8 DEF ChainInv
  <2>7. CASE ~(job[w].record /\ new.state = "authorized")
    <3>1. action'[a].attempt = 0 /\ action'[a].state \notin Done
      <4>1. new.state \notin Done /\ new.attempt = 0
        <5> HIDE DEF new
        <5> QED BY <2>2 DEF Done
      <4> HIDE DEF new, done
      <4> QED BY <2>1, <2>7, <4>1 DEF TypeOK
    <3> QED BY <1>a, <2>1, <2>3, <2>4, <2>7, <3>1
  <2> QED BY <2>6, <2>7
<1>3. ASSUME NEW w \in Worker, NEW a \in Action, BeginExecute(w, a) PROVE ChainInv'
  <2>1. /\ action' = action /\ receipts' = receipts
        /\ \A v \in Worker \ {w} : job'[v] = job[v]
        /\ job'[w].action = a /\ job'[w].attempt = action[a].attempt + 1
        /\ action[a].attempt < MaxAttempt
    BY <1>3 DEF BeginExecute, TypeOK, IdleJob, NextAttempt
  <2>2. ASSUME NEW b \in Action PROVE \E n \in 0..MaxAttempt : Counted(b, n)'
    <3>1. PICK n \in 0..MaxAttempt : Counted(b, n)
      BY DEF ChainInv
    <3>2. Attempts(b)' = Attempts(b)
      BY <2>1, AttemptsKept
    <3>3. ASSUME NEW v \in Worker, InExecution(v)', job'[v].action = b
          PROVE  job'[v].attempt \in 1..(n + 1) /\ job'[v].attempt <= MaxAttempt
      <4>1. CASE v = w
        BY <2>1, <3>1, <3>3, <4>1, BoundAssumption DEF Counted
      <4>2. CASE v # w
        BY <2>1, <3>1, <3>3, <4>2 DEF Counted, InExecution
      <4> QED BY <4>1, <4>2
    <3>4. Counted(b, n)'
      BY <2>1, <3>1, <3>2, <3>3 DEF Counted
    <3> QED BY <3>4
  <2> QED BY <2>1, <2>2 DEF ChainInv
<1>4. ASSUME NEW w \in Worker, NEW res \in Done, RunExecutor(w, res) PROVE ChainInv'
  <2>1. action' = action /\ receipts' = receipts /\ JobsKept
    BY <1>4 DEF RunExecutor, InExecution, TypeOK, Job
  <2> QED BY <1>b, <2>1
<1>5. ASSUME NEW w \in Worker, CommitExecution(w) PROVE ChainInv'
  <2>0. PICK a \in Action, k \in Nat, res \in Done :
          job[w].action = a /\ job[w].attempt = k /\ job[w].result = res
    BY <1>5 DEF CommitExecution, TypeOK, Job
  <2>1. InExecution(w) /\ action[a] \in Row /\ receipts \subseteq Receipt
    BY <1>5 DEF CommitExecution, TypeOK, InExecution
  <2>2. PICK n \in 0..MaxAttempt : Counted(a, n)
    BY DEF ChainInv
  <2>3. k \in 1..(n + 1) /\ k <= MaxAttempt /\ Attempts(a) = 1..n /\ n \in Nat
    BY <2>0, <2>1, <2>2 DEF Counted
  <2>4. /\ action'[a].attempt = k
        /\ \A b \in Action \ {a} : action'[b] = action[b]
    BY <1>5, <2>0, <2>1 DEF CommitExecution, TypeOK, Row
  <2>5. JobsKept
    BY <1>5 DEF CommitExecution, Finish, InExecution, TypeOK, IdleJob
  <2> DEFINE rec == [action |-> a, attempt |-> k, result |-> res, prev |-> n]
  <2>6. \/ k \in 1..n /\ receipts' = receipts
        \/ k = n + 1 /\ receipts' = receipts \cup {rec}
    <3>1. receipts' = PersistReceipt(a, k, res)
      BY <1>5, <2>0 DEF CommitExecution
    <3> QED BY <2>1, <2>3, <3>1, PersistExtends
  <2>7. CASE k \in 1..n /\ receipts' = receipts
    <3>1. Counted(a, n)'
      BY <2>1, <2>2, <2>4, <2>5, <2>7, CountedKept
    <3>2. ASSUME NEW b \in Action \ {a} PROVE \E m \in 0..MaxAttempt : Counted(b, m)'
      <4>1. PICK m \in 0..MaxAttempt : Counted(b, m)
        BY DEF ChainInv
      <4>2. Counted(b, m)'
        <5>1. Attempts(b)' = Attempts(b)
          BY <2>7, AttemptsKept
        <5> QED BY <2>4, <2>5, <4>1, <5>1 DEF Counted
      <4> QED BY <4>2
    <3> QED BY <2>7, <3>1, <3>2 DEF ChainInv
  <2>8. CASE k = n + 1 /\ receipts' = receipts \cup {rec}
    <3>1. Attempts(a)' = 1..(n + 1)
          /\ \A b \in Action \ {a} : Attempts(b)' = Attempts(b)
      <4>1. Attempts(a)' = Attempts(a) \cup {k}
            /\ \A b \in Action \ {a} : Attempts(b)' = Attempts(b)
        BY <2>1, <2>8, AttemptsGrow
      <4> QED BY <2>3, <2>8, <4>1
    <3>2. Counted(a, n + 1)' /\ n + 1 \in 0..MaxAttempt
      BY <2>2, <2>3, <2>4, <2>5, <2>8, <3>1, BoundAssumption DEF Counted
    <3>3. ASSUME NEW b \in Action \ {a} PROVE \E m \in 0..MaxAttempt : Counted(b, m)'
      <4>1. PICK m \in 0..MaxAttempt : Counted(b, m)
        BY DEF ChainInv
      <4>2. Counted(b, m)'
        BY <2>4, <2>5, <3>1, <4>1 DEF Counted
      <4> QED BY <4>2
    <3>4. rec.prev = rec.attempt - 1
      BY <2>3, <2>8
    <3>5. \A r \in receipts' : r.prev = r.attempt - 1
      BY <2>8, <3>4 DEF ChainInv
    <3> QED BY <3>2, <3>3, <3>5 DEF ChainInv
  <2> QED BY <2>6, <2>7, <2>8
<1>6. ASSUME NEW w \in Worker, LockTimeout(w) PROVE ChainInv'
  <2>1. action' = action /\ receipts' = receipts /\ JobsKept
    BY <1>6 DEF LockTimeout, Finish, InExecution, TypeOK, IdleJob
  <2> QED BY <1>b, <2>1
<1>7. ASSUME NEW a \in Action, NEW p \in Proposal, LogDenied(a, p) PROVE ChainInv'
  <2>1. /\ action'[a].attempt = 0 /\ action'[a].state \notin Done
        /\ \A b \in Action \ {a} : action'[b] = action[b]
        /\ receipts' = receipts /\ job' = job
    BY <1>7 DEF LogDenied, TypeOK, AbsentRow, Done
  <2>2. JobsKept
    BY <2>1 DEF InExecution
  <2> QED BY <1>a, <2>1, <2>2
<1>8. ASSUME NEW a \in Action, NEW d \in Decision, NEW now \in 0..MaxTime,
             Decide(a, d, now)
      PROVE  ChainInv'
  <2> DEFINE seen == ExpireAwaiting(now)
  <2>1. \A b \in Action : seen[b].attempt = action[b].attempt /\ seen[b] \in Row
            /\ (seen[b].state \in Done => action[b].state \in Done)
    BY ExpireRow DEF Done
  <2>2. /\ receipts' = receipts /\ job' = job
        /\ action' = [seen EXCEPT ![a].state = d, ![a].decided = clock,
                                  ![a].channel = "human"]
    BY <1>8 DEF Decide, SeenByDecision
  <2>3. seen = [b \in Action |-> seen[b]]
    BY DEF ExpireAwaiting
  <2> HIDE DEF seen
  <2>4. /\ action'[a].attempt = seen[a].attempt /\ action'[a].state = d
        /\ \A b \in Action \ {a} : action'[b] = seen[b]
    BY <2>1, <2>2, <2>3 DEF Row
  <2>5. d \notin Done
    BY InputAssumption DEF Done
  <2>6. JobsKept
    BY <2>2 DEF InExecution
  <2> QED BY <1>a, <2>1, <2>2, <2>4, <2>5, <2>6
<1>9. ASSUME NEW now \in 0..MaxTime, ExpirePending(now) PROVE ChainInv'
  <2>1. \A b \in Action : action'[b].attempt = action[b].attempt
            /\ (action'[b].state \in Done => action[b].state \in Done)
    BY <1>9, ExpireRow DEF ExpirePending, Done
  <2>2. receipts' = receipts /\ JobsKept
    BY <1>9 DEF ExpirePending, InExecution
  <2> QED BY <1>a, <2>1, <2>2
<1>10. CASE Crash
  <2>1. action' = action /\ receipts' = receipts /\ JobsKept
    BY <1>10 DEF Crash, InExecution, IdleJob
  <2> QED BY <1>b, <2>1
<1>11. CASE Tick
  BY <1>11, <1>b DEF Tick, InExecution
<1>12. CASE UNCHANGED vars
  BY <1>12, <1>b DEF vars, InExecution
<1> QED BY <1>1, <1>2, <1>3, <1>4, <1>5, <1>6, <1>7, <1>8, <1>9, <1>10, <1>11, <1>12
        DEF Next, WorkerStep, ActionStep

LEMMA InvHolds == Spec => []Inv
<1>1. Inv /\ [Next]_vars => Inv'
  BY TypeStep, GrantStep, ChainStep DEF Inv
<1> QED BY InvInit, <1>1, PTL DEF Spec

-----------------------------------------------------------------------------
(* The theorems. *)

\* The variables keep their types (the tables of trusted_agent.py).
THEOREM TypeInvariant == Spec => []TypeOK
BY InvHolds, PTL DEF Inv

\* Execution never bypasses the grant (execute_action): whatever an execution
\* read before it took the write lock, it runs only granted actions.
THEOREM GrantBeforeRunHolds == Spec => []GrantBeforeRun
<1>1. Inv => GrantBeforeRun
  BY DEF Inv, GrantInv, GrantBeforeRun, InExecution
<1> QED BY InvHolds, <1>1, PTL

\* Receipts of an action are numbered without a gap, each names the one before it,
\* and an ended action has one of the attempt its row names (persist_receipt).
THEOREM ReceiptChainHolds == Spec => []ReceiptChain
<1>1. Inv => ReceiptChain
  <2> SUFFICES ASSUME Inv, NEW a \in Action
               PROVE  /\ \E n \in 0..MaxAttempt : Attempts(a) = 1..n
                      /\ \A r \in ReceiptsOf(a) : r.prev = r.attempt - 1
                      /\ action[a].state \in Done => action[a].attempt \in Attempts(a)
                      /\ action[a].state # "executing"
    BY DEF ReceiptChain
  <2>1. PICK n \in 0..MaxAttempt : Counted(a, n)
    BY DEF Inv, ChainInv
  <2>2. action[a].state \in Done => action[a].attempt \in Attempts(a)
    BY <2>1 DEF Counted
  <2>3. \A r \in ReceiptsOf(a) : r.prev = r.attempt - 1
    BY DEF Inv, ChainInv, ReceiptsOf
  <2>4. action[a].state # "executing"
    BY DEF Inv, GrantInv, Executable, Granted, Done
  <2> QED BY <2>1, <2>2, <2>3, <2>4 DEF Counted
<1> QED BY InvHolds, <1>1, PTL

\* What a step may do to a row that is written, apart from its commit.
LEMMA RowStep ==
    ASSUME Inv, [Next]_vars, NEW a \in Action, action[a].state # "absent"
    PROVE  \/ action'[a] = action[a]
           \/ /\ action[a].state \in Awaiting
              /\ action'[a].channel = action[a].channel
              /\ action'[a].decided = action[a].decided
              /\ action'[a].expires = action[a].expires
           \/ /\ action[a].state \in Awaiting
              /\ action'[a].expires = action[a].expires
              /\ action'[a].decided <= action'[a].expires + MaxLag
           \/ /\ Granted(action[a])
              /\ action'[a].channel = action[a].channel
              /\ action'[a].decided = action[a].decided
              /\ action'[a].expires = action[a].expires
<1> USE DEF Inv
<1>1. ASSUME NEW w \in Worker, NEW r \in Request, NEW p \in Policies,
             BeginPropose(w, r, p)
      PROVE  action' = action
  BY <1>1 DEF BeginPropose
<1>2. ASSUME NEW w \in Worker, Insert(w) PROVE action'[a] = action[a]
  <2>1. PICK b \in Action :
          /\ action[b].state = "absent"
          /\ \E new : action' = [action EXCEPT ![b] = new]
    BY <1>2 DEF Insert
  <2>2. PICK new : action' = [action EXCEPT ![b] = new]
    BY <2>1
  <2> QED BY <2>1, <2>2 DEF TypeOK
<1>3. ASSUME NEW w \in Worker, NEW b \in Action, BeginExecute(w, b)
      PROVE  action' = action
  BY <1>3 DEF BeginExecute
<1>4. ASSUME NEW w \in Worker, NEW res \in Done, RunExecutor(w, res)
      PROVE  action' = action
  BY <1>4 DEF RunExecutor
<1>5. ASSUME NEW w \in Worker, CommitExecution(w)
      PROVE  \/ action'[a] = action[a]
             \/ /\ Granted(action[a])
                /\ action'[a].channel = action[a].channel
                /\ action'[a].decided = action[a].decided
                /\ action'[a].expires = action[a].expires
  <2>1. PICK b \in Action : job[w].action = b
    BY <1>5 DEF CommitExecution, TypeOK, Job
  <2>2. Granted(action[b])
    BY <1>5, <2>1 DEF CommitExecution, GrantInv, InExecution
  <2>3. action' = [action EXCEPT ![b].state = job[w].result, ![b].attempt = job[w].attempt]
    BY <1>5, <2>1 DEF CommitExecution
  <2>4. CASE a = b
    BY <2>2, <2>3, <2>4 DEF TypeOK, Row
  <2>5. CASE a # b
    BY <2>3, <2>5 DEF TypeOK
  <2> QED BY <2>4, <2>5
<1>6. ASSUME NEW w \in Worker, LockTimeout(w) PROVE action' = action
  BY <1>6 DEF LockTimeout
<1>7. ASSUME NEW b \in Action, NEW p \in Proposal, LogDenied(b, p)
      PROVE  action'[a] = action[a]
  BY <1>7 DEF LogDenied, TypeOK
<1>8. ASSUME NEW b \in Action, NEW d \in Decision, NEW now \in 0..MaxTime,
             Decide(b, d, now)
      PROVE  \/ action'[a] = action[a]
             \/ /\ action[a].state \in Awaiting
                /\ action'[a].channel = action[a].channel
                /\ action'[a].decided = action[a].decided
                /\ action'[a].expires = action[a].expires
             \/ /\ action[a].state \in Awaiting
                /\ action'[a].expires = action[a].expires
                /\ action'[a].decided <= action'[a].expires + MaxLag
  <2> DEFINE seen == ExpireAwaiting(now)
  <2>1. \A c \in Action :
          /\ seen[c] \in Row
          /\ \/ seen[c] = action[c]
                 /\ ~(action[c].state \in Awaiting /\ action[c].expires < now)
             \/ (action[c].state \in Awaiting /\ seen[c].state = "expired")
          /\ seen[c].channel = action[c].channel /\ seen[c].decided = action[c].decided
          /\ seen[c].expires = action[c].expires
    BY ExpireRow
  <2>2. /\ action' = [seen EXCEPT ![b].state = d, ![b].decided = clock,
                                  ![b].channel = "human"]
        /\ seen[b].state \in Awaiting /\ clock - now <= MaxLag
    BY <1>8 DEF Decide, SeenByDecision, Decidable, Stamps
  <2>3. seen = [c \in Action |-> seen[c]]
    BY DEF ExpireAwaiting
  <2> HIDE DEF seen
  <2>4. /\ action'[b].decided = clock /\ action'[b].expires = seen[b].expires
        /\ \A c \in Action \ {b} : action'[c] = seen[c]
    BY <2>1, <2>2, <2>3 DEF Row
  <2>5. CASE a = b
    <3>1. action[b].state \in Awaiting /\ ~(action[b].expires < now)
      BY <2>1, <2>2 DEF Awaiting
    <3>2. action[b].expires \in Int /\ clock \in Int /\ now \in Int /\ MaxLag \in Int
      BY BoundAssumption DEF TypeOK, Row, NoTime
    <3>3. clock <= action[b].expires + MaxLag
      BY <2>2, <3>1, <3>2
    <3> QED BY <2>1, <2>4, <2>5, <3>1, <3>3
  <2>6. CASE a # b
    BY <2>1, <2>4, <2>6
  <2> QED BY <2>5, <2>6
<1>9. ASSUME NEW now \in 0..MaxTime, ExpirePending(now)
      PROVE  \/ action'[a] = action[a]
             \/ /\ action[a].state \in Awaiting
                /\ action'[a].channel = action[a].channel
                /\ action'[a].decided = action[a].decided
                /\ action'[a].expires = action[a].expires
  BY <1>9, ExpireRow DEF ExpirePending
<1>10. CASE Crash
  BY <1>10 DEF Crash
<1>11. CASE Tick
  BY <1>11 DEF Tick
<1>12. CASE UNCHANGED vars
  BY <1>12 DEF vars
<1> QED BY <1>1, <1>2, <1>3, <1>4, <1>5, <1>6, <1>7, <1>8, <1>9, <1>10, <1>11, <1>12
        DEF Next, WorkerStep, ActionStep

\* A row that is inserted was not decided by a human.
LEMMA AbsentStep ==
    ASSUME Inv, [Next]_vars, NEW a \in Action, action[a].state = "absent"
    PROVE  action'[a] = action[a] \/ action'[a].channel # "human"
<1> USE DEF Inv
<1>1. ASSUME NEW w \in Worker, Insert(w)
      PROVE  action'[a] = action[a] \/ action'[a].channel # "human"
  <2> DEFINE new == NewRow(job[w].proposal, job[w].outcome, job[w].expires)
             done == [new EXCEPT !.state = "completed", !.attempt = 1]
  <2>1. PICK b \in Action : action' = [action EXCEPT ![b] = done]
                          \/ action' = [action EXCEPT ![b] = new]
    BY <1>1 DEF Insert
  <2>2. new \in Row /\ new.channel # "human"
    BY <1>1, NewRowType DEF Insert, TypeOK, Job, None
  <2>3. done.channel # "human"
    <3> HIDE DEF new
    <3> QED BY <2>2 DEF Row
  <2> HIDE DEF new, done
  <2> QED BY <2>1, <2>2, <2>3 DEF TypeOK
<1>2. ASSUME NEW b \in Action, NEW p \in Proposal, LogDenied(b, p)
      PROVE  action'[a] = action[a] \/ action'[a].channel # "human"
  BY <1>2 DEF LogDenied, TypeOK, AbsentRow
<1>3. ASSUME NEW b \in Action, NEW d \in Decision, NEW now \in 0..MaxTime,
             Decide(b, d, now)
      PROVE  action'[a] = action[a]
  <2> DEFINE seen == ExpireAwaiting(now)
  <2>1. seen[a] = action[a] /\ seen[a].state \notin Awaiting
    BY ExpireRow DEF Awaiting
  <2>2. /\ action' = [seen EXCEPT ![b].state = d, ![b].decided = clock,
                                  ![b].channel = "human"]
        /\ seen[b].state \in Awaiting
    BY <1>3 DEF Decide, SeenByDecision, Decidable
  <2>3. seen = [c \in Action |-> seen[c]]
    BY DEF ExpireAwaiting
  <2> HIDE DEF seen
  <2> QED BY <2>1, <2>2, <2>3
<1>4. ASSUME NEW now \in 0..MaxTime, ExpirePending(now) PROVE action'[a] = action[a]
  BY <1>4, ExpireRow DEF ExpirePending, Awaiting
<1>5. ASSUME NEW w \in Worker, CommitExecution(w) PROVE action'[a] = action[a]
  <2>1. PICK b \in Action : job[w].action = b /\ Granted(action[b])
    BY <1>5 DEF CommitExecution, TypeOK, Job, GrantInv, InExecution
  <2>2. a # b
    BY <2>1 DEF Granted, Done
  <2> QED BY <1>5, <2>1, <2>2 DEF CommitExecution, TypeOK
<1> QED BY <1>1, <1>2, <1>3, <1>4, <1>5
        DEF Next, WorkerStep, ActionStep, BeginPropose, BeginExecute, RunExecutor,
            LockTimeout, Crash, Tick, vars

\* A refusal stands (decide_authorization, execute_action).
THEOREM RefusalFinalHolds == Spec => RefusalFinal
<1>1. ASSUME Inv, [Next]_vars
      PROVE  \A a \in Action : action[a].state \in Refused => action'[a] = action[a]
  BY <1>1, RowStep DEF Refused, Awaiting, Granted, Done
<1>2. Inv /\ [Next]_vars =>
        [\A a \in Action : action[a].state \in Refused => action'[a] = action[a]]_action
  BY <1>1
<1> QED BY InvHolds, <1>2, PTL DEF Spec, RefusalFinal

\* No decision is later than its action's expiry by more than a handler waits for
\* the write lock (decide_authorization).
THEOREM DecidedInTimeHolds == Spec => []DecidedInTime
<1>1. Init => DecidedInTime
  BY DEF Init, DecidedInTime, AbsentRow, None
<1>2. ASSUME Inv, DecidedInTime, [Next]_vars PROVE DecidedInTime'
  <2> SUFFICES ASSUME NEW a \in Action, action'[a].channel = "human"
               PROVE  action'[a].decided <= action'[a].expires + MaxLag
    BY DEF DecidedInTime
  <2>1. CASE action[a].state # "absent"
    BY <1>2, <2>1, RowStep DEF DecidedInTime
  <2>2. CASE action[a].state = "absent"
    <3>1. action'[a] = action[a] \/ action'[a].channel # "human"
      BY <1>2, <2>2, AbsentStep
    <3> QED BY <1>2, <3>1 DEF DecidedInTime
  <2> QED BY <2>1, <2>2
<1> QED BY InvHolds, <1>1, <1>2, PTL DEF Spec

\* Receipts are never changed or removed (persist_receipt).
THEOREM ReceiptsImmutableHolds == Spec => ReceiptsImmutable
<1>1. [Next]_vars => [receipts \subseteq receipts']_receipts
  BY DEF Next, WorkerStep, ActionStep, BeginPropose, Insert, BeginExecute, RunExecutor,
     CommitExecution, LockTimeout, LogDenied, Decide, ExpirePending, Crash, Tick, vars,
     PersistReceipt
<1> QED BY <1>1, PTL DEF Spec, ReceiptsImmutable

-----------------------------------------------------------------------------
(* The tables implement Authorization. *)

\* What the abstraction sees of each state.
LEMMA Standings ==
    ASSUME NEW row \in Row
    PROVE  /\ row.state = "absent" => StandingOf(row) = "none"
           /\ row.state \in Awaiting => StandingOf(row) = "asked"
           /\ row.state \in Refused => StandingOf(row) = "refused"
           /\ row.state \in {"authorized"} \cup Done => StandingOf(row) = "granted"
BY DEF StandingOf, Awaiting, Refused, Done

LEMMA SeqOfLength ==
    ASSUME NEW S, NEW n \in Nat, NEW f \in [1..n -> S]
    PROVE  f \in Seq(S) /\ Len(f) = n
<1>1. f \in Seq(S)
  BY SeqDef
<1>2. Len(f) \in Nat /\ DOMAIN f = 1..Len(f)
  BY <1>1, LenProperties
<1>3. 1..Len(f) = 1..n
  BY <1>2
<1>4. Len(f) = n
  BY <1>2, <1>3
<1> QED BY <1>1, <1>4

\* The ledger of an action with n receipts is a sequence of n results.
LEMMA LedgerIsSeq ==
    ASSUME receipts \subseteq Receipt, NEW a \in Action, NEW n \in Nat, Attempts(a) = 1..n
    PROVE  LedgerOf(a) \in Seq(Done) /\ Len(LedgerOf(a)) = n
<1>1. ASSUME NEW m \in 1..n
      PROVE  AnyOf({r \in ReceiptsOf(a) : r.attempt = m}).result \in Done
  <2> DEFINE S == {r \in ReceiptsOf(a) : r.attempt = m}
  <2>1. PICK r \in ReceiptsOf(a) : r.attempt = m
    BY DEF Attempts
  <2>2. AnyOf(S) \in S
    BY <2>1 DEF AnyOf
  <2>3. \A q \in S : q.result \in Done
    BY DEF ReceiptsOf, Receipt
  <2> QED BY <2>2, <2>3
<1>2. LedgerOf(a) \in [1..n -> Done]
  BY <1>1 DEF LedgerOf
<1> QED BY <1>2, SeqOfLength

\* A receipt with the next attempt appends its result to the ledger of its action
\* and leaves the others alone.
LEMMA LedgerGrows ==
    ASSUME receipts \subseteq Receipt, NEW a \in Action, NEW n \in Nat, Attempts(a) = 1..n,
           NEW res \in Done,
           receipts' = receipts \cup {[action |-> a, attempt |-> n + 1,
                                       result |-> res, prev |-> n]}
    PROVE  /\ LedgerOf(a)' = Append(LedgerOf(a), res)
           /\ \A b \in Action \ {a} : LedgerOf(b)' = LedgerOf(b)
<1> DEFINE new == [action |-> a, attempt |-> n + 1, result |-> res, prev |-> n]
<1>1. /\ new.action = a /\ new.attempt = n + 1 /\ new.result = res
      /\ new \in Receipt /\ receipts' = receipts \cup {new}
  BY DEF Receipt
<1>2. Attempts(a)' = 1..(n + 1) /\ \A b \in Action \ {a} : Attempts(b)' = Attempts(b)
  <2>1. Attempts(a)' = (1..n) \cup {n + 1}
    BY AttemptsGrow
  <2>2. \A b \in Action \ {a} : Attempts(b)' = Attempts(b)
    BY AttemptsGrow
  <2> QED BY <2>1, <2>2
<1> HIDE DEF new
<1>3. /\ ReceiptsOf(a)' = ReceiptsOf(a) \cup {new}
      /\ \A b \in Action \ {a} : ReceiptsOf(b)' = ReceiptsOf(b)
  BY <1>1 DEF ReceiptsOf
<1>4. \A m \in 1..n : {r \in ReceiptsOf(a) : r.attempt = m}'
                    = {r \in ReceiptsOf(a) : r.attempt = m}
  BY <1>1, <1>3
<1>5. {r \in ReceiptsOf(a) : r.attempt = n + 1}' = {new}
  <2>1. \A r \in ReceiptsOf(a) : r.attempt # n + 1
    BY DEF Attempts
  <2> QED BY <1>1, <1>3, <2>1
<1>6. AnyOf({new}) = new
  BY DEF AnyOf
<1>7. LedgerOf(a) \in Seq(Done) /\ Len(LedgerOf(a)) = n
  BY LedgerIsSeq
<1>8. ASSUME NEW m \in 1..(n + 1)
      PROVE  AnyOf({r \in ReceiptsOf(a) : r.attempt = m}').result
                 = IF m <= n THEN LedgerOf(a)[m] ELSE res
  <2>1. CASE m <= n
    <3>1. m \in 1..n
      BY <2>1
    <3>2. LedgerOf(a)[m] = AnyOf({r \in ReceiptsOf(a) : r.attempt = m}).result
      BY <3>1 DEF LedgerOf
    <3> QED BY <1>4, <2>1, <3>1, <3>2
  <2>2. CASE ~(m <= n)
    <3>1. m = n + 1
      BY <2>2
    <3> QED BY <1>1, <1>5, <1>6, <2>2, <3>1
  <2> QED BY <2>1, <2>2
<1>9. LedgerOf(a)' = [m \in 1..(n + 1) |-> IF m <= n THEN LedgerOf(a)[m] ELSE res]
  BY <1>2, <1>8 DEF LedgerOf
<1>10. LedgerOf(a)' \in Seq(Done) /\ Len(LedgerOf(a)') = n + 1
  <2> DEFINE f == [m \in 1..(n + 1) |-> IF m <= n THEN LedgerOf(a)[m] ELSE res]
  <2>1. \A m \in 1..n : LedgerOf(a)[m] \in Done
    BY <1>7, ElementOfSeq
  <2>2. f \in [1..(n + 1) -> Done]
    BY <2>1
  <2> QED BY <1>9, <2>2, SeqOfLength
<1>11. LedgerOf(a)' = Append(LedgerOf(a), res)
  <2> DEFINE old == LedgerOf(a)  grown == LedgerOf(a)'  app == Append(LedgerOf(a), res)
  <2>1. /\ app \in Seq(Done) /\ Len(app) = n + 1
        /\ \A i \in 1..n : app[i] = old[i]
        /\ app[n + 1] = res
    BY <1>7, AppendProperties
  <2>2. /\ \A i \in 1..n : grown[i] = old[i]
        /\ grown[n + 1] = res
    BY <1>9
  <2>3. grown \in Seq(Done) /\ Len(grown) = n + 1
    BY <1>10
  <2> HIDE DEF old, grown, app
  <2>4. \A i \in 1..Len(grown) : grown[i] = app[i]
    BY <2>1, <2>2, <2>3
  <2>5. grown = app
    BY <2>1, <2>3, <2>4, SeqEqual
  <2> QED BY <2>5 DEF grown, app
<1>12. ASSUME NEW b \in Action \ {a} PROVE LedgerOf(b)' = LedgerOf(b)
  BY <1>2, <1>3 DEF LedgerOf
<1> QED BY <1>11, <1>12

\* A step that keeps what the abstraction sees of the rows, and the receipts,
\* stutters.
LEMMA AuthStutter ==
    ASSUME \A a \in Action : /\ StandingOf(action'[a]) = StandingOf(action[a])
                            /\ OutcomeOfRow(action'[a]) = OutcomeOfRow(action[a]),
           receipts' = receipts
    PROVE  UNCHANGED Abstract!authVars
<1>1. \A a \in Action : LedgerOf(a)' = LedgerOf(a)
  BY DEF LedgerOf, Attempts, ReceiptsOf
<1> QED BY <1>1 DEF Abstract!authVars

\* A row is inserted without being executed.
LEMMA AuthOpens ==
    ASSUME TypeOK, NEW a \in Action, action[a].state = "absent",
           StandingOf(action'[a]) \in {"asked", "granted", "refused"},
           action'[a].state \notin Done,
           \A b \in Action \ {a} : action'[b] = action[b],
           receipts' = receipts
    PROVE  Abstract!AuthNext
<1>1. StandingOf(action[a]) = "none"
  BY Standings DEF TypeOK
<1>2. \A b \in Action : LedgerOf(b)' = LedgerOf(b)
  BY DEF LedgerOf, Attempts, ReceiptsOf
<1>3. \A b \in Action : OutcomeOfRow(action'[b]) = OutcomeOfRow(action[b])
  BY DEF OutcomeOfRow, Done
<1>4. Abstract!Open(a, StandingOf(action'[a]))
  BY <1>1, <1>2, <1>3 DEF Abstract!Open
<1> QED BY <1>4 DEF Abstract!AuthNext

\* Awaiting rows are refused and granted.
LEMMA AuthSettles ==
    ASSUME TypeOK, NEW S \in SUBSET Action, NEW G \in SUBSET Action,
           G = {} \/ \E a \in Action \ S : G = {a},
           \A a \in S \cup G : action[a].state \in Awaiting,
           \A a \in S \ G : StandingOf(action'[a]) = "refused",
           \A a \in G : StandingOf(action'[a]) = "granted",
           \A a \in S \cup G : action'[a].state \notin Done,
           \A a \in Action \ (S \cup G) : action'[a] = action[a],
           receipts' = receipts
    PROVE  Abstract!AuthNext
<1>1. \A a \in S \cup G : StandingOf(action[a]) = "asked"
  BY Standings DEF TypeOK
<1>2. \A a \in Action : LedgerOf(a)' = LedgerOf(a)
  BY DEF LedgerOf, Attempts, ReceiptsOf
<1>3. \A a \in Action : OutcomeOfRow(action'[a]) = OutcomeOfRow(action[a])
  BY DEF OutcomeOfRow, Awaiting, Done
<1>4. Abstract!Settle(S, G)
  BY <1>1, <1>2, <1>3 DEF Abstract!Settle
<1> QED BY <1>4 DEF Abstract!AuthNext

LEMMA AuthStep ==
    ASSUME Inv, [Next]_vars
    PROVE  [Abstract!AuthNext]_(Abstract!authVars)
<1> USE DEF Inv
<1>s. ASSUME action' = action, receipts' = receipts PROVE UNCHANGED Abstract!authVars
  BY <1>s, AuthStutter
<1>1. ASSUME NEW w \in Worker, Insert(w) PROVE Abstract!AuthNext
  <2> DEFINE new == NewRow(job[w].proposal, job[w].outcome, job[w].expires)
             done == [new EXCEPT !.state = "completed", !.attempt = 1]
  <2>1. PICK a \in Action :
          /\ action[a].state = "absent"
          /\ IF job[w].record /\ new.state = "authorized"
             THEN /\ action' = [action EXCEPT ![a] = done]
                  /\ receipts' = PersistReceipt(a, 1, "completed")
             ELSE /\ action' = [action EXCEPT ![a] = new]
                  /\ UNCHANGED receipts
    BY <1>1 DEF Insert
  <2>2. /\ new \in Row
        /\ new.state \in {"denied", "awaiting_authorization", "authorized"}
    BY <1>1, NewRowType DEF Insert, TypeOK, Job, None
  <2>3. CASE job[w].record /\ new.state = "authorized"
    <3>1. done \in Row /\ done.state = "completed"
      <4> HIDE DEF new
      <4> QED BY <2>2 DEF Row, Done
    <3>2. receipts \subseteq Receipt /\ receipts' = PersistReceipt(a, 1, "completed")
      BY <2>1, <2>3 DEF TypeOK
    <3> HIDE DEF new, done
    <3>3. action'[a] = done /\ \A b \in Action \ {a} : action'[b] = action[b]
      BY <2>1, <2>3 DEF TypeOK
    <3>4. Attempts(a) = 1..0
      BY <2>1, AbsentUntouched
    <3>5. 1 \in 1..(0 + 1) /\ 0 \in Nat /\ "completed" \in Done /\ 1 \notin 1..0
      BY DEF Done
    <3>6. receipts' = receipts \cup {[action |-> a, attempt |-> 0 + 1,
                                      result |-> "completed", prev |-> 0]}
      BY <3>2, <3>4, <3>5, PersistExtends
    <3>7. /\ LedgerOf(a)' = Append(LedgerOf(a), "completed")
          /\ \A b \in Action \ {a} : LedgerOf(b)' = LedgerOf(b)
      BY <3>2, <3>4, <3>5, <3>6, LedgerGrows
    <3>8. StandingOf(action[a]) = "none" /\ StandingOf(action'[a]) = "granted"
      BY <2>1, <3>1, <3>3, Standings DEF TypeOK, Done
    <3>9. Abstract!Record(a, "completed")
      <4>1. [b \in Action |-> StandingOf(action'[b])]
              = [[b \in Action |-> StandingOf(action[b])] EXCEPT ![a] = "granted"]
        <5>1. \A b \in Action \ {a} : StandingOf(action'[b]) = StandingOf(action[b])
          BY <3>3
        <5> QED BY <3>8, <5>1
      <4>2. [b \in Action |-> LedgerOf(b)']
              = [[b \in Action |-> LedgerOf(b)] EXCEPT ![a] = Append(@, "completed")]
        BY <3>7
      <4>3. [b \in Action |-> OutcomeOfRow(action'[b])]
              = [[b \in Action |-> OutcomeOfRow(action[b])] EXCEPT ![a] = "completed"]
        BY <3>1, <3>3 DEF OutcomeOfRow, Done
      <4> QED BY <3>8, <4>1, <4>2, <4>3 DEF Abstract!Record, Abstract!Receipted
    <3> QED BY <3>5, <3>9 DEF Abstract!AuthNext
  <2>4. CASE ~(job[w].record /\ new.state = "authorized")
    <3> HIDE DEF new, done
    <3>1. /\ action'[a] = new /\ receipts' = receipts
          /\ \A b \in Action \ {a} : action'[b] = action[b]
      BY <2>1, <2>4 DEF TypeOK
    <3>2. StandingOf(action'[a]) \in {"asked", "granted", "refused"}
      BY <2>2, <3>1, Standings DEF Awaiting, Refused
    <3>3. action'[a].state \notin Done
      BY <2>2, <3>1, <2>4 DEF Done
    <3> QED BY <2>1, <3>1, <3>2, <3>3, AuthOpens
  <2> QED BY <2>3, <2>4
<1>2. ASSUME NEW w \in Worker, CommitExecution(w)
      PROVE  Abstract!AuthNext
  <2> DEFINE k == job[w].attempt  res == job[w].result
  <2>1. PICK a \in Action : job[w].action = a
    BY <1>2 DEF CommitExecution, TypeOK, Job
  <2>2. /\ InExecution(w) /\ Granted(action[a]) /\ res \in Done
        /\ action' = [action EXCEPT ![a].state = res, ![a].attempt = k]
        /\ receipts' = PersistReceipt(a, k, res)
    BY <1>2, <2>1 DEF CommitExecution, InExecution, GrantInv, TypeOK, Job
  <2>3. /\ action'[a] \in Row /\ action'[a].state = res
        /\ \A b \in Action \ {a} : action'[b] = action[b]
    <3>1. k \in Nat
      BY DEF TypeOK, Job
    <3> QED BY <2>2, <3>1 DEF TypeOK, Row
  <2>4. StandingOf(action[a]) = "granted" /\ StandingOf(action'[a]) = "granted"
    BY <2>2, <2>3, Standings DEF TypeOK, Granted
  <2>5. PICK n \in 0..MaxAttempt : Counted(a, n)
    BY DEF ChainInv
  <2>6. k \in 1..(n + 1) /\ Attempts(a) = 1..n /\ receipts \subseteq Receipt /\ n \in Nat
    BY <2>1, <2>2, <2>5 DEF Counted, TypeOK
  <2> HIDE DEF k, res
  <2>o. [b \in Action |-> OutcomeOfRow(action'[b])]
          = [[b \in Action |-> OutcomeOfRow(action[b])] EXCEPT ![a] = res]
    <3>1. OutcomeOfRow(action'[a]) = res
      BY <2>2, <2>3 DEF OutcomeOfRow
    <3>2. \A b \in Action \ {a} : OutcomeOfRow(action'[b]) = OutcomeOfRow(action[b])
      BY <2>3
    <3> QED BY <3>1, <3>2
  <2>7. CASE k \in 1..n /\ receipts' = receipts
    <3>1. LedgerOf(a) # <<>>
      <4>1. Len(LedgerOf(a)) = n /\ n # 0
        BY <2>6, <2>7, LedgerIsSeq
      <4> QED BY <4>1, EmptySeq
    <3>2. \A b \in Action : LedgerOf(b)' = LedgerOf(b)
      BY <2>7 DEF LedgerOf, Attempts, ReceiptsOf
    <3>3. \A b \in Action : StandingOf(action'[b]) = StandingOf(action[b])
      BY <2>3, <2>4
    <3>4. Abstract!Overtaken(a, res)
      BY <2>4, <2>o, <3>1, <3>2, <3>3 DEF Abstract!Overtaken
    <3> QED BY <2>2, <3>4 DEF Abstract!AuthNext
  <2>8. CASE receipts' = receipts \cup {[action |-> a, attempt |-> n + 1,
                                         result |-> res, prev |-> n]}
    <3>1. /\ LedgerOf(a)' = Append(LedgerOf(a), res)
          /\ \A b \in Action \ {a} : LedgerOf(b)' = LedgerOf(b)
      BY <2>2, <2>6, <2>8, LedgerGrows
    <3>2. Abstract!Run(a, res)
      BY <2>3, <2>4, <2>o, <3>1 DEF Abstract!Run, Abstract!Receipted
    <3> QED BY <2>2, <3>2 DEF Abstract!AuthNext
  <2> QED BY <2>2, <2>6, <2>7, <2>8, PersistExtends
<1>3. ASSUME NEW a \in Action, NEW p \in Proposal, LogDenied(a, p)
      PROVE  Abstract!AuthNext
  <2>1. /\ action[a].state = "absent" /\ action'[a].state = "denied" /\ receipts' = receipts
        /\ \A b \in Action \ {a} : action'[b] = action[b]
    BY <1>3 DEF LogDenied, TypeOK, AbsentRow
  <2>2. StandingOf(action'[a]) = "refused" /\ action'[a].state \notin Done
    BY <2>1 DEF StandingOf, Awaiting, Refused, Done
  <2> QED BY <2>1, <2>2, AuthOpens
<1>4. ASSUME NEW now \in 0..MaxTime, ExpirePending(now) PROVE Abstract!AuthNext
  <2> DEFINE S == {b \in Action : action'[b] # action[b]}
  <2>1. \A b \in S : action[b].state \in Awaiting /\ action'[b].state = "expired"
    BY <1>4, ExpireRow DEF ExpirePending
  <2>2. \A b \in S : StandingOf(action'[b]) = "refused" /\ action'[b].state \notin Done
    BY <2>1 DEF StandingOf, Awaiting, Refused, Done
  <2>3. receipts' = receipts
    BY <1>4 DEF ExpirePending
  <2>4. \A b \in Action \ S : action'[b] = action[b]
    OBVIOUS
  <2>5. S \in SUBSET Action /\ {} \in SUBSET Action
    OBVIOUS
  <2> HIDE DEF S
  <2> QED BY <2>1, <2>2, <2>3, <2>4, <2>5, AuthSettles
<1>5. ASSUME NEW a \in Action, NEW d \in Decision, NEW now \in 0..MaxTime,
             Decide(a, d, now)
      PROVE  Abstract!AuthNext
  <2> DEFINE seen == ExpireAwaiting(now)
             E == {b \in Action : seen[b] # action[b]}
  <2>1. \A b \in E : action[b].state \in Awaiting /\ seen[b].state = "expired"
    BY ExpireRow
  <2>2. /\ seen[a].state \in Awaiting /\ receipts' = receipts
        /\ action' = [seen EXCEPT ![a].state = d, ![a].decided = clock,
                                  ![a].channel = "human"]
    BY <1>5 DEF Decide, SeenByDecision, Decidable
  <2>3. seen = [b \in Action |-> seen[b]] /\ seen[a] \in Row
    BY ExpireRow DEF ExpireAwaiting
  <2>4. a \notin E /\ action[a].state \in Awaiting
    BY <2>1, <2>2 DEF Awaiting
  <2> HIDE DEF seen
  <2>5. action'[a].state = d /\ \A b \in Action \ {a} : action'[b] = seen[b]
    BY <2>2, <2>3 DEF Row
  <2>6. \A b \in E : StandingOf(action'[b]) = "refused" /\ action'[b].state \notin Done
    BY <2>1, <2>4, <2>5 DEF StandingOf, Awaiting, Refused, Done
  <2>e. \A b \in Action \ (E \cup {a}) : action'[b] = action[b]
    BY <2>5
  <2>f. E \in SUBSET Action /\ a \in Action \ E /\ \A b \in E \cup {a} : action[b].state \in Awaiting
    BY <2>1, <2>4
  <2> HIDE DEF E
  <2>7. CASE d = "authorized"
    <3>1. StandingOf(action'[a]) = "granted" /\ action'[a].state \notin Done
      BY <2>5, <2>7 DEF StandingOf, Awaiting, Refused, Done
    <3> DEFINE G == {a}
    <3>2. /\ G \in SUBSET Action /\ \E b \in Action \ E : G = {b}
          /\ \A b \in E \cup G : action[b].state \in Awaiting /\ action'[b].state \notin Done
          /\ \A b \in E \ G : StandingOf(action'[b]) = "refused"
          /\ \A b \in G : StandingOf(action'[b]) = "granted"
          /\ \A b \in Action \ (E \cup G) : action'[b] = action[b]
      BY <2>6, <2>e, <2>f, <3>1
    <3> HIDE DEF G
    <3> QED BY <2>2, <2>f, <3>2, AuthSettles
  <2>8. CASE d \in {"denied", "cancelled"}
    <3> DEFINE S == E \cup {a}
    <3>1. StandingOf(action'[a]) = "refused" /\ action'[a].state \notin Done
      BY <2>5, <2>8 DEF StandingOf, Awaiting, Refused, Done
    <3> DEFINE G == {}
    <3>2. /\ S \in SUBSET Action /\ G \in SUBSET Action /\ G = {}
          /\ \A b \in S \cup G : action[b].state \in Awaiting /\ action'[b].state \notin Done
          /\ \A b \in S \ G : StandingOf(action'[b]) = "refused"
          /\ \A b \in G : StandingOf(action'[b]) = "granted"
          /\ \A b \in Action \ (S \cup G) : action'[b] = action[b]
      BY <2>6, <2>e, <2>f, <3>1
    <3> HIDE DEF S, G
    <3> QED BY <2>2, <3>2, AuthSettles
  <2> QED BY <2>7, <2>8, InputAssumption
<1> QED BY <1>s, <1>1, <1>2, <1>3, <1>4, <1>5
        DEF Next, WorkerStep, ActionStep, BeginPropose, BeginExecute, RunExecutor,
            LockTimeout, Crash, Tick, vars

\* Whatever handlers race, wait for the lock or die, each action is asked, granted
\* or refused once and only granted ones are executed; a result is committed with
\* its receipt, appended to the action's ledger, unless the ledger is not empty: a
\* result without a receipt needs an execution of its attempt that was faster
\* (propose_action, decide_authorization, execute_action, persist_receipt).
THEOREM ImplementsAuthorizationHolds == Spec => ImplementsAuthorization
<1>1. ASSUME Init PROVE Abstract!AuthInit
  <2>1. ASSUME NEW a \in Action PROVE LedgerOf(a) = <<>>
    <3>1. receipts \subseteq Receipt /\ Attempts(a) = 1..0
      BY <1>1 DEF Init, Attempts, ReceiptsOf
    <3>2. LedgerOf(a) \in Seq(Done) /\ Len(LedgerOf(a)) = 0
      BY <3>1, LedgerIsSeq
    <3> QED BY <3>2, EmptySeq
  <2>2. \A a \in Action : StandingOf(action[a]) = "none"
    <3>1. \A a \in Action : action[a].state = "absent"
      BY <1>1 DEF Init, AbsentRow
    <3>2. \A a \in Action : action[a] \in Row
      BY <1>1, InvInit DEF Inv, TypeOK
    <3> QED BY <3>1, <3>2, Standings
  <2>3. \A a \in Action : OutcomeOfRow(action[a]) = "none"
    BY <1>1 DEF Init, AbsentRow, OutcomeOfRow, Done
  <2> QED BY <2>1, <2>2, <2>3 DEF Abstract!AuthInit
<1>2. Inv /\ [Next]_vars => [Abstract!AuthNext]_(Abstract!authVars)
  BY AuthStep
<1> QED BY <1>1, <1>2, InvHolds, PTL DEF Spec, ImplementsAuthorization, Abstract!AuthSpec

-----------------------------------------------------------------------------
(* What holds when identical proposals, or executions of one action, do not  *)
(* overlap.  Both are decided from rows read without the write lock: when    *)
(* they overlap, a duplicate is opened (run trusted_agent_duplicate) and an  *)
(* executor runs again (run trusted_agent_once).  Nothing else does that.    *)

\* No two threads propose the same thing at the same time.
OneProposer ==
    \A v, w \in Worker :
        (job[v].pc = "insert" /\ job[w].pc = "insert" /\ job[v].proposal = job[w].proposal)
            => v = w

\* No two threads execute the same action at the same time.
OneExecutor ==
    \A v, w \in Worker :
        (InExecution(v) /\ InExecution(w) /\ job[v].action = job[w].action) => v = w

\* No step but the INSERT opens a row, and none changes what was proposed.
LEMMA OpenKept ==
    ASSUME Inv, [Next]_vars, \A w \in Worker : ~Insert(w),
           NEW a \in Action, action'[a].state \in Open
    PROVE  action[a].state \in Open /\ action'[a].proposal = action[a].proposal
<1> USE DEF Inv
<1>1. ASSUME NEW w \in Worker, CommitExecution(w) PROVE action'[a] = action[a]
  <2>1. PICK b \in Action : job[w].action = b
    BY <1>1 DEF CommitExecution, TypeOK, Job
  <2>2. /\ action' = [action EXCEPT ![b].state = job[w].result, ![b].attempt = job[w].attempt]
        /\ job[w].result \in Done
    BY <1>1, <2>1 DEF CommitExecution, TypeOK, Job
  <2>3. a # b
    BY <2>2 DEF TypeOK, Row, Open, Done
  <2> QED BY <2>2, <2>3 DEF TypeOK
<1>2. ASSUME NEW b \in Action, NEW p \in Proposal, LogDenied(b, p)
      PROVE  action'[a] = action[a]
  BY <1>2 DEF LogDenied, TypeOK, AbsentRow, Open
<1>3. ASSUME NEW now
      PROVE  \/ ExpireAwaiting(now)[a] = action[a]
             \/ ExpireAwaiting(now)[a].state = "expired"
  BY ExpireRow
<1>4. ASSUME NEW now \in 0..MaxTime, ExpirePending(now) PROVE action'[a] = action[a]
  BY <1>3, <1>4 DEF ExpirePending, Open
<1>5. ASSUME NEW b \in Action, NEW d \in Decision, NEW now \in 0..MaxTime,
             Decide(b, d, now)
      PROVE  action[a].state \in Open /\ action'[a].proposal = action[a].proposal
  <2> DEFINE seen == ExpireAwaiting(now)
  <2>1. /\ action' = [seen EXCEPT ![b].state = d, ![b].decided = clock,
                                  ![b].channel = "human"]
        /\ seen[b].state \in Awaiting
    BY <1>5 DEF Decide, SeenByDecision, Decidable
  <2>2. /\ seen = [c \in Action |-> seen[c]]
        /\ seen[a] \in Row
        /\ seen[a] = action[a] \/ seen[a].state = "expired"
    BY <1>3, ExpireRow DEF ExpireAwaiting
  <2> HIDE DEF seen
  <2>3. CASE a = b
    BY <2>1, <2>2, <2>3 DEF Row, Awaiting, Open
  <2>4. CASE a # b
    BY <2>1, <2>2, <2>4 DEF Open
  <2> QED BY <2>3, <2>4
<1> QED BY <1>1, <1>2, <1>4, <1>5
        DEF Next, WorkerStep, ActionStep, BeginPropose, BeginExecute, RunExecutor,
            LockTimeout, Crash, Tick, vars

\* A proposal that found no open duplicate still has none when it inserts.
ProposeInv ==
    /\ \A w \in Worker : job[w].pc = "insert" => ~HasOpen(job[w].proposal)
    /\ NoDuplicateOpen

LEMMA ProposeStep ==
    ASSUME Inv, OneProposer, ProposeInv, [Next]_vars
    PROVE  ProposeInv'
<1> USE DEF Inv
<1>1. CASE \E w \in Worker : Insert(w)
  <2>1. PICK w \in Worker : Insert(w)
    BY <1>1
  <2> DEFINE new == NewRow(job[w].proposal, job[w].outcome, job[w].expires)
             done == [new EXCEPT !.state = "completed", !.attempt = 1]
  <2>2. PICK a \in Action : /\ action[a].state = "absent"
                            /\ \/ action' = [action EXCEPT ![a] = done]
                               \/ action' = [action EXCEPT ![a] = new]
    BY <2>1 DEF Insert
  <2>3. new \in Row /\ new.proposal = job[w].proposal
    <3>1. new \in Row
      BY <2>1, NewRowType DEF Insert, TypeOK, Job, None
    <3> QED BY <3>1 DEF NewRow, AbsentRow, Row
  <2>4. done \in Row /\ done.proposal = job[w].proposal
    <3> HIDE DEF new
    <3> QED BY <2>3 DEF Row, Done
  <2> HIDE DEF new, done
  <2>5. /\ action'[a].proposal = job[w].proposal
        /\ \A b \in Action \ {a} : action'[b] = action[b]
    BY <2>2, <2>3, <2>4 DEF TypeOK
  <2>6. ~HasOpen(job[w].proposal)
    BY <2>1 DEF Insert, ProposeInv
  <2>7. NoDuplicateOpen'
    BY <2>5, <2>6 DEF NoDuplicateOpen, HasOpen, ProposeInv
  <2>8. ASSUME NEW v \in Worker, job'[v].pc = "insert"
        PROVE  ~HasOpen(job[v].proposal)'
    <3>1. v # w /\ job'[v] = job[v]
      BY <2>1, <2>8 DEF Insert, Finish, IdleJob, TypeOK
    <3>2. job[v].proposal # job[w].proposal
      BY <2>1, <2>8, <3>1 DEF OneProposer, Insert
    <3> QED BY <2>5, <2>8, <3>1, <3>2 DEF ProposeInv, HasOpen
  <2> QED BY <2>7, <2>8 DEF ProposeInv
<1>2. CASE \A w \in Worker : ~Insert(w)
  <2>1. \A a \in Action : action'[a].state \in Open =>
            action[a].state \in Open /\ action'[a].proposal = action[a].proposal
    BY <1>2, OpenKept
  <2>2. NoDuplicateOpen'
    BY <2>1 DEF NoDuplicateOpen, ProposeInv
  <2>3. ASSUME NEW w \in Worker, job'[w].pc = "insert"
        PROVE  \/ job'[w] = job[w]
               \/ ~HasOpen(job'[w].proposal)
    <3>1. ASSUME NEW v \in Worker, NEW r \in Request, NEW p \in Policies,
                 BeginPropose(v, r, p)
          PROVE  job'[w] = job[w] \/ ~HasOpen(job'[w].proposal)
      BY <3>1 DEF BeginPropose, TypeOK, IdleJob
    <3>3. ASSUME NEW v \in Worker, NEW a \in Action, BeginExecute(v, a)
          PROVE  job'[w] = job[w]
      BY <2>3, <3>3 DEF BeginExecute, IdleJob, TypeOK
    <3>4. ASSUME NEW v \in Worker, NEW res \in Done, RunExecutor(v, res)
          PROVE  job'[w] = job[w]
      BY <2>3, <3>4 DEF RunExecutor, TypeOK, Job
    <3>5. ASSUME NEW v \in Worker, Finish(v)
          PROVE  job'[w] = job[w]
      BY <2>3, <3>5 DEF Finish, IdleJob, TypeOK
    <3>6. CASE Crash
      BY <2>3, <3>6 DEF Crash, IdleJob
    <3> QED BY <1>2, <3>1, <3>3, <3>4, <3>5, <3>6
            DEF Next, WorkerStep, ActionStep, CommitExecution, LockTimeout, LogDenied,
                Decide, ExpirePending, Tick, vars
  <2>4. ASSUME NEW p, ~HasOpen(p) PROVE ~HasOpen(p)'
    BY <2>1, <2>4 DEF HasOpen
  <2>5. ASSUME NEW w \in Worker, job'[w].pc = "insert"
        PROVE  ~HasOpen(job[w].proposal)'
    <3>1. PICK p : p = job'[w].proposal
      OBVIOUS
    <3>2. ~HasOpen(p)
      BY <2>3, <2>5, <3>1 DEF ProposeInv
    <3> QED BY <2>4, <3>1, <3>2 DEF HasOpen
  <2> QED BY <2>2, <2>5 DEF ProposeInv
<1> QED BY <1>1, <1>2

\* No two identical actions are open at a time (has_open_fingerprint), as long as
\* identical proposals do not overlap: decisions, expiries, executions, crashes
\* and other proposals may.
THEOREM SerialProposals == Spec /\ []OneProposer => []NoDuplicateOpen
<1>1. Init => ProposeInv
  BY DEF Init, ProposeInv, NoDuplicateOpen, HasOpen, AbsentRow, IdleJob, Open
<1>2. Inv /\ OneProposer /\ ProposeInv /\ [Next]_vars => ProposeInv'
  BY ProposeStep
<1>3. ProposeInv => NoDuplicateOpen
  BY DEF ProposeInv
<1> QED BY <1>1, <1>2, <1>3, InvHolds, PTL DEF Spec

\* An execution holds an action that was not completed when it read it.
RunInv ==
    \A w \in Worker : InExecution(w) => action[job[w].action].state # "completed"

LEMMA RunStep ==
    ASSUME Inv, OneExecutor, RunInv, [Next]_vars
    PROVE  RunInv'
<1> USE DEF Inv
<1> SUFFICES ASSUME NEW w \in Worker, InExecution(w)'
             PROVE  action'[job'[w].action].state # "completed"
  BY DEF RunInv
<1>a. ASSUME NEW v \in Worker, InExecution(v) PROVE job[v].action \in Action
  BY <1>a DEF TypeOK, Job, InExecution
<1>b. ASSUME job'[w] = job[w], action' = action
      PROVE  action'[job'[w].action].state # "completed"
  BY <1>b DEF RunInv, InExecution
<1>1. ASSUME NEW v \in Worker, NEW r \in Request, NEW p \in Policies,
             BeginPropose(v, r, p)
      PROVE  job'[w] = job[w]
  BY <1>1 DEF BeginPropose, TypeOK, IdleJob, InExecution
<1>2. ASSUME NEW v \in Worker, Finish(v) PROVE job'[w] = job[w] /\ w # v
  BY <1>2 DEF Finish, IdleJob, TypeOK, InExecution
<1>3. ASSUME NEW v \in Worker, Insert(v)
      PROVE  action'[job'[w].action].state # "completed"
  <2>1. job'[w] = job[w] /\ InExecution(w)
    BY <1>2, <1>3 DEF Insert, InExecution
  <2>2. PICK b \in Action : action[b].state = "absent"
                          /\ \E x : action' = [action EXCEPT ![b] = x]
    BY <1>3 DEF Insert
  <2>3. job[w].action # b
    BY <2>1, <2>2, AbsentUntouched
  <2>4. action'[job[w].action] = action[job[w].action]
    BY <1>a, <2>1, <2>2, <2>3 DEF TypeOK
  <2> QED BY <2>1, <2>4 DEF RunInv
<1>4. ASSUME NEW v \in Worker, NEW a \in Action, BeginExecute(v, a)
      PROVE  action'[job'[w].action].state # "completed"
  <2>1. PICK n \in 0..MaxAttempt : Counted(a, n)
    BY DEF ChainInv
  <2>2. action[a].state # "completed"
    BY <1>4, <2>1 DEF BeginExecute, Replayed, Counted, Done
  <2>3. CASE v = w
    BY <1>4, <2>2, <2>3 DEF BeginExecute, TypeOK, IdleJob
  <2>4. CASE v # w
    BY <1>4, <1>b, <2>4 DEF BeginExecute, TypeOK
  <2> QED BY <2>3, <2>4
<1>5. ASSUME NEW v \in Worker, NEW res \in Done, RunExecutor(v, res)
      PROVE  action'[job'[w].action].state # "completed"
  <2>1. /\ action' = action /\ job'[w].action = job[w].action
        /\ job'[w].pc = "ran" => job[w].pc \in {"claim", "ran"}
        /\ job'[w].pc = "claim" => job[w].pc = "claim"
    BY <1>5 DEF RunExecutor, TypeOK, Job
  <2> QED BY <2>1 DEF RunInv, InExecution
<1>6. ASSUME NEW v \in Worker, CommitExecution(v)
      PROVE  action'[job'[w].action].state # "completed"
  <2>1. job'[w] = job[w] /\ InExecution(w) /\ w # v /\ InExecution(v)
    BY <1>2, <1>6 DEF CommitExecution, InExecution
  <2>2. job[w].action # job[v].action
    BY <2>1 DEF OneExecutor
  <2>3. action'[job[w].action] = action[job[w].action]
    BY <1>6, <1>a, <2>1, <2>2 DEF CommitExecution, TypeOK
  <2> QED BY <2>1, <2>3 DEF RunInv
<1>7. ASSUME NEW v \in Worker, LockTimeout(v) PROVE job'[w] = job[w] /\ action' = action
  BY <1>2, <1>7 DEF LockTimeout
<1>8. ASSUME UNCHANGED job, InExecution(w) => action[job[w].action].state
                                \in {"authorized"} \cup Done,
             \A a \in Action : action[a].state \in {"authorized"} \cup Done =>
                                 action'[a] = action[a]
      PROVE  action'[job'[w].action].state # "completed"
  BY <1>8, <1>a DEF RunInv, InExecution, Done
<1>9. InExecution(w) => action[job[w].action].state \in {"authorized"} \cup Done
  BY <1>a DEF GrantInv, Granted
<1>10. ASSUME NEW b \in Action, NEW p \in Proposal, LogDenied(b, p)
       PROVE  UNCHANGED job /\ \A a \in Action : action[a].state \in {"authorized"} \cup Done =>
                                                    action'[a] = action[a]
  BY <1>10 DEF LogDenied, TypeOK, Done
<1>11. ASSUME NEW now \in 0..MaxTime, ExpirePending(now)
       PROVE  UNCHANGED job /\ \A a \in Action : action[a].state \in {"authorized"} \cup Done =>
                                                    action'[a] = action[a]
  BY <1>11, ExpireRow DEF ExpirePending, Awaiting, Done
<1>12. ASSUME NEW b \in Action, NEW d \in Decision, NEW now \in 0..MaxTime,
              Decide(b, d, now)
       PROVE  UNCHANGED job /\ \A a \in Action : action[a].state \in {"authorized"} \cup Done =>
                                                    action'[a] = action[a]
  <2> DEFINE seen == ExpireAwaiting(now)
  <2>1. /\ action' = [seen EXCEPT ![b].state = d, ![b].decided = clock,
                                  ![b].channel = "human"]
        /\ seen[b].state \in Awaiting /\ UNCHANGED job
    BY <1>12 DEF Decide, SeenByDecision, Decidable
  <2>2. seen = [c \in Action |-> seen[c]]
        /\ \A a \in Action : action[a].state \in {"authorized"} \cup Done => seen[a] = action[a]
    BY ExpireRow DEF ExpireAwaiting, Awaiting, Done
  <2> HIDE DEF seen
  <2>3. \A a \in Action \ {b} : action'[a] = seen[a]
    BY <2>1, <2>2
  <2> QED BY <2>1, <2>2, <2>3 DEF Awaiting, Done
<1>13. CASE Crash
  BY <1>13 DEF Crash, IdleJob, InExecution
<1> QED BY <1>b, <1>1, <1>3, <1>4, <1>5, <1>6, <1>7, <1>8, <1>9, <1>10, <1>11, <1>12, <1>13
        DEF Next, WorkerStep, ActionStep, BeginPropose, Tick, vars

\* An executor never runs for an action that is already completed (execute_action,
\* "Execute an authorized Action idempotently"), as long as executions of one
\* action do not overlap: a crash, a lock timeout, a retry after a failure and
\* executions of other actions may come between its reads and its run.
THEOREM SerialExecutions == Spec /\ []OneExecutor => []RunsOnce
<1>1. Init => RunInv
  BY DEF Init, RunInv, InExecution, IdleJob
<1>2. Inv /\ OneExecutor /\ RunInv /\ [Next]_vars => RunInv'
  BY RunStep
<1>3. RunInv => RunsOnce
  BY DEF RunInv, RunsOnce, InExecution
<1> QED BY <1>1, <1>2, <1>3, InvHolds, PTL DEF Spec

\* The executions of an action, one at a time: its receipts are those of its
\* attempts, an execution holds the next one, and the last tells how it ended.
SerialInv ==
    /\ \A a \in Action : Attempts(a) = 1..action[a].attempt
    /\ \A w \in Worker : InExecution(w) =>
           job[w].attempt = action[job[w].action].attempt + 1
    /\ ReceiptTellsResult

\* A step that adds no receipt keeps SerialInv when the rows keep their attempt,
\* and their state where they ended, and no execution begins.
LEMMA SerialKept ==
    ASSUME TypeOK, SerialInv, receipts' = receipts,
           \A a \in Action : action'[a].attempt = action[a].attempt
                           /\ (action'[a].state \in Done => action'[a].state = action[a].state),
           \A w \in Worker : InExecution(w)' => InExecution(w)
               /\ job'[w].action = job[w].action /\ job'[w].attempt = job[w].attempt
    PROVE  SerialInv'
<1>1. \A a \in Action : ReceiptsOf(a)' = ReceiptsOf(a) /\ Attempts(a)' = Attempts(a)
  BY DEF ReceiptsOf, Attempts
<1>2. \A w \in Worker : InExecution(w) => job[w].action \in Action
  BY DEF TypeOK, Job, InExecution
<1>3. ReceiptTellsResult'
  BY <1>1 DEF SerialInv, ReceiptTellsResult
<1> QED BY <1>1, <1>2, <1>3 DEF SerialInv

LEMMA SerialStep ==
    ASSUME Inv, OneExecutor, SerialInv, [Next]_vars
    PROVE  SerialInv'
<1> USE DEF Inv
<1> DEFINE JobsKept == \A w \in Worker : InExecution(w)' => InExecution(w)
               /\ job'[w].action = job[w].action /\ job'[w].attempt = job[w].attempt
<1>a. ASSUME action' = action, receipts' = receipts, JobsKept PROVE SerialInv'
  BY <1>a, SerialKept
<1>1. ASSUME NEW w \in Worker, NEW r \in Request, NEW p \in Policies,
             BeginPropose(w, r, p)
      PROVE  SerialInv'
  BY <1>1, <1>a DEF BeginPropose, InExecution, TypeOK, IdleJob
<1>2. ASSUME NEW w \in Worker, Insert(w) PROVE SerialInv'
  <2> DEFINE new == NewRow(job[w].proposal, job[w].outcome, job[w].expires)
             done == [new EXCEPT !.state = "completed", !.attempt = 1]
  <2>1. PICK a \in Action :
          /\ action[a].state = "absent"
          /\ IF job[w].record /\ new.state = "authorized"
             THEN /\ action' = [action EXCEPT ![a] = done]
                  /\ receipts' = PersistReceipt(a, 1, "completed")
             ELSE /\ action' = [action EXCEPT ![a] = new]
                  /\ UNCHANGED receipts
    BY <1>2 DEF Insert
  <2>2. /\ new \in Row /\ new.attempt = 0
        /\ new.state \in {"denied", "awaiting_authorization", "authorized"}
    BY <1>2, NewRowType DEF Insert, TypeOK, Job, None
  <2>3. JobsKept
    BY <1>2 DEF Insert, Finish, InExecution, TypeOK, IdleJob
  <2>4. done.state = "completed" /\ done.attempt = 1 /\ new.state \notin Done
    <3> HIDE DEF new
    <3> QED BY <2>2 DEF Row, Done
  <2> HIDE DEF new, done
  <2>5. /\ Attempts(a) = 1..0 /\ action[a].attempt = 0
        /\ \A v \in Worker : InExecution(v) => job[v].action # a
    <3>1. Attempts(a) = {} /\ \A v \in Worker : InExecution(v) => job[v].action # a
      BY <2>1, AbsentUntouched
    <3>2. action[a].attempt = 0
      <4>1. PICK n \in 0..MaxAttempt : Counted(a, n)
        BY DEF ChainInv
      <4>2. n = 0
        BY <3>1, <4>1 DEF Counted
      <4> QED BY <4>1, <4>2 DEF Counted
    <3> QED BY <3>1, <3>2
  <2>6. CASE job[w].record /\ new.state = "authorized"
    <3> DEFINE rec == [action |-> a, attempt |-> 1, result |-> "completed", prev |-> 0]
    <3>1. receipts' = receipts \cup {rec}
      <4>1. 1 \in 1..(0 + 1) /\ 0 \in Nat /\ "completed" \in Done /\ 1 \notin 1..0
        BY DEF Done
      <4>2. receipts \subseteq Receipt /\ receipts' = PersistReceipt(a, 1, "completed")
        BY <2>1, <2>6 DEF TypeOK
      <4> QED BY <2>5, <4>1, <4>2, PersistExtends
    <3>2. rec.action = a /\ rec.attempt = 1 /\ rec.result = "completed" /\ rec \in receipts'
      BY <3>1
    <3>3. Attempts(a)' = 1..1 /\ \A b \in Action \ {a} : Attempts(b)' = Attempts(b)
      BY <2>5, <3>1, AttemptsGrow
    <3> HIDE DEF rec
    <3>4. action'[a] = done /\ \A b \in Action \ {a} : action'[b] = action[b]
      BY <2>1, <2>6 DEF TypeOK
    <3>5. \A b \in Action : Attempts(b)' = 1..action'[b].attempt
      BY <2>4, <3>3, <3>4 DEF SerialInv
    <3>6. ReceiptTellsResult'
      BY <2>4, <3>1, <3>2, <3>4 DEF SerialInv, ReceiptTellsResult, ReceiptsOf
    <3>7. \A v \in Worker : InExecution(v)' =>
              job'[v].attempt = action'[job'[v].action].attempt + 1
      <4>1. \A v \in Worker : InExecution(v) => job[v].action \in Action
        BY DEF TypeOK, Job, InExecution
      <4> QED BY <2>3, <2>5, <3>4, <4>1 DEF SerialInv
    <3> QED BY <3>5, <3>6, <3>7 DEF SerialInv
  <2>7. CASE ~(job[w].record /\ new.state = "authorized")
    <3>1. /\ action'[a] = new /\ receipts' = receipts
          /\ \A b \in Action \ {a} : action'[b] = action[b]
      BY <2>1, <2>7 DEF TypeOK
    <3> QED BY <2>2, <2>3, <2>4, <2>5, <3>1, SerialKept
  <2> QED BY <2>6, <2>7
<1>3. ASSUME NEW w \in Worker, NEW a \in Action, BeginExecute(w, a) PROVE SerialInv'
  <2>1. /\ action' = action /\ receipts' = receipts
        /\ \A v \in Worker \ {w} : job'[v] = job[v]
        /\ job'[w].action = a /\ job'[w].attempt = action[a].attempt + 1
    BY <1>3 DEF BeginExecute, TypeOK, IdleJob, NextAttempt
  <2>2. \A b \in Action : Attempts(b)' = Attempts(b) /\ ReceiptsOf(b)' = ReceiptsOf(b)
    BY <2>1 DEF Attempts, ReceiptsOf
  <2>3. \A v \in Worker : InExecution(v)' =>
            job'[v].attempt = action'[job'[v].action].attempt + 1
    BY <2>1 DEF SerialInv, InExecution
  <2> QED BY <2>1, <2>2, <2>3 DEF SerialInv, ReceiptTellsResult
<1>4. ASSUME NEW w \in Worker, NEW res \in Done, RunExecutor(w, res) PROVE SerialInv'
  BY <1>4, <1>a DEF RunExecutor, InExecution, TypeOK, Job
<1>5. ASSUME NEW w \in Worker, CommitExecution(w) PROVE SerialInv'
  <2> DEFINE k == job[w].attempt  res == job[w].result
  <2>1. PICK a \in Action : job[w].action = a
    BY <1>5 DEF CommitExecution, TypeOK, Job
  <2>2. /\ InExecution(w) /\ res \in Done /\ k \in Nat
        /\ action' = [action EXCEPT ![a].state = res, ![a].attempt = k]
        /\ receipts' = PersistReceipt(a, k, res)
    BY <1>5, <2>1 DEF CommitExecution, InExecution, TypeOK, Job
  <2>3. /\ action'[a].state = res /\ action'[a].attempt = k
        /\ \A b \in Action \ {a} : action'[b] = action[b]
    BY <2>2 DEF TypeOK, Row
  <2>4. k = action[a].attempt + 1 /\ action[a].attempt \in Nat
    BY <2>1, <2>2 DEF SerialInv, TypeOK, Row
  <2>5. Attempts(a) = 1..action[a].attempt /\ receipts \subseteq Receipt
    BY DEF SerialInv, TypeOK
  <2>6. \A v \in Worker : InExecution(v)' => InExecution(v) /\ job'[v] = job[v]
                                          /\ job[v].action # a
    <3>1. \A v \in Worker : InExecution(v)' => v # w /\ job'[v] = job[v] /\ InExecution(v)
      BY <1>5 DEF CommitExecution, Finish, InExecution, TypeOK, IdleJob
    <3> QED BY <2>1, <2>2, <3>1 DEF OneExecutor
  <2> HIDE DEF k, res
  <2> DEFINE n == action[a].attempt
             rec == [action |-> a, attempt |-> k, result |-> res, prev |-> n]
  <2>7. receipts' = receipts \cup {rec}
    <3>1. k \in 1..(n + 1) /\ n \in Nat /\ ~(k \in 1..n)
      BY <2>4
    <3> QED BY <2>2, <2>5, <3>1, PersistExtends
  <2>8. rec.action = a /\ rec.attempt = k /\ rec.result = res /\ rec \in receipts'
    BY <2>7
  <2>9. Attempts(a)' = Attempts(a) \cup {k} /\ \A b \in Action \ {a} : Attempts(b)' = Attempts(b)
    BY <2>7, AttemptsGrow
  <2> HIDE DEF rec
  <2>10. \A b \in Action : Attempts(b)' = 1..action'[b].attempt
    <3>1. Attempts(a)' = 1..k
      BY <2>4, <2>5, <2>9
    <3> QED BY <2>3, <2>9, <3>1 DEF SerialInv
  <2>11. ReceiptTellsResult'
    BY <2>3, <2>7, <2>8 DEF SerialInv, ReceiptTellsResult, ReceiptsOf
  <2>12. \A v \in Worker : InExecution(v)' =>
             job'[v].attempt = action'[job'[v].action].attempt + 1
    <3>1. \A v \in Worker : InExecution(v) => job[v].action \in Action
      BY DEF TypeOK, Job, InExecution
    <3> QED BY <2>3, <2>6, <3>1 DEF SerialInv
  <2> QED BY <2>10, <2>11, <2>12 DEF SerialInv
<1>6. ASSUME NEW w \in Worker, LockTimeout(w) PROVE SerialInv'
  BY <1>6, <1>a DEF LockTimeout, Finish, InExecution, TypeOK, IdleJob
<1>7. ASSUME NEW a \in Action, NEW p \in Proposal, LogDenied(a, p) PROVE SerialInv'
  <2>1. /\ action'[a].attempt = 0 /\ action'[a].state \notin Done
        /\ \A b \in Action \ {a} : action'[b] = action[b]
        /\ receipts' = receipts /\ job' = job /\ action[a].state = "absent"
    BY <1>7 DEF LogDenied, TypeOK, AbsentRow, Done
  <2>2. action[a].attempt = 0
    <3>1. Attempts(a) = {}
      BY <2>1, AbsentUntouched
    <3>2. PICK n \in 0..MaxAttempt : Counted(a, n)
      BY DEF ChainInv
    <3>3. n = 0
      BY <3>1, <3>2 DEF Counted
    <3> QED BY <3>2, <3>3 DEF Counted
  <2>3. JobsKept
    BY <2>1 DEF InExecution
  <2> QED BY <2>1, <2>2, <2>3, SerialKept
<1>8. ASSUME NEW a \in Action, NEW d \in Decision, NEW now \in 0..MaxTime,
             Decide(a, d, now)
      PROVE  SerialInv'
  <2> DEFINE seen == ExpireAwaiting(now)
  <2>1. \A b \in Action : seen[b].attempt = action[b].attempt /\ seen[b] \in Row
            /\ (seen[b].state \in Done => seen[b].state = action[b].state)
    BY ExpireRow DEF Done
  <2>2. /\ receipts' = receipts /\ job' = job
        /\ action' = [seen EXCEPT ![a].state = d, ![a].decided = clock,
                                  ![a].channel = "human"]
    BY <1>8 DEF Decide, SeenByDecision
  <2>3. seen = [b \in Action |-> seen[b]]
    BY DEF ExpireAwaiting
  <2> HIDE DEF seen
  <2>4. /\ action'[a].attempt = seen[a].attempt /\ action'[a].state = d
        /\ \A b \in Action \ {a} : action'[b] = seen[b]
    BY <2>1, <2>2, <2>3 DEF Row
  <2>5. d \notin Done
    BY InputAssumption DEF Done
  <2>6. JobsKept
    BY <2>2 DEF InExecution
  <2> QED BY <2>1, <2>2, <2>4, <2>5, <2>6, SerialKept
<1>9. ASSUME NEW now \in 0..MaxTime, ExpirePending(now) PROVE SerialInv'
  <2>1. \A b \in Action : action'[b].attempt = action[b].attempt
            /\ (action'[b].state \in Done => action'[b].state = action[b].state)
    BY <1>9, ExpireRow DEF ExpirePending, Done
  <2>2. receipts' = receipts /\ JobsKept
    BY <1>9 DEF ExpirePending, InExecution
  <2> QED BY <2>1, <2>2, SerialKept
<1>10. CASE Crash
  BY <1>10, <1>a DEF Crash, InExecution, IdleJob
<1>11. CASE Tick
  BY <1>11, <1>a DEF Tick, InExecution
<1>12. CASE UNCHANGED vars
  BY <1>12, <1>a DEF vars, InExecution
<1> QED BY <1>1, <1>2, <1>3, <1>4, <1>5, <1>6, <1>7, <1>8, <1>9, <1>10, <1>11, <1>12
        DEF Next, WorkerStep, ActionStep

\* As long as executions of one action do not overlap, its receipts are exactly its
\* attempts, with no execution left out, and the receipt of the last one tells the
\* state the action is in (execute_action, persist_receipt): only a race leaves a
\* result beside the receipt of another execution (run trusted_agent_receipt).
THEOREM SerialReceipts ==
    Spec /\ []OneExecutor
        => [](ReceiptTellsResult /\ \A a \in Action : Attempts(a) = 1..action[a].attempt)
<1>1. Init => SerialInv
  <2> SUFFICES ASSUME Init PROVE SerialInv
    OBVIOUS
  <2>1. \A a \in Action : action[a].attempt = 0 /\ action[a].state \notin Done
    BY DEF Init, AbsentRow, Done
  <2>2. ASSUME NEW a \in Action PROVE Attempts(a) = 1..0
    <3>1. receipts = {}
      BY DEF Init
    <3> QED BY <3>1 DEF Attempts, ReceiptsOf
  <2>3. \A w \in Worker : ~InExecution(w)
    BY DEF Init, IdleJob, InExecution
  <2> QED BY <2>1, <2>2, <2>3 DEF SerialInv, ReceiptTellsResult
<1>2. Inv /\ OneExecutor /\ SerialInv /\ [Next]_vars => SerialInv'
  BY SerialStep
<1>3. SerialInv => ReceiptTellsResult /\ \A a \in Action : Attempts(a) = 1..action[a].attempt
  BY DEF SerialInv
<1> QED BY <1>1, <1>2, <1>3, InvHolds, PTL DEF Spec

-----------------------------------------------------------------------------
(* The policy evaluation, for every policy and request. *)

OverrideRank == [none |-> 0, require_human |-> 1, deny |-> 2]
OutcomeRank  == [auto_authorize |-> 0, require_human |-> 1, deny |-> 2]

\* q refuses, or asks for a human, wherever p does, and has at most p's ways of
\* authorizing by itself.
Stricter(q, p) ==
    /\ OverrideRank[q.override] >= OverrideRank[p.override]
    /\ LevelRank[q.threshold] <= LevelRank[p.threshold]
    /\ q.autoInformational => p.autoInformational
    /\ q.autoRoutine => p.autoRoutine

\* What a proposal's job takes from the policy it finds, as in BeginPropose.
OutcomeOf(p, r) == IF p = NoPolicy THEN DefaultOutcome(r) ELSE Outcome(p, r)

LEMMA StricterAuto ==
    ASSUME NEW p \in UserPolicy, NEW q \in UserPolicy, NEW r \in Requests,
           Stricter(q, p), AutoAllowed(q, r)
    PROVE  AutoAllowed(p, r)
<1>1. CASE RecordOnly(r)
  BY <1>1 DEF AutoAllowed, Stricter
<1>2. CASE ~RecordOnly(r)
  <2>1. /\ LevelRank["routine"] = 1
        /\ LevelRank[q.threshold] \in Nat /\ LevelRank[p.threshold] \in Nat
    BY DEF LevelRank, Level, UserPolicy
  <2>2. LevelRank["routine"] < LevelRank[p.threshold]
    BY <1>2, <2>1 DEF AutoAllowed, Stricter
  <2>3. QED
    BY <1>2, <2>2 DEF AutoAllowed, Stricter
<1>3. QED
  BY <1>1, <1>2

\* Tightening a policy never loosens the answer to any proposal: no combination of a
\* stricter override, a lower threshold and fewer automatic grants turns a denial
\* into a question or a question into a grant, although the branches of
\* evaluate_authorization_with_policy are tried in a fixed order and one of them
\* (informational) ignores the threshold.
THEOREM StricterPolicyIsStricter ==
    \A p, q \in UserPolicy, r \in Requests :
        Stricter(q, p) => OutcomeRank[Outcome(q, r)] >= OutcomeRank[Outcome(p, r)]
<1> SUFFICES ASSUME NEW p \in UserPolicy, NEW q \in UserPolicy, NEW r \in Requests,
                    Stricter(q, p)
             PROVE  OutcomeRank[Outcome(q, r)] >= OutcomeRank[Outcome(p, r)]
  OBVIOUS
<1>1. /\ p.override \in {"none", "require_human", "deny"}
      /\ q.override \in {"none", "require_human", "deny"}
      /\ OverrideRank["none"] = 0 /\ OverrideRank["require_human"] = 1
      /\ OverrideRank["deny"] = 2
  BY DEF UserPolicy, OverrideRank
<1>2. /\ p.override = "deny" => q.override = "deny"
      /\ p.override = "require_human" => q.override \in {"require_human", "deny"}
  BY <1>1 DEF Stricter
<1>3. /\ Outcome(p, r) \in {"auto_authorize", "require_human", "deny"}
      /\ Outcome(q, r) \in {"auto_authorize", "require_human", "deny"}
  BY DEF Outcome
<1>4. Outcome(p, r) = "deny" => Outcome(q, r) = "deny"
  BY <1>2 DEF Outcome
<1>5. Outcome(q, r) = "auto_authorize" => Outcome(p, r) = "auto_authorize"
  BY <1>1, <1>2, StricterAuto DEF Outcome
<1>6. QED
  BY <1>3, <1>4, <1>5 DEF OutcomeRank

\* An action of consequence that is to be executed always waits for a human or is
\* denied: whatever the policy allows, and also when it cannot be read.
THEOREM ConsequentialNeedsHuman ==
    \A p \in UserPolicy \cup {NoPolicy}, r \in Requests :
        r.level \in {"consequential", "critical"} /\ ~r.record
            => OutcomeOf(p, r) \in {"require_human", "deny"}
<1> SUFFICES ASSUME NEW p \in UserPolicy \cup {NoPolicy}, NEW r \in Requests,
                    r.level \in {"consequential", "critical"}, ~r.record
             PROVE  OutcomeOf(p, r) \in {"require_human", "deny"}
  OBVIOUS
<1>1. ~RecordOnly(r)
  BY DEF RecordOnly
<1>2. ~AutoAllowed(p, r)
  BY <1>1 DEF AutoAllowed
<1>3. QED
  BY <1>1, <1>2 DEF OutcomeOf, DefaultOutcome, Outcome
=============================================================================
