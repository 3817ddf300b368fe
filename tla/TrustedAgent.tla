---------------------------- MODULE TrustedAgent ----------------------------
(***************************************************************************)
(* Trusted agent authorization (mighty/trusted_agent.py, with the tables   *)
(* of agent_action_store.py and execution_receipt.py and the policy        *)
(* evaluation of policy_evaluation.py): an agent proposes an action, the   *)
(* user's policy denies it, grants it or asks the user, and an action that *)
(* was granted is executed and leaves a receipt.                           *)
(*                                                                         *)
(* Every handler has its own sqlite connection.  A connection takes the    *)
(* database's write lock with its first INSERT or UPDATE and keeps it to   *)
(* its commit; what it read before that may be stale by then.  A handler   *)
(* that writes first is one atomic step here, one that reads first is a    *)
(* job.  `action` and `receipts` are the committed tables.  The proposals  *)
(* of one user are modelled: nothing relates those of two users but the    *)
(* lock.                                                                   *)
(***************************************************************************)
EXTENDS Integers

CONSTANTS
    Action,       \* action ids (random, never reused)
    Proposal,     \* what action_fingerprint tells apart
    Worker,       \* server threads
    NoWorker,     \* nobody holds the write lock
    Request,      \* the arguments proposals are made with
    Policies,     \* the policies the user may set
    NoPolicy,     \* a policy that could not be read
    Decision,     \* the decisions that are posted
    Timeout,      \* TIMEOUT_SEC: how long an action awaits authorization
    MaxLag,       \* how long a connection waits for the lock (busy timeout)
    MaxTime,      \* bound: the clock stops here
    LastProposal, \* bound: no proposal begins later
    MaxAttempt    \* bound: executions of one action

Level == {"informational", "routine", "consequential", "critical"}

\* LEVEL_RANK
LevelRank == [l \in Level |->
                 CASE l = "informational" -> 0 [] l = "routine" -> 1
                   [] l = "consequential" -> 2 [] OTHER -> 3]

\* UserPolicy, as far as an authorization reads it; `override` is what
\* provider_overrides says of the one provider that has an entry.
UserPolicy == [override: {"none", "require_human", "deny"}, threshold: Level,
               autoInformational: BOOLEAN, autoRoutine: BOOLEAN]

\* `provider`: the request names the provider with an override;
\* `record`: it comes through propose_and_log (record_only).
Requests == [proposal: Proposal, level: Level, provider: BOOLEAN, record: BOOLEAN]

None   == "none"
NoTime == -1

ASSUME NoneAssumption == NoWorker \notin Worker /\ None \notin Action \cup Proposal

ASSUME InputAssumption ==
    /\ Request \subseteq Requests
    /\ Policies \subseteq UserPolicy \cup {NoPolicy}
    /\ Decision \subseteq {"authorized", "denied", "cancelled"}

ASSUME BoundAssumption ==
    /\ Timeout \in Nat \ {0}
    /\ MaxAttempt \in Nat \ {0}
    /\ {MaxLag, MaxTime, LastProposal} \subseteq Nat

Refused == {"denied", "cancelled", "expired"}
Open    == {"proposed", "awaiting_authorization", "authorized", "executing"}
Done    == {"completed", "failed"}

VARIABLES
    action,    \* the table actions: Action -> row, "absent" before its INSERT
    receipts,  \* the table action_execution_receipts
    lock,      \* the worker that holds the write lock
    clock,
    job        \* Worker -> the handler the thread is executing

vars == <<action, receipts, lock, clock, job>>

\* `token`: an approval token was issued, so the policy asked for a human;
\* `decided`: decided_at, where a human decided.
Row == [state: Refused \cup Open \cup Done \cup {"absent"},
        proposal: Proposal \cup {None}, token: BOOLEAN,
        channel: {"policy", "policy_auto", "human", "chat_inline", None},
        expires: Nat \cup {NoTime}, decided: Nat \cup {NoTime}, attempt: Nat]

AbsentRow == [state |-> "absent", proposal |-> None, token |-> FALSE,
              channel |-> None, expires |-> NoTime, decided |-> NoTime,
              attempt |-> 0]

\* prev stands for prev_receipt_hash: the attempt of the receipt it names.
Receipt == [action: Action, attempt: Nat, result: Done, prev: Nat]

\* pc "insert" is propose_action after its reads, "claim" execute_action after
\* its reads, "ran" execute_action holding the lock, its executor called.
Job == [pc: {"idle", "insert", "claim", "ran"}, proposal: Proposal \cup {None},
        record: BOOLEAN, outcome: {"deny", "require_human", "auto_authorize", None},
        expires: Nat, action: Action \cup {None}, attempt: Nat, result: Done]

IdleJob == [pc |-> "idle", proposal |-> None, record |-> FALSE, outcome |-> None,
            expires |-> 0, action |-> None, attempt |-> 0, result |-> "completed"]

Init ==
    /\ action = [a \in Action |-> AbsentRow]
    /\ receipts = {}
    /\ lock = NoWorker
    /\ clock = 0
    /\ job = [w \in Worker |-> IdleJob]

Finish(w) == job' = [job EXCEPT ![w] = IdleJob]

-----------------------------------------------------------------------------
(* propose_action and propose_and_log *)

RecordOnly(r) == r.record \/ r.level = "informational"

\* evaluate_authorization_policy without a policy: the level decides.
DefaultOutcome(r) == IF RecordOnly(r) THEN "auto_authorize" ELSE "require_human"

\* The two ways a policy authorizes by itself.
AutoAllowed(p, r) ==
    IF RecordOnly(r) THEN p.autoInformational
    ELSE /\ r.level = "routine" /\ p.autoRoutine
         /\ LevelRank["routine"] < LevelRank[p.threshold]

\* evaluate_authorization_with_policy: deny, then require_human, then auto.
Outcome(p, r) ==
    IF r.provider /\ p.override = "deny" THEN "deny"
    ELSE IF r.provider /\ p.override = "require_human" THEN "require_human"
    ELSE IF AutoAllowed(p, r) THEN "auto_authorize" ELSE "require_human"

\* has_open_fingerprint
HasOpen(p) == \E a \in Action : action[a].proposal = p /\ action[a].state \in Open

\* The reads of propose_action.  An open duplicate ends it.  Only this handler
\* reads the policy, which the user may change at any time: `p` is the one it
\* finds; one that cannot be read counts as none.
BeginPropose(w, r, p) ==
    /\ job[w].pc = "idle" /\ clock <= LastProposal
    /\ ~HasOpen(r.proposal)
    /\ job' = [job EXCEPT ![w] =
                  [IdleJob EXCEPT !.pc = "insert", !.proposal = r.proposal,
                      !.record = r.record, !.expires = clock + Timeout,
                      !.outcome = IF p = NoPolicy THEN DefaultOutcome(r)
                                  ELSE Outcome(p, r)]]
    /\ UNCHANGED <<action, receipts, lock, clock>>

\* (A variant that stores the outcome as the state.)
OutcomeAsState(p, outcome, expires) ==
    [AbsentRow EXCEPT !.state = outcome, !.proposal = p, !.expires = expires]

\* The row each outcome inserts.
NewRow(p, outcome, expires) ==
    [AbsentRow EXCEPT
        !.state = CASE outcome = "deny" -> "denied"
                    [] outcome = "require_human" -> "awaiting_authorization"
                    [] OTHER -> "authorized",
        !.proposal = p, !.expires = expires,
        !.token   = (outcome = "require_human"),
        !.channel = IF outcome = "auto_authorize" THEN "policy_auto" ELSE "policy"]

ReceiptsOf(a) == {r \in receipts : r.action = a}
Attempts(a)   == {r.attempt : r \in ReceiptsOf(a)}
LastAttempt(a) ==
    CHOOSE n \in Attempts(a) \cup {0} : \A m \in Attempts(a) : m <= n

NewReceipt(a, attempt, result) ==
    [action |-> a, attempt |-> attempt, result |-> result, prev |-> LastAttempt(a)]

\* (A variant that replaces the receipt of an attempt.)
ReplaceReceipt(a, attempt, result) ==
    {r \in receipts : ~(r.action = a /\ r.attempt = attempt)}
        \cup {NewReceipt(a, attempt, result)}

\* persist_receipt keeps the receipt an attempt already has.
PersistReceipt(a, attempt, result) ==
    IF attempt \in Attempts(a) THEN receipts
    ELSE receipts \cup {NewReceipt(a, attempt, result)}

\* The INSERT with its commit.  propose_and_log goes on in the same transaction:
\* an action that was authorized is executed, with the record-only executor.
Insert(w) ==
    /\ job[w].pc = "insert" /\ lock = NoWorker
    /\ \E a \in Action :
         /\ action[a].state = "absent"
         /\ LET new == NewRow(job[w].proposal, job[w].outcome, job[w].expires)
            IN IF job[w].record /\ new.state = "authorized"
               THEN /\ action' = [action EXCEPT ![a] =
                                     [new EXCEPT !.state = "completed", !.attempt = 1]]
                    /\ receipts' = PersistReceipt(a, 1, "completed")
               ELSE /\ action' = [action EXCEPT ![a] = new]
                    /\ UNCHANGED receipts
    /\ Finish(w)
    /\ UNCHANGED <<lock, clock>>

\* propose_and_log(decision="denied"): the refusal given in the chat.
LogDenied(a, p) ==
    /\ lock = NoWorker /\ action[a].state = "absent"
    /\ action' = [action EXCEPT ![a] =
                     [AbsentRow EXCEPT !.state = "denied", !.proposal = p,
                         !.channel = "chat_inline"]]
    /\ UNCHANGED <<receipts, lock, clock, job>>

-----------------------------------------------------------------------------
(* decide_authorization and expire_awaiting_actions *)

Awaiting == {"proposed", "awaiting_authorization"}

\* (A variant that expires every action that is not over.)
ExpireOpen(now) ==
    [a \in Action |->
        IF action[a].state \in Open /\ action[a].expires < now
        THEN [action[a] EXCEPT !.state = "expired"]
        ELSE action[a]]

\* The table after the UPDATE of expire_awaiting_actions with stamp `now`.
ExpireAwaiting(now) ==
    [a \in Action |->
        IF action[a].state \in Awaiting /\ action[a].expires < now
        THEN [action[a] EXCEPT !.state = "expired"]
        ELSE action[a]]

\* A stamp is captured before the UPDATE waits for the lock.
Stamps == {t \in 0..clock : clock - t <= MaxLag}

ExpirePending(now) ==
    /\ lock = NoWorker /\ now \in Stamps
    /\ action' = ExpireAwaiting(now)
    /\ UNCHANGED <<receipts, lock, clock, job>>

\* (A variant that only looks at the decision's own time.)
KeepAwaiting(now) == action

\* The table a decision sees, its own expiry done.
SeenByDecision(now) == ExpireAwaiting(now)

\* (A variant that takes a decision on every action that was not executed.)
DecidableUndone(row) == row.state \notin Done \cup {"absent", "expired"}

Decidable(row) == row.state \in Awaiting

\* The decision is written with the expiry's transaction; a decision that is
\* refused returns without a commit, and the expiry is rolled back.
Decide(a, decision, now) ==
    /\ lock = NoWorker /\ now \in Stamps
    /\ LET seen == SeenByDecision(now)
       IN /\ Decidable(seen[a])
          /\ action' = [seen EXCEPT ![a].state = decision, ![a].decided = clock,
                                    ![a].channel = "human"]
    /\ UNCHANGED <<receipts, lock, clock, job>>

-----------------------------------------------------------------------------
(* execute_action *)

\* (A variant that refuses only what was refused.)
ExecutableUnrefused(row) == row.state \notin Refused \cup {"absent"}

Executable(row) == row.state \in {"authorized", "executing"} \cup Done

\* (A variant that numbers a retry like the attempt it retries.)
SameAttempt(row) == row.attempt

NextAttempt(row) == row.attempt + 1

\* A completed action with its receipt is answered without running it again.
Replayed(a) ==
    /\ action[a].state = "completed"
    /\ action[a].attempt \in Attempts(a)

\* execute_action reads the row, without the lock.
BeginExecute(w, a) ==
    /\ job[w].pc = "idle"
    /\ Executable(action[a]) /\ ~Replayed(a)
    /\ action[a].attempt < MaxAttempt
    /\ job' = [job EXCEPT ![w] = [IdleJob EXCEPT !.pc = "claim", !.action = a,
                                        !.attempt = NextAttempt(action[a])]]
    /\ UNCHANGED <<action, receipts, lock, clock>>

\* Its UPDATE to "executing" takes the lock, and the executor runs inside the
\* transaction; it answers ok or not, or raises, which counts as not ok.
RunExecutor(w, result) ==
    /\ job[w].pc = "claim" /\ lock = NoWorker
    /\ lock' = w
    /\ job' = [job EXCEPT ![w].pc = "ran", ![w].result = result]
    /\ UNCHANGED <<action, receipts, clock>>

\* The result and the receipt are committed together.
CommitExecution(w) ==
    /\ job[w].pc = "ran"
    /\ LET a == job[w].action
       IN /\ action' = [action EXCEPT ![a].state = job[w].result,
                                      ![a].attempt = job[w].attempt]
          /\ receipts' = PersistReceipt(a, job[w].attempt, job[w].result)
    /\ lock' = NoWorker
    /\ Finish(w)
    /\ UNCHANGED clock

-----------------------------------------------------------------------------
\* A handler gave up waiting for the lock: "database is locked" is reported and
\* nothing is committed.
LockTimeout(w) ==
    /\ job[w].pc \in {"insert", "claim"} /\ lock # NoWorker
    /\ Finish(w)
    /\ UNCHANGED <<action, receipts, lock, clock>>

\* The process dies and is started again: open transactions are rolled back.
Crash ==
    /\ lock' = NoWorker
    /\ job' = [w \in Worker |-> IdleJob]
    /\ UNCHANGED <<action, receipts, clock>>

Tick ==
    /\ clock < MaxTime
    /\ clock' = clock + 1
    /\ UNCHANGED <<action, receipts, lock, job>>

WorkerStep(w) ==
    \/ \E r \in Request, p \in Policies : BeginPropose(w, r, p)
    \/ Insert(w)
    \/ \E a \in Action : BeginExecute(w, a)
    \/ \E result \in Done : RunExecutor(w, result)
    \/ CommitExecution(w)
    \/ LockTimeout(w)

ActionStep(a) ==
    \/ \E p \in Proposal : LogDenied(a, p)
    \/ \E d \in Decision, now \in 0..MaxTime : Decide(a, d, now)

Next ==
    \/ \E w \in Worker : WorkerStep(w)
    \/ \E a \in Action : ActionStep(a)
    \/ \E now \in 0..MaxTime : ExpirePending(now)
    \/ Crash \/ Tick

Spec == Init /\ [][Next]_vars

-----------------------------------------------------------------------------
TypeOK ==
    /\ action \in [Action -> Row]
    /\ receipts \subseteq Receipt
    /\ lock \in Worker \cup {NoWorker}
    /\ clock \in Nat
    /\ job \in [Worker -> Job]
    /\ \A w \in Worker :
         /\ job[w].pc = "insert" => job[w].outcome # None /\ job[w].proposal # None
         /\ job[w].pc \in {"claim", "ran"} => job[w].action # None

\* Granted by the human it was put before, or by the policy itself.
Granted(row) ==
    /\ row.state \in {"authorized"} \cup Done
    /\ row.channel = IF row.token THEN "human" ELSE "policy_auto"

\* "Execution never bypasses Policy": an executor runs, and a receipt exists,
\* only for an action that its user approved where the policy asked for it and
\* that the policy authorized otherwise; a refusal is never overtaken by an
\* execution that read the row earlier (execute_action).
GrantBeforeRun ==
    /\ \A w \in Worker : job[w].pc = "ran" => Granted(action[job[w].action])
    /\ \A r \in receipts : Granted(action[r.action])

\* A refusal stands: no late decision, expiry or execution changes an action that
\* was denied, cancelled or expired (decide_authorization, "not_awaiting").
RefusalFinal ==
    [][\A a \in Action : action[a].state \in Refused => action'[a] = action[a]]_action

\* A decision is taken before the action expires, or late by no more than the
\* decision waited for the write lock; nothing has to expire actions meanwhile
\* (decide_authorization expires before it decides).
DecidedInTime ==
    \A a \in Action : action[a].channel = "human" =>
        action[a].decided <= action[a].expires + MaxLag

\* Receipts are "never updated after insert", whatever executions race on one
\* attempt (persist_receipt).
ReceiptsImmutable == [][receipts \subseteq receipts']_receipts

\* The receipts of an action are numbered without a gap, each naming the one
\* before it, an action that ended has a receipt of the attempt its row names, and
\* none is left "executing", whatever crash, stale read or lock timeout comes
\* between (execution_receipt.py, prev_receipt_hash).  It does not say that every
\* execution has a receipt: of two that race on one attempt, the first's is kept.
ReceiptChain ==
    \A a \in Action :
        /\ \E n \in 0..MaxAttempt : Attempts(a) = 1..n
        /\ \A r \in ReceiptsOf(a) : r.prev = r.attempt - 1
        /\ action[a].state \in Done => action[a].attempt \in Attempts(a)
        /\ action[a].state # "executing"

\* An action that ended has a receipt that tells how: "`completed` | Execution
\* succeeded; receipt written" and "`failed` | Execution failed; receipt written"
\* (TRUSTED_AGENT_AUTHORIZATION.md).
ReceiptTellsResult ==
    \A a \in Action : action[a].state \in Done =>
        \E r \in ReceiptsOf(a) : r.attempt = action[a].attempt
                               /\ r.result = action[a].state

\* An executor never runs for an action that is already completed: executing is
\* idempotent (execute_action, "Execute an authorized Action idempotently").
RunsOnce ==
    \A w \in Worker : job[w].pc = "ran" => action[job[w].action].state # "completed"

\* No two identical actions are open at a time (has_open_fingerprint).
NoDuplicateOpen ==
    \A a, b \in Action :
        (a # b /\ action[a].state \in Open /\ action[b].state \in Open)
            => action[a].proposal # action[b].proposal

-----------------------------------------------------------------------------
(* The tables implement Authorization. *)

StandingOf(row) ==
    CASE row.state = "absent"  -> "none"
      [] row.state \in Awaiting -> "asked"
      [] row.state \in Refused -> "refused"
      [] OTHER                  -> "granted"

\* How the last execution that was committed ended.
OutcomeOfRow(row) == IF row.state \in Done THEN row.state ELSE "none"

AnyOf(S) == CHOOSE x \in S : TRUE

\* The result of each attempt that has a receipt.
LedgerOf(a) ==
    [n \in Attempts(a) |-> AnyOf({r \in ReceiptsOf(a) : r.attempt = n}).result]

Abstract == INSTANCE Authorization WITH
    standing <- [a \in Action |-> StandingOf(action[a])],
    outcome  <- [a \in Action |-> OutcomeOfRow(action[a])],
    ledger   <- [a \in Action |-> LedgerOf(a)],
    Result   <- Done

\* Whatever handlers race, wait for the lock or die, the user sees each action
\* asked, granted or refused once and only granted ones executed; a result comes
\* with its receipt at the end of the action's ledger or, when an execution of the
\* same attempt was faster, beside a receipt the ledger has
\* (TRUSTED_AGENT_AUTHORIZATION.md, "Execution never bypasses Policy";
\* execution_receipt.py, "Append-only").
ImplementsAuthorization == Abstract!AuthSpec
=============================================================================
