# Mighty Self-Serve: verification project

Mighty Self-Serve keeps track of a person's accounts at outside providers and
authorizes what AI agents may do in that person's name. This directory holds TLA+
models of its core protocols, the TLC runs that check them on small instances,
and TLAPS proofs of the properties that hold for every instance.

To check a module: `tlc -workers 2 -config TrustedAgent.cfg MCTrustedAgent`.
To check its proofs: `tlapm TrustedAgentProofs.tla`.

## 1. The system

A Flask server (`app.py`, threaded, one sqlite connection per request), a package
`mighty/` that holds the logic, and a Chrome extension that logs in to provider sites
and reports what it sees. All shared state is in sqlite tables; what interleaves is
the request threads, three scheduler threads, the extension's service worker and the
user. A connection reads committed state and takes the database's one write lock
with its first INSERT or UPDATE, until it commits. So one statement with its commit is
atomic, and everything read before it may be stale.

| Component | State it keeps | Operations | What is hard |
|---|---|---|---|
| Session verification lifecycle (`mighty/session_verification.py`) | one row per access cycle: lifecycle, timestamps, terminal reason | request, claim, advance, complete, cancel, expire | requests that race, completions that race the expiry, late claims, deadlines that move |
| Provider Access Manager (`provider_access_manager.py`) | none of its own | classify a probe, finish a cycle, write the session state, maintenance | reports for cycles that have ended; several tables in several transactions |
| Provider session state (`provider_session_state.py`) | newest evidence per provider | upsert when the new evidence is better | read, decide, overwrite |
| Access-cycle endpoints and maintenance scheduler (`app.py`) | none; a thread that sweeps every 60 s | extract, needs-login, probe result, sweep | checks made well before the writes they guard |
| Extension verification runner (`extension/background.js`) | in-memory guards, a polled job | poll, claim, probe, extract, complete | service-worker restarts, lost responses, its own deadline |
| Amex connection state machine (`connection_state.py`, adapters) | connection state | start, report, needs login | two writers |
| Natural session (`natural_session*.py`) | none but metrics | observe, decide, request | evidence that changes between the decision and the request; recovery has precedence |
| Trusted agent authorization (`trusted_agent.py`, `agent_action_store.py`, `execution_receipt.py`, `authorization_policy.py`, `policy_evaluation.py`) | actions, receipts | propose, decide, expire, execute, log | stale reads before the lock, refusal against execution, crash between execution and receipt |
| User policy (`user_policy.py`, `policy_store.py`) | one policy per user | read, merge, save | load, merge, save without a guard |
| Recovery (`recovery_*.py`) | cases and attempts | plan, execute, escalate, close | sweeps that die between two commits or read nothing; escalated cases that block |
| Attention (`attention_*.py`) | overlays and delivery receipts; items are compiled on each read | compile, snooze, start, sweep, push | commands that race the sweep, a push without a receipt, retries |
| Sync and 2FA relay (`background.js`, `app.py`) | sync mutex, pending challenges | run, ask, answer | timeouts, restarts |

What makes each correct, in a sentence: **session verification**: one active cycle
per user and provider, each ends exactly once, in bounded time, without help; **access
manager, session state, endpoints and runner**: success means that data was stored, a
cycle that has stored its data is not begun again, and no claimed cycle is left
behind; **connection machine**: a report's evidence is stored only by the request
whose status the machine took; **trusted agent**: nothing runs without its grant,
refusals stand, an action that ended has a receipt, and receipts never change;
**policy**: a stricter policy is never more permissive; **recovery**: the human is asked
only when nothing is left to try, and is asked in the end; **attention**: an item is
pushed once and a lasting blocker reaches the user.

## 2. Modules

| Module | What it is |
|---|---|
| `SessionVerification.tla` | the cycle table, its handlers as interleaved jobs, the maintenance thread, crash and restart |
| `AccessCycle.tla` | what the table promises: a cycle is opened once, perhaps verified, closed once |
| `SessionVerificationProofs.tla` | theorems of SessionVerification |
| `MCSessionVerification.tla` | its instances for TLC |
| `TrustedAgent.tla` | actions, receipts, the write lock, proposals and executions as jobs |
| `Authorization.tla` | what the trusted agent promises: an action is asked, granted or refused once, and its receipts are a ledger |
| `TrustedAgentProofs.tla` | theorems of TrustedAgent |
| `MCTrustedAgent.tla` | its instances for TLC |
| `SessionEvidence.tla` | pure: what a look at a provider page decides, the evidence it becomes, and which evidence replaces which |
| `SessionEvidenceProofs.tla` | theorems of SessionEvidence |
| `AmexAccessCycle.tla` | extends SessionEvidence: the extension's service worker, the endpoints it calls, and the tables they write, as interleaved runs and requests |
| `AmexAccessCycleProofs.tla` | theorems of AmexAccessCycle |
| `MCAmexAccessCycle.tla` | its instance for TLC |
| `RecoveryEpisode.tla` | what recovery promises of one provider |
| `Recovery.tla` | planner, case store and supervisor, which implement RecoveryEpisode |
| `RecoveryProofs.tla` | theorems of Recovery |
| `Attention.tla` | extends RecoveryEpisode: items, overlays, commands and push delivery behind recovery's verdict |
| `AttentionProofs.tla` | theorems of Attention |
| `AuthTruth.tla` | pure: extends SessionEvidence with the projection of stored evidence and Runtime publications into the truth, and what recovery and attention make of it |
| `AuthTruthProofs.tla` | theorems of AuthTruth: it feeds Recovery only what Recovery is verified for |
| `NaturalSession.tla` | pure: extends AuthTruth with the decision to ask for an access cycle when a provider is visited or due, and its theorems |

### SessionVerification

| TLA+ | Code |
|---|---|
| `row` | the table `provider_session_verification`; "absent" is an id not inserted yet |
| `clock`, `nextSweep` | `utc_now()`, and when the maintenance thread wakes |
| `up` | the process lives |
| `job[w]` | the handler thread `w` is in, with its `now` and arguments |
| `BeginRequest` .. `RespondError` | `request_session_verification`, cut at each read and write: expire, look for an active cycle, throttle, INSERT under the partial unique index, look for the winner, re-raise |
| `MarkRunning`, `Advance` | one guarded UPDATE each |
| `BeginComplete`, `ReadExisting`, `WriteTerminal` | `complete_session_verification`: a read, then a guarded UPDATE; `BeginCancel` is the extension reload that calls it |
| `Maintain`, `Sweep`, `SweepFails`, `Restart` | `run_verification_maintenance`, and the scheduler thread of `app.py` with its startup sweep and its `except` |

The verification table has entries for one provider (amex), so the pair
(user, provider) the code keys on is a user in the model. An expiry is one
transaction of three UPDATEs; together they are the one set of rows `Overdue`
names. `_collapse_duplicate_active_verifications` does nothing once the index exists
and is left out. Error texts are abstracted to the terminal reason the code reads in
them. Formatting, logging and diagnostic columns are left out, and so are the
functions that only read (freshness, timeline, JSON).

### AccessCycle and the refinement

`ImplementsAccessCycle` maps the table to `owner`, `stage` (none, pending, verified,
closed) and `result`, and every step of every handler to an opening, a
verification, a closing or a stutter. The threads, the clock, the deadlines, the
throttle and the crashes are gone in the abstract specification; it says what a
caller of the table can rely on.

### TrustedAgent

| TLA+ | Code |
|---|---|
| `action`, `receipts` | the tables `actions` and `action_execution_receipts`, as committed |
| `lock` | the connection in a write transaction that has outside calls in it (an executor) |
| `job[w]` | `propose_action` between its reads and its INSERT; `execute_action` between its read and its first UPDATE ("claim"), and from there to its commit ("ran") |
| `BeginPropose`, `Insert`, `LogDenied` | `propose_action`, `propose_and_log` (which executes in the transaction of its INSERT) |
| `Outcome`, `DefaultOutcome` | the policy evaluation, with and without a readable policy |
| `Decide`, `ExpirePending` | `decide_authorization` (expires first), `expire_awaiting_actions`; they write first, so each is one step, with a stamp captured before it waited for the lock |
| `BeginExecute`, `RunExecutor`, `CommitExecution` | `execute_action`: read, claim and call the executor, commit result and receipt |
| `LockTimeout`, `Crash` | sqlite's busy timeout (reported as an error), a process that dies |

`action` shows what is committed, so "executing" is never seen in it: `RunExecutor`
takes the lock and the UPDATE to "executing" stays in the open transaction. The
executor's result is nondeterministic (the default one records and answers ok; it
may be replaced). Users are independent but for the lock, so one user is modelled.
`approve_submit` looks at the action before it calls `decide_authorization`, which
looks again; the first look is not modelled. A decision that is refused returns
without a commit and its expiry is rolled back, so it is no step. A policy is read
by one handler only and may change at any time, so it is chosen at each proposal.

### Authorization and the refinement

`ImplementsAuthorization` maps the state of an action to its `standing` (none, asked,
granted, refused) and its `outcome` (how its last execution ended), and the receipts of
an action to its `ledger`, the sequence of the results they tell in the order of their
attempts. A decision with the expiry it carries out
first is one `Settle`; an action that is only logged is one `Record`; the commit of an
execution is a `Run`, which appends to the ledger, or `Overtaken` when the receipt of
that attempt exists: the outcome changes and no receipt is added, which takes a ledger
that is not empty. Threads, the lock, policies, the clock and crashes are gone. Not
promised, because the code does not keep them: `RunsOnce`, `NoDuplicateOpen`, and that
the ledger ends with the outcome (`ReceiptTellsResult`).

### SessionEvidence

`Page` is what the extension reports of a tab, each text rule, URL rule and form
detector abstracted to whether it matches; `Classify`, `Withdrawn` and `FailureOf`
are `classify_auth_state`, `Probe` is `evaluate_probe_payload`, `Decision` is
`decide_amex_verification_session` with its rules about events without a timestamp
(which cannot be ordered), and `EvidenceOf` is `verification_decision_to_evidence`.
`Supersedes` is `should_replace_session_evidence`: newer, then surer, then of higher
priority.

### AmexAccessCycle

| TLA+ | Code |
|---|---|
| `stage` | the cycle table, lifecycle and terminal reason in one; taken at the level of its guarded UPDATEs, which SessionVerification checks in detail |
| `session` | the row of `provider_session_state` |
| `account` | the blob of `account_data`: connection status, the cycle whose items it holds, extraction status |
| `snapshots`, `stored` | published account snapshots; history: the cycles whose items were committed |
| `sw` | the service worker's globals: the active run, whether it is past its probe, the last cycle processed, `_amexExtractionCyclesStarted`, cancellations to post |
| `run[r]` | a call of `runSessionVerification`, with the page it saw and what it will report |
| `job[w]` | a request in a server thread: what it read, and where it is; `took` (history): the status the connection machine took from it |
| `Poll` .. `Finish` | poll, claim, navigate, probe, extract, complete, and the `finally` block |
| `StoreProbe`, `FinishProbe` | `complete_provider_access_check`: evidence, then the cycle |
| `MarkExtracting` .. `CompleteExtraction` | the extract endpoint, one step per commit. Its error path begins with `RefuseExtraction` (no valid value, nothing stored) or `BreakExtraction` (the last write of the extraction, after its items were committed, raises) |
| `BeginMove`, `Move`, `MarkPending`, `StoreReport` | `set_amex_connection_status` (read and check, then write), `mark_extraction_pending`, the report's evidence |
| `TabClosed`, `Cancel*` | the tab listener, which frees the globals and cancels |
| `Stopped`, `Reloaded`, `ServerCrash`, `*Lost`, `FetchAborted` | the worker is stopped or reloaded, the server dies, a request or its answer is lost |

Two runs can overlap only because the tab listener and another run's `finally` clear the
globals of whoever is active; the model has that as the code does. The claim, the
advance and the completion are one UPDATE each and are taken with their request; the
requests with several commits are jobs. A read belongs to the step before the write
it serves. The evidence of a job is decided on the row it read and overwrites the row
that is there. The status endpoints (waiting, needs-login, connected) are refused by
the connection machine before they write anything. The browser's timers are
nondeterministic.

`KeepsCyclePromises` maps `stage` to the variables of `AccessCycle`, which thus has two
refinements: SessionVerification's handlers, and the runner and endpoints that call
them in whatever order faults and closed tabs allow.
`EvidenceImproves` says that the session row is only ever replaced by evidence that
supersedes it. It is a property of requests that do not overlap: the run has one
server thread, and with two of them TLC finds a report that overwrites newer evidence
(the hazard at `provider_session_state.py:829`), as no statement of the repository
excludes.

### RecoveryEpisode and Recovery

| TLA+ | Code |
|---|---|
| `failure` | what the projections say of the provider: an auth truth and a trust signal |
| `case[c]` | the active case of cause c: status, the capabilities with an attempt record, its waits; `over` when its backoff or its 15 minutes have passed; `begun` (history): the capabilities that began or were found unavailable |
| `latest` | the terminal case that `ORDER BY updated_at DESC, case_id DESC` puts first: of two in one second either |
| `sup` | the recovery-supervisor thread: the failures it read, the cases and causes it still has to visit, its planned capability |
| `ClearCase` .. `Conclude` | `_supervise_user` and `_advance_case`, one step per commit |
| `SweepFails`, `BlindSweep` | an exception or a restart in mid-sweep; loaders that swallow an exception and return nothing |

The facts are read by three queries before the first write and are taken at once. The
timeout's marker and the transition to open are one step: a sweep that dies between
them repeats both, and the marker is a set member. A process that dies after the commit
of "running" counts as having begun its capability, also when the executor never ran.
`ImplementsEpisode` maps a case to an episode whose tries are the capabilities and
waits without a record, and `latest` to the verdict; every step of a sweep is an
opening, a spending, an ending or a stutter.

### Attention

`failing` is what the projections report; `ItemsOf` the compilers' output behind the
gate (`Candidates`); `overlay`, `receipt` the two tables; `att` the
attention-supervisor thread, which reads overlays and candidates, deletes the obsolete overlays
one by one, then chooses, pushes and records; `cmd` a command between its look for
the item and its upsert. It extends RecoveryEpisode, whose `verdict` is the gate, and
takes recovery's steps from that specification, which Recovery implements. A sender
that answers success has handed the push to a thread of its own; what becomes of it
is not the code's to know. The other item classes do not pass the gate and are left
out, as are dismissals, whose overlay no access item accepts.

### AuthTruth

`Session` is a row of `provider_session_state`, `Publication` one of
`runtime_access_state`; `Truth` is `project_auth_truth` and `Presented`
`compute_presentation_status`. `Collected` is the record Recovery calls a failure
(`_collect_failure_facts` on one provider's truth and trust signal) and `ItemsFor`
what the compilers emit for it. Labels the code does not tell apart are one value; a
timestamp that is missing or unreadable is `NoTime`. There is no state, so no run: the
theorems hold for every row and time. They close the gap between the models: what
AmexAccessCycle stores is a `Session`, and what is projected from it is in the set
`Failure` that Recovery quantifies over.

One thing to know when reading the docs: docs/ATTENTION_AUTONOMOUS_RECOVERY.md:132
says "MFA → immediate escalate → auth_blocker". A page that asks for the second factor
is stored as signed_out with high confidence, and `_project_browser_session` names
"login" for everyone who is signed out (`SignedOutIsRecoverable`), so recovery tries its
capabilities first and the blocker comes when they are exhausted.

### NaturalSession

`Decide` is the policy (`plan_natural_session` on what `_decide` reads), `Requests` adds
the access manager's second reading of the rows, after which the request is
`BeginRequest` of SessionVerification with its throttle and its unique index. Evidence
is that of SessionEvidence: what `Upsert` keeps decides whether a provider is due.

## 3. Runs

All bounds are constants: `MaxTime` stops the clock, `LastProposal` is the last time at
which an action is proposed, `MaxAttempt` stops the executions of one action, and the ids (`Cycle`, `Action`) are as many as may be inserted.

| Run | Instance | Shows |
|---|---|---|
| `session_lifecycle` | 1 user, 2 cycles, 2 threads, user's requests, crash and failing sweeps, two kinds of completion | `TypeOK`, `SingleActive`, `LifecycleForward`, `TerminalIsFinal`, `ImplementsAccessCycle` |
| `session_timing` | 1 thread, the code's constants in units of 20 s (probe 20, extraction 90 rounded to 80, heartbeat and throttle 60), the clock to 200 s | `OverdueBounded`, `CycleAgeBounded`, `ThrottleRespected` |
| `session_ends` | 1 thread, 2 cycles, crash and restart, fairness | `CyclesEnd` |
| `session_throttle` | 2 threads, scheduled requests | `ThrottleRespected` is violated |
| `session_request_error` | 2 threads, scheduled requests | `RequestAnswered` is violated |
| `trusted_agent` | 2 identical actions, 2 threads, Timeout 1, lag 1, clock to 3, proposals up to time 2, 2 attempts, three policies, three kinds of request | `TypeOK`, `GrantBeforeRun`, `ReceiptChain`, `DecidedInTime`, `RefusalFinal`, `ReceiptsImmutable`, `ImplementsAuthorization` |
| `trusted_agent_receipt` | 1 action, 2 threads | `ReceiptTellsResult` is violated |
| `trusted_agent_once` | 1 action, 2 threads | `RunsOnce` is violated |
| `trusted_agent_duplicate` | 2 actions, 2 threads | `NoDuplicateOpen` is violated |
| `amex_cycle` | 1 cycle, 2 overlapping runs, 1 server thread, representative pages, reports outside the cycle, the clock to 1, 1 fault | `TypeOK`, `SuccessHasExtraction`, `StoredNotClaimable`, `EvidenceHasCause`, `OneExtractionPerCycle`, `NotStranded`, `EvidenceImproves`, `KeepsCyclePromises` |
| `recovery` | 3 causes (a human-only one, one both projections report, one of trust alone), 1 fault, fairness | `TypeOK`, `EscalationEarned`, `NoOrphanRunning`, `ImplementsEpisode`, `CaseEnds`, `FailureSurfaces` |
| `attention` | 2 causes (a human-only sign-in and a stale access), 1 fault, fairness | `TypeOK`, `PushedOnce`, `InFlightEnds`, `BlockerDelivered` |

Why the bounds are enough: a race needs two handlers, and a third thread adds only
another handler that lost; two cycles of one user are the least with which
uniqueness, throttle and reuse mean something, and users share nothing but the
sweep. The clock goes past every deadline (in `trusted_agent`, where an action
proposed at once expires at 1 and a decision may come at 3, by more than the lag) and, in
`session_timing`, through a first cycle's whole life and into a second's. Two
attempts are the least with a receipt that names another. The proofs remove these
bounds for the safety properties.

In `amex_cycle`, two runs of one cycle are what a closed tab leads to; a second cycle
would only add runs that the cycle table keeps apart. One server thread serializes
the requests; the proofs hold for any number of threads, runs and cycles, except
`EvidenceImproves`, which is proved of any server whose upserts do not overlap. `recovery`
has one cause of each kind the planner tells apart, and one fault suffices for a dead
or a blind sweep anywhere in a chain. `attention` has two items because an item of
trust, with its own overlay and receipt, multiplies the states; the order between
trust and sign-in is then not exercised by a run.

Symmetry is used over threads and ids in the safety runs only (`session_ends` has
none).

### What the violations say

* `session_throttle`: the throttle reads the newest `requested_at` before the INSERT,
  and the index only knows active rows. When another request inserts a cycle after
  that read, and it ends before this request's INSERT, two cycles start within the 60 s window.
  One thread alone keeps to it (`session_timing`).
* `session_request_error`: the INSERT conflicts, the cycle that won ends, and the
  handler, which looks for an active one only, re-raises the conflict.
* `trusted_agent_once`: two requests to execute the same authorized action read it
  before either has the lock; both run the executor, with the same attempt number.
  The receipt is the first one's.
* `trusted_agent_receipt`: of these two, the second commits its result to the row and
  `persist_receipt` keeps the receipt of the first, so an action may be "failed" beside a
  receipt of its attempt that says "completed", and the second execution leaves none.
  That is why `ReceiptChain` asks for a receipt of each action that ended, and not for one
  of each execution.
* `trusted_agent_duplicate`: two identical proposals both look for an open duplicate
  before either is inserted.

In each case the overlap is the whole cause, and that is proved: `SerialRequests`,
`SerialExecutions`, `SerialReceipts` and `SerialProposals` derive the violated property, for all values of
the constants, from the assumption that the two handlers at fault never overlap
(for one user, one action, one proposal), with every other handler, crash and timeout
left free. A lock around just these handlers would therefore do. `SerialUpserts`,
`SerialAccountWrites` and `SerialMoves` say the same of the two rows that are read, then
rewritten: without overlap evidence only improves, items stay, and the connection status
moves along the machine's transitions only. With two threads none of the three is true of
the code (a needs-login that was checked before another report moved the account is
written after it), and no run claims it.

## 4. Fairness and time

`SpecFair` assumes weak fairness of the steps of a running handler, of the
maintenance thread, of time and of the restart of a dead process. A thread runs its
handler on; `_loop` sleeps, sweeps and catches every exception; something
supervises the process (it is a deployment's container). No fairness is assumed of
requests, claims or the extension: `CyclesEnd` says that cycles end without them.
It assumes that sweeps succeed; `Spec`, with `SweepFails`, is used for safety. A
crash discharges the obligation for the cycles active at that moment, which is taken
up again when the process is back: a process that crashes for ever promises nothing.

A running server does not let the clock pass a due sweep, nor a request handler
keep its `now` for longer than `MaxLag`: both stand for delays that are small
against the timeouts (sqlite's busy timeout is 5 s, the shortest window 20 s).

`Recovery` assumes weak fairness of the supervisor's steps: its thread loops for
ever and catches what it meets. Time passes only between its sweeps in the model
(a sweep has one `now`), so the clock is enabled again and again but not
continuously: it gets strong fairness. Nothing is assumed of the failures;
`FailureSurfaces` is about those that stay. `Attention` makes the same assumption of its
thread and its clock, and none of the user, of recovery or of the push's success:
`InFlightEnds` is about users who stop commanding, `BlockerDelivered` about failures and
verdicts that stay. Faults are bounded, so that from some point on the sweeps succeed.
`AmexAccessCycle` has safety only: that a stranded cycle ends in the end is
`CyclesEnd`, by the heartbeat.

## 5. Proofs

Everything in the `*Proofs` modules is checked by TLAPS for all values of the
constants that satisfy the named assumptions of the models (`NoUserAssumption`,
`TriggerAssumption`, `CompletionAssumption`, `TimeAssumption`; `NoneAssumption`,
`InputAssumption`, `BoundAssumption`; `CycleAssumption`, `RunnerAssumption`,
`PageAssumption`, `ReportAssumption`, `LimitAssumption`; `CauseAssumption`,
`MaxFaultAssumption`; `AttentionAssumption`): typing of the inputs and positive timeouts.

| Theorem | Statement |
|---|---|
| `TypeInvariant`, `TypeCorrect` (five modules) | `Spec => []TypeOK` |
| `SingleActiveHolds` | `Spec => []SingleActive` |
| `TerminalIsFinalHolds`, `LifecycleForwardHolds` | no step rewrites a terminal row, or takes a cycle back |
| `LifeBounded`, `OverdueBoundedHolds` | `SpecUp => [](OverdueBounded /\ CycleAgeBounded)`, under `ContractTimes` |
| `Refinement` | `Spec => ImplementsAccessCycle` |
| `SerialRequests`, `ThrottleRespectedHolds` | `Spec /\ []OneRequestPerUser => [](ThrottleRespected /\ RequestAnswered)`, and so with one thread |
| `GrantBeforeRunHolds`, `DecidedInTimeHolds`, `ReceiptChainHolds` | the safety invariants of `TrustedAgent` |
| `RefusalFinalHolds`, `ReceiptsImmutableHolds` | its action properties |
| `ImplementsAuthorizationHolds` | `Spec => ImplementsAuthorization` |
| `SerialProposals`, `SerialExecutions` | `Spec /\ []OneProposer => []NoDuplicateOpen`, `Spec /\ []OneExecutor => []RunsOnce` |
| `SerialReceipts` | `Spec /\ []OneExecutor => []ReceiptTellsResult`, and then the receipts of an action are exactly its attempts |
| `SupersedesStrict`, `UpsertOrderIrrelevant` | the replacement of evidence is a strict order, and two upserts that do not overlap leave equally good evidence in either order |
| `DecisionExclusive`, `ProbeSignedOut`, `ProbeConnected` | a decision is never both; what a signed-out decision on a probed page rests on, and exactly which probed pages are decided connected |
| `SuccessHasExtractionHolds`, `StoredNotClaimableHolds`, `OneExtractionPerCycleHolds`, `NotStrandedHolds` | the safety invariants of `AmexAccessCycle` |
| `EvidenceHasCauseHolds` | its action property: evidence is stored for a cause of the very request that stores it |
| `KeepsCyclePromisesHolds` | `Spec => KeepsCyclePromises` |
| `SerialUpserts`, `EvidenceImprovesHolds` | `Spec /\ []OneUpsert => EvidenceImproves`, and so with one thread |
| `SnapshotsExtracted`, `SerialAccountWrites`, `SerialMoves` | what is published was committed; without overlapping writes of the account row, extracted items stay until the next extraction, and the connection makes legal moves only |
| `EscalationEarnedHolds`, `NoOrphanRunningHolds` | the safety invariants of `Recovery` |
| `ImplementsEpisodeHolds` | `Recovery` implements `RecoveryEpisode` |
| `AskedAloneHolds`, `AttemptSpendsHolds` | a cause the member is asked about has no active case; each recorded attempt takes one of the seven tries that was left |
| `PushedOnceHolds` | the safety invariant of `Attention` |
| `DeliveredIsFinal` | a receipt recorded as delivered never changes and its item is never pushed again, a recurrence included |
| `StricterPolicyIsStricter`, `ConsequentialNeedsHuman` | for every policy and request: tightening a policy never loosens an answer; an action of consequence is never granted by a policy, nor for want of one |
| `CollectedIsFailure` | what is collected is in `Recovery`'s `Failure`, and the causes satisfy its `CauseAssumption` |
| `AgeingOnlyStales`, `SignedOutIsRecoverable`, `CycleEvidenceTruth` | time changes the stale label alone; a signed-out session's cause is "login"; what the access cycle's evidence is taken for |
| `ItemsMatchCauses` | the items shown to the member agree with the causes recovery works on |
| `DueUntilRenewed`, `EvidenceQuiets` | a provider that is due stays due until its evidence is renewed; a cycle's evidence stops further requests for the freshness window |
| `NotRechecked` | every reason why a failing session is not checked again |

**SessionVerification.** Typing and uniqueness are inductive together; uniqueness at
`Insert` is the guard of the index, and elsewhere that no step makes an inactive row
active. The refinement goes action by action: the lemmas say what each handler step
does to a row, and a row's step determines the abstract step. The timing theorem
needs more. By themselves `OverdueBounded` and `CycleAgeBounded` are not inductive:
one must know that the clock does not pass the next sweep, that the last sweep
left nothing overdue, and that a handler's `now` is recent, so that a row it inserts
is not old at birth. `ContractTimes` states how the constants must be ordered, as
the code's are: the probe window is shorter than the heartbeat (20 < 60), the lag
fits in the probe window (5 <= 20), and a probe window and a heartbeat fit in the
extraction window (20 + 60 <= 90). The last is what stops an advance, which anchors
the deadline on `requested_at` again, from ever making a row overdue by more than a
heartbeat in one step.

`SerialRequests` needs to say that what a request has read still holds: no cycle of its
user was requested after its `now`, and once it has looked for an active cycle the
user has none. Only another request's INSERT could disturb that, which
`OneRequestPerUser` excludes; completions and expiries make rows inactive, never
young. So the INSERT meets no conflict, and the branch that re-raises it is not
reached.

**TrustedAgent.** `GrantBeforeRun` is not inductive: a job that has read an action and
waits for the lock is no part of it, and it is this job that could overtake a refusal.
The strengthening says that a job in "claim" names an action that is granted, and that
granted actions stay so: no handler leads from "authorized" or a result back to where
a decision applies. `ReceiptChain` needs to know of the jobs too: when an action has n
receipts, numbered 1 to n, its row's attempt is at most n and that of a job about to
execute it at most n + 1. So a commit adds the next receipt or finds its own number
taken, and keeps the receipt that is there. The refinement builds on it: because the
attempts of an action are 1 to n and each has one receipt, the ledger is a sequence,
and a commit either appends to it or leaves it, in which case it is not empty.
`SerialReceipts` strengthens this to equality, which one execution at a time keeps: n is
the row's attempt and a running execution holds the next one, so its commit never finds
that number taken. For `SerialExecutions` one must know
that an action with a job in execution is not completed, for `SerialProposals` that a
proposal about to be inserted still has no open duplicate; each is inductive as long
as no second such job runs. `DecidedInTime` holds because a decision expires what is
due before it looks, with a stamp at most `MaxLag` old.

**AmexAccessCycle.** The strengthening relates the runs and the requests. What a
request may still do follows from its stage: one that is past "apply" has stored its
items, one past "probe" holds evidence of its cause; a run waits for at most one
request, and in the phase the request belongs to. `EvidenceHasCause` needs that of each
request: the evidence it holds is that of the status the machine took from it, or of the
cycle whose items it committed. For `StoredNotClaimable` one must
know that a cycle being extracted is already past the claim, so that no guarded UPDATE
of an overlapping run can take it back; for `OneExtractionPerCycle`, that a run in its
extraction has its cycle in `sw.started`, and that only faults empty that set while
ending every run; for `NotStranded`, that without faults every run that still has a
cycle is on a path that ends in a verdict, a request that ends the cycle, or a
cancellation that is queued. `KeepsCyclePromises` needs that at most one cycle is
active: one is opened only when none is, and a guarded UPDATE never makes an ended
cycle active. A reload, which cancels what is active, is then one closing.
`SerialUpserts`, `SerialAccountWrites` and `SerialMoves` again say that what a job read
is still there while it alone stands before its write.

**Recovery.** `EscalationEarned` needs an account of the attempts: what is recorded
for a case was begun or was unavailable, except for the one capability that a timeout
marker may name; and a case that is running has begun what it runs. Planning, waiting
and dying keep that. The refinement uses it: a step spends tries, never gives them
back, and escalates only where `Left` is empty or the cause is human-only.
`AskedAlone` is proved of RecoveryEpisode's steps alone and carried over through the
refinement to Recovery. It speaks of the one cause of the verdict: an item about another
cause, whose case is active, may pass the gate meanwhile. `AttemptSpends` is the measure behind
`CaseEnds`: a case has at most seven tries and each attempt takes one. **Attention.**
A push without a receipt exists only in the step that records it or after a fault, and
a delivered receipt is never pushed again (`DeliveredIsFinal`). The items carry no
episode, as the attention_id does not: `PushedOnce` and `BlockerDelivered` count a push of
an earlier occurrence, so that a recurrence is never pushed again is behaviour they
cannot object to.

**AuthTruth.** A projection has one of three sources, and each theorem is a case
split on it. That a trust cause never comes with a human cause holds because the
signal's needs_human and the truth's are the same field of one publication.

**SessionEvidence.** The theorems are about every page, result and evidence, not
about samples; the orders come from the lexicographic comparison of time, rank and
priority.

## 6. What is only model-checked, and what is not modelled

Only model-checked: `CyclesEnd`, `CaseEnds`, `FailureSurfaces`, `InFlightEnds` and
`BlockerDelivered` (liveness under fairness is outside the prover; `AttemptSpendsHolds`
and `LifeBounded` prove the bounds two of them rest on), and the violations. Every invariant
and action property of a passing run is proved, the two properties of requests that do
not overlap under that assumption.

Not modelled, in the order of interest: the metrics of natural session observation; the policy
store's load, merge and save; the attention items that do not depend on access
(authorize, worker, benefit, data gap); the 2FA relay and the sync mutex of the extension.

Left out for good: the other projections, presentation, discovery and value derivation (pure
functions of stored data, for display), the AI provider (an external call with
retries), the scraper, the MCP bridge and the mobile and fare clients (separate
front ends and vendored packages).

## 7. Hazards

`PROJECT.json` lists, at its line, everything in the code that is hard to test, with
the property that covers it or the reason none does yet.
