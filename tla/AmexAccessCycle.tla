--------------------------- MODULE AmexAccessCycle ---------------------------
(***************************************************************************)
(* One user's amex access cycles from end to end: the extension's service  *)
(* worker (extension/background.js) that polls for a cycle, probes a       *)
(* provider tab and extracts account data; the endpoints of app.py it      *)
(* calls; and the tables they write through the Provider Access Manager:   *)
(* the cycles, the session state, the account row and its snapshots.       *)
(*                                                                         *)
(* The cycle table is taken at the interface SessionVerification shows it  *)
(* to implement: guarded single UPDATEs.  Endpoints run in server threads  *)
(* and commit after every write, so a request is a job that takes a step   *)
(* per commit; a read belongs to the step before it.  A run of             *)
(* runSessionVerification waits for each of its requests in turn.          *)
(***************************************************************************)
EXTENDS SessionEvidence, FiniteSets

CONSTANTS
    MaxCycle,    \* cycles are opened in the order 1 .. MaxCycle
    Runner,      \* calls of runSessionVerification that may overlap
    NoRunner,    \* a request nobody waits for
    Worker,      \* server threads
    PageSeen,    \* what the provider tab may show
    ReportKind,  \* which reports outside of a cycle occur
    Before,      \* what the connection may be when the history begins
    MaxTime,     \* bound: the clock of observations stops here
    MaxFault     \* bound: lost requests, crashes and restarts

ASSUME CycleAssumption == MaxCycle \in Nat \ {0}
ASSUME RunnerAssumption == NoRunner \notin Runner
ASSUME PageAssumption == PageSeen \subseteq Page
ASSUME ReportAssumption ==
    /\ ReportKind \subseteq {"connecting", "waiting", "needs_login", "connected"}
    /\ Before \subseteq {"none", "connecting", "waiting", "needs_login", "connected"}
ASSUME LimitAssumption == MaxTime \in Nat /\ MaxFault \in Nat

Cycle   == 1 .. MaxCycle
NoCycle == 0

\* Lifecycle and result of a row in one: the last five are terminal, "no_data" is
\* completed as authenticated with the error no_qualifying_private_data.
Claimable == {"requested", "running"}
MidCycle  == {"session_verified", "extracting"}
Active    == Claimable \cup MidCycle
Ended     == {"authenticated", "no_data", "signed_out", "failed", "timed_out"}
Stage     == {"absent"} \cup Active \cup Ended

VARIABLES
    stage,      \* provider_session_verification: Cycle -> stage
    session,    \* provider_session_state: the stored evidence
    account,    \* account_data: connection status, items (by their cycle), extraction
    stored,     \* history: cycles whose items were committed to account_data
    snapshots,  \* account_snapshots: cycles with a published snapshot
    now,        \* the time of observations
    sw,         \* the service worker's globals
    run,        \* Runner -> the call of runSessionVerification
    job,        \* Worker -> the request a server thread handles
    faults      \* how many faults have occurred

vars == <<stage, session, account, stored, snapshots, now, sw, run, job, faults>>

NoEvidence == [state |-> "none", type |-> "session_api",
               source |-> "provider_access_probe", confidence |-> "medium", at |-> -1]

Connection == {"none", "connecting", "waiting", "needs_login", "connected"}

\* active is the run the globals _activeSessionVerification* belong to (NoRunner:
\* none in progress); cancelling are the cancellations still to be posted.
IdleWorker == [active |-> NoRunner, past_probe |-> FALSE, last |-> NoCycle,
               started |-> {}, cancelling |-> {}]

\* What the extension reports of a tab that is gone or that failed to load.
ErrorPage ==
    [error |-> TRUE, blocked |-> FALSE, blank |-> FALSE, expired |-> FALSE,
     mfa |-> FALSE, marketingUrl |-> FALSE, accountUrl |-> FALSE, loginUrl |-> FALSE,
     loginText |-> FALSE, form |-> FALSE, submitted |-> FALSE, private |-> FALSE,
     signedIn |-> FALSE, failure |-> "hard", static |-> FALSE,
     api200 |-> NoEvent, apiDenied |-> NoEvent]

IdleRun == [pc |-> "idle", cycle |-> NoCycle, tab |-> TRUE, page |-> ErrorPage,
            verdict |-> "failed"]

IdleJob == [pc |-> "idle", cycle |-> NoCycle, for |-> NoRunner,
            evidence |-> NoEvidence, seen |-> NoEvidence,
            items |-> NoCycle, target |-> "none", took |-> "none"]

Init ==
    /\ stage = [c \in Cycle |-> "absent"]
    /\ session = NoEvidence
    /\ \E b \in Before :
          account = [connection |-> b, items |-> NoCycle,
                     extraction |-> IF b = "connected" THEN "pending" ELSE "none"]
    /\ stored = {}
    /\ snapshots = {}
    /\ now = 0
    /\ sw = IdleWorker
    /\ run = [r \in Runner |-> IdleRun]
    /\ job = [w \in Worker |-> IdleJob]
    /\ faults = 0

tables == <<session, account, stored, snapshots>>

-----------------------------------------------------------------------------
(* The cycle table: each operator is the stage after one guarded UPDATE. *)

Closed(c, result) ==
    IF stage[c] \in Active THEN [stage EXCEPT ![c] = result] ELSE stage

\* (A variant that marks an active cycle running whatever its stage.)
ClaimedAgain(c) ==
    IF stage[c] \in Active THEN [stage EXCEPT ![c] = "running"] ELSE stage

Claimed(c) ==
    IF stage[c] \in Claimable THEN [stage EXCEPT ![c] = "running"] ELSE stage

Advanced(c, to) ==
    IF \/ to = "session_verified" /\ stage[c] \in Claimable \cup {"session_verified"}
       \/ to = "extracting" /\ stage[c] \in Active
    THEN [stage EXCEPT ![c] = to] ELSE stage

ActiveCycles == {c \in Cycle : stage[c] \in Active}

\* request_session_verification inserts a cycle when none is active.
OpenCycle(c) ==
    /\ ActiveCycles = {}
    /\ stage[c] = "absent" /\ \A d \in 1 .. (c - 1) : stage[d] # "absent"
    /\ stage' = [stage EXCEPT ![c] = "requested"]
    /\ UNCHANGED <<tables, now, sw, run, job, faults>>

\* The maintenance sweep expires an overdue cycle.
Expire(c) ==
    /\ stage[c] \in Active
    /\ stage' = Closed(c, "timed_out")
    /\ UNCHANGED <<tables, now, sw, run, job, faults>>

-----------------------------------------------------------------------------
(* Server threads.  A job tells the run that waits for it how it ended.  Its     *)
(* `took` is history: the status the connection machine took from it.            *)

Fault == faults < MaxFault /\ faults' = faults + 1

Free(w) == job' = [job EXCEPT ![w] = IdleJob]

\* What runSessionVerification does when its probe is answered with a decision,
\* or, when there is none, with what the tab itself showed.
AfterProbe(q, decision) ==
    LET server  == FailureOf(q.page, Classify(q.page))
        failure == IF decision = "none" \/ server = "none" THEN q.page.failure ELSE server
        authenticated == \/ decision = "connected"
                         \/ /\ decision = "none"
                            /\ q.page.signedIn /\ failure # "login_required"
        safe == failure \notin {"login_required", "marketing"} /\ ~q.page.blocked
    IN [q EXCEPT !.pc = IF ~authenticated THEN "finish"
                        ELSE IF safe THEN "start" ELSE "complete",
                 !.page = ErrorPage]  \* the page is not looked at again

\* The next state of the run job[w] answers, if it still waits.
ProbeAnswered(w, decision) ==
    IF job[w].for = NoRunner THEN run
    ELSE [run EXCEPT ![job[w].for] =
            IF @.pc = "probing" THEN AfterProbe(@, decision) ELSE [@ EXCEPT !.pc = "finish"]]

ExtractAnswered(w, ok) ==
    IF job[w].for = NoRunner THEN run
    ELSE [run EXCEPT ![job[w].for].pc = IF ok THEN "finish" ELSE "complete"]

\* A run that has its answer to the probe marks the globals, whoever's they are.
PastProbe(c) == [sw EXCEPT !.past_probe = TRUE, !.last = c]

\* (A variant that overwrites whatever it finds.)
WrittenAlways(w) == job[w].evidence

\* upsert_provider_session_state: the row the job read decides, and the row that is
\* there is overwritten.
Written(w) == IF Supersedes(job[w].evidence, job[w].seen)
              THEN job[w].evidence ELSE session

(* complete_provider_access_check: store definitive evidence, then move the cycle. *)

StoreProbe(w) ==
    /\ job[w].pc = "probe_store"
    /\ session' = Written(w)
    /\ job' = [job EXCEPT ![w].pc = "probe_finish"]
    /\ UNCHANGED <<stage, account, stored, snapshots, now, sw, run, faults>>

FinishProbe(w) ==
    /\ job[w].pc = "probe_finish"
    /\ LET decision == job[w].evidence.state IN
       /\ stage' = CASE decision = "connected" -> Advanced(job[w].cycle, "session_verified")
                     [] decision = "signed_out" -> Closed(job[w].cycle, "signed_out")
                     [] OTHER -> Closed(job[w].cycle, "failed")
       /\ run' = ProbeAnswered(w, IF decision = "none" THEN "inconclusive" ELSE decision)
    /\ sw' = IF job[w].for = NoRunner THEN sw ELSE PastProbe(job[w].cycle)
    /\ Free(w)
    /\ UNCHANGED <<tables, now, faults>>

(* api_extension_amex_extract. *)

\* mark_access_check_extracting, whose result is ignored; then the account is read.
MarkExtracting(w) ==
    /\ job[w].pc = "mark"
    /\ stage' = Advanced(job[w].cycle, "extracting")
    /\ job' = [job EXCEPT ![w].pc = "apply", ![w].items = account.items]
    /\ UNCHANGED <<tables, now, sw, run, faults>>

\* apply_amex_membership_rewards_extraction commits the items to the account row.
ApplyExtraction(w) ==
    /\ job[w].pc = "apply" /\ account.connection # "none"
    /\ account' = [account EXCEPT !.items = job[w].cycle, !.extraction = "complete"]
    /\ stored' = stored \cup {job[w].cycle}
    /\ job' = [job EXCEPT ![w].pc = "snapshot"]
    /\ UNCHANGED <<stage, session, snapshots, now, sw, run, faults>>

\* (A variant that answers a refused extraction like a successful one.)
RefuseExtractionUnnoticed(w) ==
    /\ job[w].pc = "apply"
    /\ job' = [job EXCEPT ![w].pc = "extract_done"]
    /\ UNCHANGED <<stage, tables, now, sw, run, faults>>

\* It raises when there is no account or no valid value; the account is read again.
RefuseExtraction(w) ==
    /\ job[w].pc = "apply"
    /\ job' = [job EXCEPT ![w].pc = "refused", ![w].items = account.items]
    /\ UNCHANGED <<stage, tables, now, sw, run, faults>>

\* It also raises, after the commit and the snapshot, when its last write, of the
\* inspector's record, does (record_adapter_extraction_run): the same path is taken.
BreakExtraction(w) ==
    /\ job[w].pc = "snapshot"
    /\ snapshots' \in {snapshots, snapshots \cup {job[w].cycle}}
    /\ job' = [job EXCEPT ![w].pc = "refused", ![w].items = account.items]
    /\ UNCHANGED <<stage, session, account, stored, now, sw, run, faults>>

\* ... marked as failed to extract,
StoreFailure(w) ==
    /\ job[w].pc = "refused"
    /\ account' = IF account.connection = "none" THEN account
                  ELSE [account EXCEPT !.items = job[w].items, !.extraction = "failed"]
    /\ job' = [job EXCEPT ![w].pc = "extract_failed"]
    /\ UNCHANGED <<stage, session, stored, snapshots, now, sw, run, faults>>

\* ... and the cycle is failed.
FailExtraction(w) ==
    /\ job[w].pc = "extract_failed"
    /\ stage' = Closed(job[w].cycle, "failed")
    /\ run' = ExtractAnswered(w, FALSE)
    /\ Free(w)
    /\ UNCHANGED <<tables, now, sw, faults>>

\* The evidence a job is about to store, with what it read of the stored one.
WithEvidence(j, e) == [j EXCEPT !.evidence = e, !.seen = session]

\* create_account_snapshot_from_extraction; a snapshot that fails is swallowed.
PublishSnapshot(w) ==
    /\ job[w].pc = "snapshot"
    /\ snapshots' \in {snapshots, snapshots \cup {job[w].cycle}}
    /\ job' = [job EXCEPT ![w] = WithEvidence([@ EXCEPT !.pc = "extract_store"],
                  Report("connected", "session_verified_extract", now))]
    /\ UNCHANGED <<stage, session, account, stored, now, sw, run, faults>>

StoreExtractEvidence(w) ==
    /\ job[w].pc = "extract_store"
    /\ session' = Written(w)
    /\ job' = [job EXCEPT ![w].pc = "extract_done"]
    /\ UNCHANGED <<stage, account, stored, snapshots, now, sw, run, faults>>

\* complete_access_check_after_extraction.
CompleteExtraction(w) ==
    /\ job[w].pc = "extract_done"
    /\ stage' = Closed(job[w].cycle, "authenticated")
    /\ run' = ExtractAnswered(w, TRUE)
    /\ Free(w)
    /\ UNCHANGED <<tables, now, sw, faults>>

-----------------------------------------------------------------------------
(* The connection machine of connection_state.py: read, check, write. *)

Reachable == [none |-> {}, connecting |-> {"waiting"},
              waiting |-> {"needs_login", "connected"},
              needs_login |-> {"connected"}, connected |-> {"needs_login"}]

\* _can_transition; starting over is forced.
CanMove(from, to) == to = "connecting" \/ to \in Reachable[from]

\* (A variant that stores the evidence of a report the machine refuses.)
BeginMoveUnchecked(w, target) ==
    /\ job[w].pc = "idle"
    /\ job' = [job EXCEPT ![w] =
          IF CanMove(account.connection, target)
          THEN [IdleJob EXCEPT !.pc = "move", !.target = target, !.items = account.items]
          ELSE WithEvidence([IdleJob EXCEPT !.pc = "report_store", !.target = target],
                            Report("connected", "session_verified", now))]
    /\ UNCHANGED <<stage, tables, now, sw, run, faults>>

\* A report or a user's step: refused (409) unless the machine can move.  A report
\* that login is needed is deferred while a cycle is active, and the extension
\* does not send one while it verifies.
BeginMove(w, target) ==
    /\ job[w].pc = "idle"
    /\ CanMove(account.connection, target)
    /\ target = "needs_login" => ActiveCycles = {} /\ sw.active = NoRunner
    /\ job' = [job EXCEPT ![w] = [IdleJob EXCEPT !.pc = "move", !.target = target,
                                        !.items = account.items]]
    /\ UNCHANGED <<stage, tables, now, sw, run, faults>>

\* set_amex_connection_status writes the status it was asked for and the items it
\* read.  A report goes on to the session state.
Move(w) ==
    /\ job[w].pc = "move"
    /\ account' = [connection |-> job[w].target, items |-> job[w].items,
                   extraction |-> IF job[w].items # NoCycle THEN "complete"
                                  ELSE IF job[w].target = "connected" THEN "pending"
                                  ELSE "none"]
    /\ job' = [job EXCEPT ![w] =
          CASE job[w].target = "needs_login" ->
                 WithEvidence([@ EXCEPT !.pc = "report_store", !.items = NoCycle,
                                        !.took = "needs_login"],
                              Report("signed_out", "login_required", now))
            [] job[w].target = "connected" ->
                 [@ EXCEPT !.pc = "pending", !.took = "connected"]
            [] OTHER -> IdleJob]
    /\ UNCHANGED <<stage, session, stored, snapshots, now, sw, run, faults>>

\* mark_extraction_pending writes the row it read, unless that has items.
MarkPending(w) ==
    /\ job[w].pc = "pending"
    /\ account' = IF job[w].items # NoCycle THEN account
                  ELSE [account EXCEPT !.items = NoCycle, !.extraction = "pending"]
    /\ job' = [job EXCEPT ![w] =
          WithEvidence([@ EXCEPT !.pc = "report_store", !.items = NoCycle],
                       Report("connected", "session_verified", now))]
    /\ UNCHANGED <<stage, session, stored, snapshots, now, sw, run, faults>>

StoreReport(w) ==
    /\ job[w].pc = "report_store"
    /\ session' = Written(w)
    /\ Free(w)
    /\ UNCHANGED <<stage, account, stored, snapshots, now, sw, run, faults>>

-----------------------------------------------------------------------------
(* The extension: polling for a cycle, and one runSessionVerification.  A POST  *)
(* is accepted by an idle thread, or the request is lost and nobody serves it.  *)

Step(r, pc) == run' = [run EXCEPT ![r].pc = pc]

\* pollManualProbeTrigger finds an open cycle it has not just processed.
Poll(r, c) ==
    /\ sw.active = NoRunner /\ run[r].pc = "idle"
    /\ stage[c] \in Claimable /\ c # sw.last
    /\ sw' = [sw EXCEPT !.active = r, !.past_probe = FALSE]
    /\ run' = [run EXCEPT ![r] = [IdleRun EXCEPT !.pc = "claim", !.cycle = c]]
    /\ UNCHANGED <<stage, tables, now, job, faults>>

\* The cycle is marked running; a failure to do so is ignored.
Claim(r) ==
    /\ run[r].pc = "claim"
    /\ stage' = Claimed(run[r].cycle)
    /\ Step(r, "navigate")
    /\ UNCHANGED <<tables, now, sw, job, faults>>

ClaimLost(r) ==
    /\ run[r].pc = "claim" /\ Fault
    /\ Step(r, "navigate")
    /\ UNCHANGED <<stage, tables, now, sw, job>>

\* The tab is blocked, or the probe's deadline passes before the page is seen.
GiveUp(r, verdict) ==
    /\ run[r].pc = "navigate"
    /\ run' = [run EXCEPT ![r].pc = "abandon", ![r].verdict = verdict]
    /\ UNCHANGED <<stage, tables, now, sw, job, faults>>

\* (A variant that stores an inconclusive decision too.)
ProbeJobAlways(r, p) ==
    WithEvidence([IdleJob EXCEPT !.cycle = run[r].cycle, !.for = r, !.pc = "probe_store"],
                 EvidenceOf(Probe(p), now))

\* api_extension_provider_access_probe decides on the page; only a definitive
\* decision becomes evidence.
ProbeJob(r, p) ==
    LET decision == Decision(Probe(p))
        j == [IdleJob EXCEPT !.cycle = run[r].cycle, !.for = r]
    IN IF decision = "inconclusive" THEN [j EXCEPT !.pc = "probe_finish"]
       ELSE WithEvidence([j EXCEPT !.pc = "probe_store"], EvidenceOf(Probe(p), now))

\* The page is observed and posted; the tab may show an error page, be gone, or
\* make the observation throw ("reporting").
PostProbe(r, w, p, pc) ==
    /\ run[r].pc = "navigate" /\ job[w].pc = "idle"
    /\ p = ErrorPage \/ (run[r].tab /\ pc = "probing")
    /\ run' = [run EXCEPT ![r].pc = pc, ![r].page = p]
    /\ job' = [job EXCEPT ![w] = ProbeJob(r, p)]
    /\ UNCHANGED <<stage, tables, now, sw, faults>>

PostProbeLost(r, p) ==
    /\ run[r].pc = "navigate" /\ Fault
    /\ p = ErrorPage \/ run[r].tab
    /\ run' = [run EXCEPT ![r].pc = "probing", ![r].page = p]
    /\ UNCHANGED <<stage, tables, now, sw, job>>

\* runAmexExtractionForAccessCycle: at most once per cycle.
Duplicate(r) ==
    /\ run[r].pc = "start" /\ run[r].cycle \in sw.started
    /\ Step(r, "finish")
    /\ UNCHANGED <<stage, tables, now, sw, job, faults>>

\* (A variant that does not remember the cycle it starts to extract.)
StartForgetful(r) ==
    /\ run[r].pc = "start" /\ run[r].cycle \notin sw.started
    /\ Step(r, "advance")
    /\ UNCHANGED <<stage, tables, now, sw, job, faults>>

Start(r) ==
    /\ run[r].pc = "start" /\ run[r].cycle \notin sw.started
    /\ sw' = [sw EXCEPT !.started = @ \cup {run[r].cycle}]
    /\ Step(r, "advance")
    /\ UNCHANGED <<stage, tables, now, job, faults>>

Advance(r) ==
    /\ run[r].pc = "advance"
    /\ stage' = Advanced(run[r].cycle, "extracting")
    /\ Step(r, "extractor")
    /\ UNCHANGED <<tables, now, sw, job, faults>>

AdvanceLost(r) ==
    /\ run[r].pc = "advance" /\ Fault
    /\ Step(r, "extractor")
    /\ UNCHANGED <<stage, tables, now, sw, job>>

\* The extract endpoint accepts only for the active cycle past its probe.
Accepts(c) == stage[c] \in MidCycle

ExtractJob(c, r) == [IdleJob EXCEPT !.pc = "mark", !.cycle = c, !.for = r]

PostExtract(r, w) ==
    /\ run[r].pc = "extractor" /\ job[w].pc = "idle"
    /\ IF Accepts(run[r].cycle)
       THEN job' = [job EXCEPT ![w] = ExtractJob(run[r].cycle, r)] /\ Step(r, "extracting")
       ELSE job' = job /\ Step(r, "complete")
    /\ UNCHANGED <<stage, tables, now, sw, faults>>

\* (A variant that ends the run without a verdict.)
ExtractorFailsSilently(r) ==
    /\ run[r].pc = "extractor"
    /\ Step(r, "finish")
    /\ UNCHANGED <<stage, tables, now, sw, job, faults>>

\* No extractor result, a failed one, or a post that never arrives.
ExtractorFails(r) ==
    /\ run[r].pc = "extractor"
    /\ Step(r, "complete")
    /\ UNCHANGED <<stage, tables, now, sw, job, faults>>

\* Nothing to extract: the cycle is completed as authenticated without data, or, if
\* that post is refused or lost, asked to complete so.
NoAccountData(r) ==
    /\ run[r].pc = "extractor"
    /\ LET c == run[r].cycle IN
       IF stage[c] \in Active \ {"requested"}
       THEN stage' = Closed(c, "no_data") /\ Step(r, "finish")
       ELSE /\ stage' = stage
            /\ run' = [run EXCEPT ![r].pc = IF stage[c] = "no_data" THEN "finish"
                                            ELSE "complete",
                                  ![r].verdict = "no_data"]
    /\ UNCHANGED <<tables, now, sw, job, faults>>

NoAccountDataLost(r) ==
    /\ run[r].pc = "extractor" /\ Fault
    /\ run' = [run EXCEPT ![r].pc = "complete", ![r].verdict = "no_data"]
    /\ UNCHANGED <<stage, tables, now, sw, job>>

Waiting == {"probing", "reporting", "extracting"}

Unanswered(r) ==
    sw' = IF run[r].pc = "extracting" THEN sw ELSE PastProbe(run[r].cycle)

\* A request nobody serves any more fails, a served one may: a probe goes on by
\* what the tab showed, an extraction is failed.  The error path's own fallback is
\* never reached, as _postProviderAccessProbe reports a failure as an object.
WithoutAnswer(r) ==
    run' = [run EXCEPT ![r] =
              CASE @.pc = "probing" -> AfterProbe(@, "none")
                [] @.pc = "reporting" -> [@ EXCEPT !.pc = "finish"]
                [] OTHER -> [@ EXCEPT !.pc = "complete"]]

Serving(r) == {w \in Worker : job[w].for = r}

FetchFails(r) ==
    /\ run[r].pc \in Waiting /\ Serving(r) = {}
    /\ WithoutAnswer(r) /\ Unanswered(r)
    /\ UNCHANGED <<stage, tables, now, job, faults>>

FetchAborted(r) ==
    /\ run[r].pc \in Waiting /\ Serving(r) # {} /\ Fault
    /\ WithoutAnswer(r) /\ Unanswered(r)
    /\ job' = [w \in Worker |-> IF w \in Serving(r) THEN [job[w] EXCEPT !.for = NoRunner]
                               ELSE job[w]]
    /\ UNCHANGED <<stage, tables, now>>

\* _completeSessionVerification, whose failure is ignored.
Verdict(r, next) ==
    /\ run[r].pc \in {"abandon", "complete"}
    /\ stage' = next
    /\ sw' = IF run[r].pc = "abandon" THEN [sw EXCEPT !.last = run[r].cycle] ELSE sw
    /\ Step(r, "finish")
    /\ UNCHANGED <<tables, now, job>>

Complete(r) == Verdict(r, Closed(run[r].cycle, run[r].verdict)) /\ UNCHANGED faults
CompleteLost(r) == Verdict(r, stage) /\ Fault

\* _clearActiveSessionVerification clears the globals of whichever run is active.
Cleared(s) == [s EXCEPT !.active = NoRunner, !.past_probe = FALSE]

Finish(r) ==
    /\ run[r].pc = "finish"
    /\ sw' = Cleared(sw)
    /\ run' = [run EXCEPT ![r] = IdleRun]
    /\ UNCHANGED <<stage, tables, now, job, faults>>

\* The tab of the active run is closed: before the probe's answer that cancels.
TabClosed(r) ==
    /\ sw.active = r /\ run[r].tab /\ run[r].pc \notin {"idle", "claim"}
    /\ sw' = [Cleared(sw) EXCEPT !.cancelling = IF sw.past_probe THEN @
                                                ELSE @ \cup {run[r].cycle}]
    /\ run' = [run EXCEPT ![r].tab = FALSE]
    /\ UNCHANGED <<stage, tables, now, job, faults>>

Cancel(c, next) ==
    /\ c \in sw.cancelling
    /\ stage' = next
    /\ sw' = [sw EXCEPT !.cancelling = @ \ {c}]
    /\ UNCHANGED <<tables, now, run, job>>

CancelPosted(c) == Cancel(c, Closed(c, "failed")) /\ UNCHANGED faults
CancelLost(c) == Cancel(c, stage) /\ Fault

\* A content script found a balance while a cycle is verified (AMEX_MR_EXTRACTED).
ContentPush(w) ==
    /\ sw.active # NoRunner /\ job[w].pc = "idle"
    /\ Accepts(run[sw.active].cycle)
    /\ job' = [job EXCEPT ![w] = ExtractJob(run[sw.active].cycle, NoRunner)]
    /\ UNCHANGED <<stage, tables, now, sw, run, faults>>

-----------------------------------------------------------------------------
(* Faults and time. *)

NobodyWaits == [w \in Worker |-> [job[w] EXCEPT !.for = NoRunner]]

\* The browser stops the service worker, or the extension is reloaded, which then
\* cancels every active cycle.
WorkerStops(next) ==
    /\ Fault
    /\ run' = [r \in Runner |-> IdleRun]
    /\ sw' = IdleWorker
    /\ job' = NobodyWaits
    /\ stage' = next
    /\ UNCHANGED <<tables, now>>

Stopped == WorkerStops(stage)
Reloaded == WorkerStops([c \in Cycle |-> IF stage[c] \in Active THEN "failed" ELSE stage[c]])

ServerCrash ==
    /\ Fault
    /\ \E w \in Worker : job[w].pc # "idle"
    /\ job' = [w \in Worker |-> IdleJob]
    /\ UNCHANGED <<stage, tables, now, sw, run>>

Tick ==
    /\ now < MaxTime /\ now' = now + 1
    /\ UNCHANGED <<stage, tables, sw, run, job, faults>>

-----------------------------------------------------------------------------
JobStep(w) ==
    \/ StoreProbe(w) \/ FinishProbe(w) \/ MarkExtracting(w)
    \/ ApplyExtraction(w) \/ RefuseExtraction(w) \/ BreakExtraction(w) \/ StoreFailure(w)
    \/ FailExtraction(w) \/ PublishSnapshot(w) \/ StoreExtractEvidence(w)
    \/ CompleteExtraction(w) \/ Move(w) \/ MarkPending(w) \/ StoreReport(w)

\* What a run does by itself; each of these ends a wait or a phase.
RunStep(r) ==
    \/ Claim(r) \/ Duplicate(r) \/ Start(r) \/ Advance(r)
    \/ ExtractorFails(r) \/ NoAccountData(r) \/ FetchFails(r)
    \/ Complete(r) \/ Finish(r)
    \/ \E v \in {"failed", "timed_out"} : GiveUp(r, v)
    \/ \E w \in Worker : PostExtract(r, w)
    \/ \E w \in Worker, p \in PageSeen \cup {ErrorPage}, pc \in {"probing", "reporting"} :
          PostProbe(r, w, p, pc)

RunFault(r) ==
    \/ ClaimLost(r) \/ AdvanceLost(r) \/ NoAccountDataLost(r) \/ FetchAborted(r)
    \/ CompleteLost(r)
    \/ \E p \in PageSeen \cup {ErrorPage} : PostProbeLost(r, p)

Next ==
    \/ \E c \in Cycle : OpenCycle(c) \/ Expire(c) \/ CancelPosted(c) \/ CancelLost(c)
    \/ \E r \in Runner : RunStep(r) \/ RunFault(r) \/ TabClosed(r)
    \/ \E r \in Runner, c \in Cycle : Poll(r, c)
    \/ \E w \in Worker : JobStep(w) \/ ContentPush(w)
    \/ \E w \in Worker, t \in ReportKind : BeginMove(w, t)
    \/ Stopped \/ Reloaded \/ ServerCrash \/ Tick

Spec == Init /\ [][Next]_vars

-----------------------------------------------------------------------------
JobPc == {"idle", "probe_store", "probe_finish", "mark", "apply", "refused",
          "extract_failed", "snapshot", "extract_store", "extract_done", "move",
          "pending", "report_store"}
RunPc == {"idle", "claim", "navigate", "start", "advance", "extractor", "abandon",
          "complete", "finish"} \cup Waiting

StoredEvidence == Evidence \cup {NoEvidence}

AccountRow == [connection : Connection, items : Cycle \cup {NoCycle},
               extraction : {"none", "pending", "complete", "failed"}]
Globals == [active : Runner \cup {NoRunner}, past_probe : BOOLEAN,
            last : Cycle \cup {NoCycle}, started : SUBSET Cycle,
            cancelling : SUBSET Cycle]
Run == [pc : RunPc, cycle : Cycle \cup {NoCycle}, tab : BOOLEAN, page : Page,
        verdict : {"failed", "timed_out", "no_data"}]
Job == [pc : JobPc, cycle : Cycle \cup {NoCycle}, for : Runner \cup {NoRunner},
        evidence : StoredEvidence, seen : StoredEvidence,
        items : Cycle \cup {NoCycle}, target : Connection, took : Connection]

\* Every variable has its type.
TypeOK ==
    /\ stage \in [Cycle -> Stage]
    /\ session \in StoredEvidence
    /\ account \in AccountRow
    /\ stored \subseteq Cycle /\ snapshots \subseteq Cycle
    /\ now \in 0 .. MaxTime
    /\ sw \in Globals
    /\ run \in [Runner -> Run]
    /\ job \in [Worker -> Job]
    /\ faults \in 0 .. MaxFault

\* A cycle that ended as authenticated with data has had its items committed to the
\* account row: api_extension_amex_extract completes last.
SuccessHasExtraction ==
    \A c \in Cycle : stage[c] = "authenticated" => c \in stored

\* A cycle whose account data was committed is never offered to the extension again:
\* no late claim, probe answer or advance of an overlapping run takes it back.
StoredNotClaimable ==
    \A c \in stored : stage[c] \notin {"absent"} \cup Claimable

\* What makes job j's evidence true, `committed` being the cycles with data.
Caused(j, committed) ==
    CASE j.evidence.type = "session_verified_extract" -> j.cycle \in committed
      [] j.evidence.type = "session_verified" -> j.took = "connected"
      [] OTHER -> j.took = "needs_login"

\* Whatever the extension says of the session is stored for a cause: a report, by the
\* request whose status the connection machine took (app.py: "A 409 connection-FSM
\* rejection must not write provider_session_state"); the evidence of an
\* extraction, by the request that committed the items of its own cycle.
EvidenceHasCause ==
    [][session'.source = "extension_amex" =>
          \E w \in Worker : job[w].evidence = session' /\ Caused(job[w], stored)]_session

\* Two overlapping runs never extract the same cycle: _amexExtractionCyclesStarted
\* stands in when a closed tab or a finished run has cleared the globals.
OneExtractionPerCycle ==
    \A r, q \in Runner :
        /\ r # q /\ run[r].cycle = run[q].cycle
        /\ run[r].pc \in {"advance", "extractor", "extracting"}
        => run[q].pc \notin {"advance", "extractor", "extracting"}

\* Without faults no cycle that was claimed is left to the maintenance sweep: a run,
\* a request or a cancellation under way still ends it ("Never leave a claimed row
\* active"), whatever tabs are closed, pages shown and runs overlap.
NotStranded ==
    \A c \in Cycle : (stage[c] \in Active \ {"requested"} /\ faults = 0) =>
        \/ \E r \in Runner : run[r].cycle = c /\ run[r].pc # "finish"
        \/ \E w \in Worker : job[w].cycle = c
        \/ c \in sw.cancelling

\* The session state never goes back to evidence that is older, or as old and less
\* sure: whichever of probe, extraction and report comes late.  With more threads than
\* one, two upserts that overlap break it; they are the only way.
EvidenceImproves == [][Supersedes(session', session)]_session

-----------------------------------------------------------------------------
(* The extension and the endpoints together keep the promises of the table.  *)

StageOf(s) ==
    CASE s = "absent" -> "none"
      [] s \in Claimable -> "pending"
      [] s \in MidCycle -> "verified"
      [] OTHER -> "closed"

ResultOf(s) == IF s \in Ended THEN s ELSE "open"

Table == INSTANCE AccessCycle WITH
    User <- {"user"}, NoUser <- "nobody", Cycle <- Cycle,
    Result <- Ended, TimedOut <- "timed_out", Open <- "open",
    owner <- [c \in Cycle |-> IF stage[c] = "absent" THEN "nobody" ELSE "user"],
    stage <- [c \in Cycle |-> StageOf(stage[c])],
    result <- [c \in Cycle |-> ResultOf(stage[c])]

\* Whatever runs overlap, tabs close, requests are lost and workers restart, a cycle
\* is opened alone, goes from pending to verified to one result, and never back:
\* the endpoints called in any order implement what the table promises.
KeepsCyclePromises == Table!CycleSpec
=============================================================================
