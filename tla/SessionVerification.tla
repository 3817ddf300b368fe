------------------------- MODULE SessionVerification -------------------------
(***************************************************************************)
(* The session-verification lifecycle of mighty/session_verification.py:   *)
(* the table provider_session_verification and every function that writes  *)
(* it.  A row is one access cycle.  Only one provider (amex) has a         *)
(* verification entry URL, so the (user, provider) pair the code keys on   *)
(* is a user here.                                                         *)
(*                                                                         *)
(* Request handlers run in the threads of a Flask server, each with its    *)
(* own sqlite connection: a single UPDATE or INSERT with its commit is     *)
(* atomic, a read followed by a write is not.  A handler that reads and    *)
(* then writes is therefore a job that takes several steps, and other      *)
(* handlers run between them.  The clock is the server's, in abstract      *)
(* units; a job keeps the `now` it captured when it began.                 *)
(***************************************************************************)
EXTENDS Integers, FiniteSets

CONSTANTS
    User,                 \* owners of access cycles
    NoUser,               \* owner of an id no row has yet
    Cycle,                \* verification ids (uuid4, never reused)
    Worker,               \* server threads
    Trigger,              \* the trigger_source values that request cycles
    Completion,           \* argument tuples callers give complete_session_verification
    ProbeTimeout,         \* VERIFICATION_MAX_DURATION_SECONDS
    ExtractionTimeout,    \* VERIFICATION_EXTRACTION_TIMEOUT_SECONDS
    Throttle,             \* VERIFICATION_THROTTLE_SECONDS
    MaintenanceInterval,  \* VERIFICATION_MAINTENANCE_INTERVAL_SECONDS
    MaxLag,               \* how long a handler may hold the `now` it captured
    MaxTime               \* bound: the clock stops here

Claimable == {"requested", "running"}
MidCycle  == {"session_verified", "extracting"}
Active    == Claimable \cup MidCycle
Terminal  == {"completed", "failed", "timed_out"}

Reason == {"authenticated", "signed_out", "timeout",
           "navigation_failed", "cancelled", "unknown"}

Unset  == "unset"   \* an argument the caller left out
NoTime == -1        \* a NULL timestamp

\* What a caller passes: lifecycle and terminal_reason when it names them, and
\* the reason terminal_reason_from_error_message reads in its error text.
CompletionArgs ==
    [lifecycle: Terminal \cup {Unset}, reason: Reason \cup {Unset},
     error: Reason \cup {Unset}]

ASSUME NoUserAssumption == NoUser \notin User

ASSUME TriggerAssumption == Trigger \subseteq {"user_check_now", "scheduled_recheck"}

ASSUME CompletionAssumption == Completion \subseteq CompletionArgs

ASSUME TimeAssumption ==
    /\ {ProbeTimeout, ExtractionTimeout, MaintenanceInterval} \subseteq Nat \ {0}
    /\ {Throttle, MaxLag, MaxTime} \subseteq Nat

VARIABLES
    row,        \* the table: Cycle -> row, "absent" before its INSERT
    clock,      \* utc_now()
    up,         \* whether the server process is running
    nextSweep,  \* when the maintenance heartbeat runs next
    job         \* Worker -> the handler the thread is executing

vars == <<row, clock, up, nextSweep, job>>

Row == [lifecycle: Active \cup Terminal \cup {"absent"},
        user: User \cup {NoUser}, trigger: Trigger \cup {Unset},
        requested_at: Nat, started_at: Nat \cup {NoTime},
        reason: Reason \cup {Unset}]

AbsentRow == [lifecycle |-> "absent", user |-> NoUser,
              trigger |-> Unset, requested_at |-> 0,
              started_at |-> NoTime, reason |-> Unset]

NewRow(u, t, now) == [lifecycle |-> "requested", user |-> u, trigger |-> t,
                      requested_at |-> now, started_at |-> NoTime,
                      reason |-> Unset]

\* pc "find" .. "raised" is request_session_verification, "complete" and
\* "terminalise" are complete_session_verification.
Job == [pc: {"idle", "find", "throttle", "insert", "raced", "raised",
             "complete", "terminalise"},
        user: User \cup {NoUser}, trigger: Trigger \cup {Unset}, now: Nat,
        cycle: Cycle \cup {Unset}, args: CompletionArgs]

NoArgs  == [lifecycle |-> Unset, reason |-> Unset, error |-> Unset]
IdleJob == [pc |-> "idle", user |-> NoUser, trigger |-> Unset,
            now |-> 0, cycle |-> Unset, args |-> NoArgs]

-----------------------------------------------------------------------------
(* Reads of the table. *)

RowsOf(u)   == {c \in Cycle : row[c].user = u /\ row[c].lifecycle # "absent"}
ActiveOf(u) == {c \in RowsOf(u) : row[c].lifecycle \in Active}

\* verification_timeout_deadline_at
ProbeAnchor(r) == IF r.lifecycle = "running" /\ r.started_at # NoTime
                  THEN r.started_at ELSE r.requested_at
Deadline(r) == IF r.lifecycle \in MidCycle
               THEN r.requested_at + ExtractionTimeout
               ELSE ProbeAnchor(r) + ProbeTimeout

\* (A variant whose expiry forgets the cycles past their probe.)
OverdueProbe(r, now) == r.lifecycle \in Claimable /\ now > Deadline(r)

\* The WHERE clauses of the three UPDATEs of expire_timed_out_verifications.
Overdue(r, now) == r.lifecycle \in Active /\ now > Deadline(r)

\* lifecycle_for_terminal_reason
LifecycleFor(reason) ==
    IF reason = "timeout" THEN "timed_out"
    ELSE IF reason \in {"authenticated", "signed_out"} THEN "completed"
    ELSE "failed"

\* (A variant that stores the reason as given.)
GivenReason(a) == a.reason

\* The reason complete_session_verification stores: the caller's, else the one
\* read in the error text, else the one its lifecycle stands for.
FinalReason(a) ==
    IF a.reason # Unset THEN a.reason
    ELSE IF a.error # Unset THEN a.error
    ELSE CASE a.lifecycle = "timed_out" -> "timeout"
           [] a.lifecycle = "completed" -> "authenticated"
           [] OTHER -> "unknown"

\* (A variant that stores the lifecycle as given.)
GivenLifecycle(a) == a.lifecycle

\* The caller's lifecycle wins over the one its reason maps to.
FinalLifecycle(a) ==
    IF a.lifecycle # Unset THEN a.lifecycle ELSE LifecycleFor(FinalReason(a))

\* A row made terminal.
Closed(r, lifecycle, reason) ==
    [r EXCEPT !.lifecycle = lifecycle, !.reason = reason]

\* The table after expire_timed_out_verifications for the users of `us`.
Expire(us, now) ==
    [c \in Cycle |->
        IF row[c].user \in us /\ Overdue(row[c], now)
        THEN Closed(row[c], "timed_out", "timeout")
        ELSE row[c]]

-----------------------------------------------------------------------------
Init ==
    /\ row = [c \in Cycle |-> AbsentRow]
    /\ clock = 0
    /\ up = TRUE
    /\ nextSweep = 0
    /\ job = [w \in Worker |-> IdleJob]

\* A handler ends: its thread is free again.
Finish(w) == job' = [job EXCEPT ![w] = IdleJob]

\* request_session_verification captures now and expires overdue rows (one
\* transaction) before it looks for an active one.
BeginRequest(w, u, trigger) ==
    /\ up /\ job[w].pc = "idle"
    /\ row' = Expire({u}, clock)
    /\ job' = [job EXCEPT ![w] = [IdleJob EXCEPT !.pc = "find", !.user = u,
                                        !.trigger = trigger, !.now = clock]]
    /\ UNCHANGED <<clock, up, nextSweep>>

\* get_active_session_verification: an active cycle is reused.
FindActive(w) ==
    /\ job[w].pc = "find"
    /\ IF ActiveOf(job[w].user) # {}
       THEN Finish(w)
       ELSE job' = [job EXCEPT ![w].pc = "throttle"]
    /\ UNCHANGED <<row, clock, up, nextSweep>>

\* (A variant that throttles a trigger by its own earlier requests only.)
ThrottledByOwn(u, trigger, now) ==
    \E c \in RowsOf(u) :
        /\ row[c].trigger = trigger
        /\ now - row[c].requested_at < IF trigger = "user_check_now" THEN 0 ELSE Throttle

\* The age of the newest row against the throttle, which is 0 for a user's own
\* Check now: a throttled request answers with the newest row.
Throttled(u, trigger, now) ==
    \E c \in RowsOf(u) :
        now - row[c].requested_at < IF trigger = "user_check_now" THEN 0 ELSE Throttle

CheckThrottle(w) ==
    /\ job[w].pc = "throttle"
    /\ IF Throttled(job[w].user, job[w].trigger, job[w].now)
       THEN Finish(w)
       ELSE job' = [job EXCEPT ![w].pc = "insert"]
    /\ UNCHANGED <<row, clock, up, nextSweep>>

\* (A variant without the unique index.)
NoIndex(u) == TRUE

\* The INSERT under idx_psv_one_active_per_user_provider.
IndexAllows(u) == ActiveOf(u) = {}

Insert(w) ==
    /\ job[w].pc = "insert"
    /\ IF IndexAllows(job[w].user)
       THEN /\ \E c \in Cycle :
                 /\ row[c].lifecycle = "absent"
                 /\ row' = [row EXCEPT ![c] =
                                NewRow(job[w].user, job[w].trigger, job[w].now)]
            /\ Finish(w)
       ELSE /\ job' = [job EXCEPT ![w].pc = "raced"]
            /\ UNCHANGED row
    /\ UNCHANGED <<clock, up, nextSweep>>

\* The INSERT conflicted: after the rollback the handler answers with the cycle
\* that won, and re-raises the IntegrityError when it finds none.
ReadRaced(w) ==
    /\ job[w].pc = "raced"
    /\ IF ActiveOf(job[w].user) # {}
       THEN Finish(w)
       ELSE job' = [job EXCEPT ![w].pc = "raised"]
    /\ UNCHANGED <<row, clock, up, nextSweep>>

\* The exception leaves the handler as an error response.
RespondError(w) ==
    /\ job[w].pc = "raised"
    /\ Finish(w)
    /\ UNCHANGED <<row, clock, up, nextSweep>>

-----------------------------------------------------------------------------
\* (A variant in which every claim restarts the probe window.)
Reclaimed(r) == [r EXCEPT !.lifecycle = "running", !.started_at = clock]

\* mark_session_verification_running: one guarded UPDATE, which keeps the first
\* started_at.
Claimed(r) == [r EXCEPT !.lifecycle = "running",
                        !.started_at = IF @ = NoTime THEN clock ELSE @]

MarkRunning(c) ==
    /\ up /\ row[c].lifecycle \in Claimable
    /\ row' = [row EXCEPT ![c] = Claimed(@)]
    /\ UNCHANGED <<clock, up, nextSweep, job>>

\* (A variant that advances any active cycle to either stage.)
FromActive(stage) == Active

\* The lifecycles advance_session_verification may leave for a mid-cycle stage.
AdvanceFrom(stage) ==
    IF stage = "session_verified" THEN Claimable \cup {"session_verified"} ELSE Active

Advance(c, stage) ==
    /\ up /\ row[c].lifecycle \in AdvanceFrom(stage)
    /\ row' = [row EXCEPT ![c].lifecycle = stage]
    /\ UNCHANGED <<clock, up, nextSweep, job>>

\* A handler is about to call complete_session_verification for a cycle.
BeginComplete(w, c, args) ==
    /\ up /\ job[w].pc = "idle"
    /\ row[c].lifecycle # "absent"
    /\ job' = [job EXCEPT ![w] = [IdleJob EXCEPT !.pc = "complete", !.cycle = c,
                                        !.args = args]]
    /\ UNCHANGED <<row, clock, up, nextSweep>>

CancelArgs == [lifecycle |-> "failed", reason |-> "cancelled", error |-> "cancelled"]

\* cancel_active_session_verifications (extension reload): find the user's
\* active cycle, then complete it as cancelled.
BeginCancel(w, u) ==
    /\ up /\ job[w].pc = "idle"
    /\ \E c \in ActiveOf(u) :
         job' = [job EXCEPT ![w] = [IdleJob EXCEPT !.pc = "complete", !.cycle = c,
                                          !.args = CancelArgs]]
    /\ UNCHANGED <<row, clock, up, nextSweep>>

\* complete_session_verification reads the row: a terminal one is returned as it is.
ReadExisting(w) ==
    /\ job[w].pc = "complete"
    /\ IF row[job[w].cycle].lifecycle \in Terminal
       THEN Finish(w)
       ELSE job' = [job EXCEPT ![w].pc = "terminalise"]
    /\ UNCHANGED <<row, clock, up, nextSweep>>

\* (A variant whose UPDATE is not guarded by the lifecycle.)
TerminaliseAny(c, args) ==
    row' = [row EXCEPT ![c] = Closed(@, FinalLifecycle(args), FinalReason(args))]

\* ... and its UPDATE, guarded by WHERE lifecycle IN (the active ones): the
\* handler that lost the race changes nothing.
Terminalise(c, args) ==
    row' = IF row[c].lifecycle \in Active
           THEN [row EXCEPT ![c] = Closed(@, FinalLifecycle(args), FinalReason(args))]
           ELSE row

WriteTerminal(w) ==
    /\ job[w].pc = "terminalise"
    /\ Terminalise(job[w].cycle, job[w].args)
    /\ Finish(w)
    /\ UNCHANGED <<clock, up, nextSweep>>

-----------------------------------------------------------------------------
\* run_verification_maintenance for one user (maintain endpoint, ensure-due).
Maintain(u) ==
    /\ up
    /\ row' = Expire({u}, clock)
    /\ UNCHANGED <<clock, up, nextSweep, job>>

\* The server's own heartbeat: every user's overdue rows, at startup and every
\* MaintenanceInterval from then on.
Sweep ==
    /\ up /\ clock >= nextSweep
    /\ row' = Expire(User, clock)
    /\ nextSweep' = clock + MaintenanceInterval
    /\ UNCHANGED <<clock, up, job>>

\* A sweep that meets an error is logged and tried again a heartbeat later.
SweepFails ==
    /\ up /\ clock >= nextSweep
    /\ nextSweep' = clock + MaintenanceInterval
    /\ UNCHANGED <<row, clock, up, job>>

\* The process dies: handlers are lost, uncommitted statements rolled back.
Crash ==
    /\ up
    /\ up' = FALSE
    /\ job' = [w \in Worker |-> IdleJob]
    /\ UNCHANGED <<row, clock, nextSweep>>

\* The process starts: its maintenance thread sweeps at once.
Restart ==
    /\ ~up
    /\ up' = TRUE
    /\ nextSweep' = clock
    /\ UNCHANGED <<row, clock, job>>

\* Time passes, but not beyond a due sweep of a running server, nor while a
\* request handler has held its `now` for MaxLag.
Requesting(w) == job[w].pc \in {"find", "throttle", "insert", "raced", "raised"}

Tick ==
    /\ clock < MaxTime
    /\ up => clock < nextSweep
    /\ \A w \in Worker : Requesting(w) => clock - job[w].now < MaxLag
    /\ clock' = clock + 1
    /\ UNCHANGED <<row, up, nextSweep, job>>

RequestStep(w) ==
    \/ \E u \in User, t \in Trigger : BeginRequest(w, u, t)
    \/ FindActive(w) \/ CheckThrottle(w) \/ Insert(w)
    \/ ReadRaced(w) \/ RespondError(w)

CompleteStep(w) ==
    \/ \E c \in Cycle, a \in Completion : BeginComplete(w, c, a)
    \/ \E u \in User : BeginCancel(w, u)
    \/ ReadExisting(w) \/ WriteTerminal(w)

RowStep(c) == MarkRunning(c) \/ \E s \in MidCycle : Advance(c, s)

\* The steps of a server that stays up.
Step ==
    \/ \E w \in Worker : RequestStep(w) \/ CompleteStep(w)
    \/ \E c \in Cycle : RowStep(c)
    \/ \E u \in User : Maintain(u)
    \/ Sweep \/ Tick

Next == Step \/ SweepFails \/ Crash \/ Restart

Spec == Init /\ [][Next]_vars

SpecUp == Init /\ [][Step]_vars

\* What the scheduling of the process gives: a thread runs its handler on, the
\* maintenance thread runs when it is due, time passes, and a dead process is
\* started again.  Sweeps meet no errors here.
HandlerStep(w) ==
    \/ FindActive(w) \/ CheckThrottle(w) \/ Insert(w) \/ ReadRaced(w)
    \/ RespondError(w) \/ ReadExisting(w) \/ WriteTerminal(w)

Fairness ==
    /\ \A w \in Worker : WF_vars(HandlerStep(w))
    /\ WF_vars(Sweep) /\ WF_vars(Tick) /\ WF_vars(Restart)

SpecFair == Init /\ [][Step \/ Crash \/ Restart]_vars /\ Fairness

-----------------------------------------------------------------------------
TypeOK ==
    /\ row \in [Cycle -> Row]
    /\ clock \in Nat
    /\ up \in BOOLEAN
    /\ nextSweep \in Nat
    /\ job \in [Worker -> Job]
    /\ \A w \in Worker :
         /\ Requesting(w) => job[w].user \in User /\ job[w].trigger \in Trigger
         /\ job[w].pc \in {"complete", "terminalise"} => job[w].cycle \in Cycle

\* At most one active verification per user and provider, whatever requests
\* interleave (request_session_verification, "Invariant: at most one active").
SingleActive ==
    \A c, d \in Cycle :
        (row[c].lifecycle \in Active /\ row[d].lifecycle \in Active
             /\ row[c].user = row[d].user) => c = d

\* Exactly-once completion: a terminal row is never written again, by a late
\* completion, a claim, an advance or an expiry (complete_session_verification,
\* "if another writer won the race, keep the first terminal row").
TerminalIsFinal ==
    [][\A c \in Cycle : row[c].lifecycle \in Terminal => row'[c] = row[c]]_row

Rank == [l \in Active \cup Terminal \cup {"absent"} |->
            CASE l = "absent" -> 0
              [] l = "requested" -> 1
              [] l = "running" -> 2
              [] l = "session_verified" -> 3
              [] l = "extracting" -> 4
              [] OTHER -> 5]

\* An access cycle only moves forward: a claim or an authentication report that
\* arrives late never takes a cycle back to an earlier stage
\* (mark_session_verification_running, advance_session_verification).
LifecycleForward ==
    [][\A c \in Cycle : Rank[row[c].lifecycle] <= Rank[row'[c].lifecycle]]_row

\* In a server that stays up no active cycle is past the deadline of its phase
\* by more than the maintenance interval ("Worst-case persisted timeout ~
\* phase_deadline + this interval"), although a claim moves the deadline and an
\* advance anchors it on requested_at again.
OverdueBounded ==
    \A c \in Cycle : row[c].lifecycle \in Active =>
        clock <= Deadline(row[c]) + MaintenanceInterval

\* A verification is a finite operation: in a server that stays up no chain of
\* claims and advances keeps a cycle active for longer than the extraction
\* window and one maintenance interval.
CycleAgeBounded ==
    \A c \in Cycle : row[c].lifecycle \in Active =>
        clock - row[c].requested_at
            <= ExtractionTimeout + MaintenanceInterval

\* An active cycle becomes terminal by itself: no poll, request or extension has
\* to come, only the heartbeat, also after crashes.  (Bounded: for cycles that
\* are active early enough before the clock stops.)
CyclesEnd ==
    \A c \in Cycle :
        (row[c].lifecycle \in Active
            /\ clock + ExtractionTimeout + MaintenanceInterval < MaxTime)
        ~> (row[c].lifecycle \in Terminal \/ ~up)

\* A request that is not the user's own Check now never enqueues a cycle within
\* the throttle window of an earlier one (VERIFICATION_THROTTLE_SECONDS).
ThrottleRespected ==
    \A c, d \in Cycle :
        /\ c # d
        /\ row[c].lifecycle # "absent" /\ row[d].lifecycle # "absent"
        /\ row[c].user = row[d].user
        /\ row[d].trigger = "scheduled_recheck"
        /\ \/ row[c].requested_at < row[d].requested_at
           \/ /\ row[c].requested_at = row[d].requested_at
              /\ row[c].trigger = "scheduled_recheck"
        => row[d].requested_at - row[c].requested_at >= Throttle

\* A request for a supported provider is answered with a cycle, never with an
\* error (request_session_verification, "Returns the active or newly created").
RequestAnswered == \A w \in Worker : job[w].pc # "raised"

-----------------------------------------------------------------------------
(* The table implements AccessCycle. *)

\* The results a cycle can end with, and the one of a cycle that has not ended.
Results  == [lifecycle: Terminal, reason: Reason]
NoResult == [lifecycle |-> Unset, reason |-> Unset]

ResultOf(r) == IF r.lifecycle \in Terminal
               THEN [lifecycle |-> r.lifecycle, reason |-> r.reason]
               ELSE NoResult

StageOf(r) ==
    CASE r.lifecycle = "absent"     -> "none"
      [] r.lifecycle \in Claimable -> "pending"
      [] r.lifecycle \in MidCycle  -> "verified"
      [] OTHER                      -> "closed"

Abstract == INSTANCE AccessCycle WITH
    owner    <- [c \in Cycle |-> row[c].user],
    stage    <- [c \in Cycle |-> StageOf(row[c])],
    result   <- [c \in Cycle |-> ResultOf(row[c])],
    Result   <- Results,
    TimedOut <- [lifecycle |-> "timed_out", reason |-> "timeout"],
    Open     <- NoResult

\* Whatever handlers, expiries, crashes and retries do, each cycle is opened
\* once, beside no other live cycle of its user, and closed once
\* (session_verification.py, "Every verification cycle must end in exactly one").
ImplementsAccessCycle == Abstract!CycleSpec
=============================================================================
