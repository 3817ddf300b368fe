------------------------------ MODULE Recovery ------------------------------
(***************************************************************************)
(* Autonomous recovery of one provider of one user: the planner            *)
(* (src/mighty/recovery_planner.py), the case store (recovery_store.py),   *)
(* the executor (recovery_executor.py) and the supervisor's heartbeat      *)
(* (recovery_supervisor.py), which runs in one thread of the server        *)
(* (src/app.py, _start_recovery_supervisor_scheduler).                     *)
(*                                                                         *)
(* A sweep reads the provider's failures once, then closes the cases whose *)
(* failure is gone, advances the due ones by one capability and opens a    *)
(* case for every failure that has none.  Each commit is a step; the       *)
(* failures may change, and the sweep may die, between any two of them.    *)
(* The clock is abstract: `over' says that a case's backoff (waiting) or   *)
(* its 15-minute timeout (running) has passed at the sweep's `now'.        *)
(***************************************************************************)
EXTENDS Integers, FiniteSets

CONSTANTS
    AuthCause,    \* root causes an auth truth reports
    TrustCause,   \* root causes a Runtime trust signal reports
    HumanNeeded,  \* the auth causes of a truth with needs_human
    HumanOnly,    \* HUMAN_ONLY_INTERRUPTIONS
    MaxFault      \* sweeps that die or read nothing, in one behaviour

NoCause == "no_cause"
Cause   == AuthCause \cup TrustCause

ASSUME CauseAssumption ==
    /\ NoCause \notin Cause
    /\ HumanOnly \subseteq HumanNeeded
    /\ HumanNeeded \subseteq AuthCause
    /\ HumanNeeded \cap TrustCause = {}

ASSUME MaxFaultAssumption == MaxFault \in Nat

VARIABLES
    failure,  \* what the projections say of the provider now
    case,     \* the active recovery_case of each root cause and its attempts
    latest,   \* the terminal recovery_case with the greatest (updated_at, case_id)
    sup,      \* the recovery-supervisor thread
    faults    \* faults so far

vars == <<failure, case, latest, sup, faults>>

-----------------------------------------------------------------------------
(* The planner *)

\* CAPABILITY_ORDER without its last two, bounded_wait and ask_human.
Rank == [session_verify |-> 1, silent_reauth |-> 2, account_resync |-> 3,
         navigation_gap_fill |-> 4, deep_probe |-> 5]
Optional   == DOMAIN Rank
Capability == Optional \cup {"bounded_wait"}

MaxWaits == 2

\* What a provider's access method and projections can report: a trust signal
\* exists only for a managed_runtime account, and counts only while no human
\* is needed.
Failure ==
    {f \in [managed : BOOLEAN, auth : AuthCause \cup {NoCause},
            trust : TrustCause \cup {NoCause}] :
        f.trust # NoCause => f.managed /\ f.auth \notin HumanNeeded}

Failing(f) == {f.auth, f.trust} \ {NoCause}

\* The supports_* flags of the facts collected for cause c: a cause that both
\* report keeps the auth truth's.
Usable(f, c) ==
    IF c # f.auth THEN {}
    ELSE {"account_resync", "deep_probe"}
         \cup (IF f.managed THEN {} ELSE {"session_verify"})

Unavailable(f, c) == Optional \ Usable(f, c)

\* (A variant that waits once too often.)
PlanOneMore(c, r) ==
    LET left == Optional \ r.tried
    IN  CASE c \in HumanOnly                  -> "ask_human"
          [] c \notin HumanOnly /\ left # {}  ->
                 CHOOSE k \in left : \A j \in left : Rank[k] <= Rank[j]
          [] c \notin HumanOnly /\ left = {} /\ r.waits <= MaxWaits -> "bounded_wait"
          [] OTHER                            -> "ask_human"

\* (A variant that never waits.)
PlanNoWait(c, r) ==
    LET left == Optional \ r.tried
    IN  IF c \in HumanOnly \/ left = {} THEN "ask_human"
        ELSE CHOOSE k \in left : \A j \in left : Rank[k] <= Rank[j]

\* What comes next for a case of cause c with the attempts of r, once the
\* unavailable capabilities are recorded.
Plan(c, r) ==
    LET left == Optional \ r.tried
    IN  CASE c \in HumanOnly                  -> "ask_human"
          [] c \notin HumanOnly /\ left # {}  ->
                 CHOOSE k \in left : \A j \in left : Rank[k] <= Rank[j]
          [] c \notin HumanOnly /\ left = {} /\ r.waits < MaxWaits -> "bounded_wait"
          [] OTHER                            -> "ask_human"

-----------------------------------------------------------------------------
(* The store *)

\* `tried' is the set of capabilities with an attempt record, `waits' the
\* bounded waits among them.  `begun' is a history: what was found unavailable
\* or begun, the marker of a timeout left out.
Case == [status : {"none", "open", "running", "waiting"}, over : BOOLEAN,
         tried : SUBSET Optional, begun : SUBSET Optional, waits : 0 .. MaxWaits]

NoCase == [status |-> "none", over |-> FALSE, tried |-> {}, begun |-> {}, waits |-> 0]
OpenedCase == [NoCase EXCEPT !.status = "open"]

Active(c) == case[c].status # "none"

\* `fresh': it ended in the sweep in progress, and so carries its timestamp.
\* `begun' and `waits' are the history of an escalated episode.
Terminal == [status : {"none", "succeeded", "escalated"}, cause : Cause \cup {NoCause},
             begun : SUBSET Optional, waits : 0 .. MaxWaits, fresh : BOOLEAN]

NoVerdict == [status |-> "none", cause |-> NoCause, begun |-> {}, waits |-> 0,
              fresh |-> FALSE]

\* list_escalated_providers: the gate that lets the attention compilers emit.
\* It looks at the latest terminal case alone, whatever case is active.
Escalated == latest.status = "escalated"

\* (A variant that takes any verdict on the cause for a reason to leave it.)
BlockedForEver(c) == latest.cause = c

\* _latest_terminal_blocks_reopen
Blocked(c) == Escalated /\ latest.cause = c

\* Case c ends.  All cases that end in one sweep have the sweep's timestamp, in
\* seconds, and among them the random case_id decides which is the latest.
End(c, status) ==
    LET ended == IF status = "escalated"
                 THEN [status |-> status, cause |-> c, begun |-> case[c].begun,
                       waits |-> case[c].waits, fresh |-> TRUE]
                 ELSE [NoVerdict EXCEPT !.status = status, !.cause = c, !.fresh = TRUE]
    IN  /\ case' = [case EXCEPT ![c] = NoCase]
        /\ latest' \in {ended} \cup (IF latest.fresh THEN {latest} ELSE {})

-----------------------------------------------------------------------------
(* The supervisor *)

Idle == [pc |-> "idle", seen |-> [managed |-> FALSE, auth |-> NoCause, trust |-> NoCause],
         todo |-> {}, loop |-> "cases", cause |-> NoCause, cap |-> "bounded_wait"]

Sup == [pc : {"idle", "next", "plan", "attempt", "conclude"}, seen : Failure,
        todo : SUBSET Cause, loop : {"cases", "failures"},
        cause : Cause \cup {NoCause}, cap : Capability]

Init ==
    /\ failure \in Failure
    /\ case = [c \in Cause |-> NoCase]
    /\ latest = NoVerdict
    /\ sup = Idle
    /\ faults = 0

\* The projections change: a user signs in, a probe reports, Runtime publishes.
FailureChanges ==
    /\ failure' \in {f \in Failure : f.managed = failure.managed /\ f # failure}
    /\ UNCHANGED <<case, latest, sup, faults>>

Sweep(seen) ==
    /\ sup.pc = "idle"
    /\ sup' = [Idle EXCEPT !.pc = "next", !.seen = seen, !.todo = {c \in Cause : Active(c)}]
    /\ latest' = [latest EXCEPT !.fresh = FALSE]
    /\ UNCHANGED <<failure, case>>

BeginSweep == Sweep(failure) /\ UNCHANGED faults

\* The loaders swallow every exception: without the account rows neither truth
\* nor signal is found, and a truth that cannot be projected is left out.
BlindSweep ==
    /\ faults < MaxFault
    /\ \/ Sweep([failure EXCEPT !.auth = NoCause, !.trust = NoCause])
       \/ failure.trust # NoCause /\ Sweep([failure EXCEPT !.auth = NoCause])
    /\ faults' = faults + 1

\* Both loops: the next case, the next failure.
At(loop, c) == sup.pc = "next" /\ sup.loop = loop /\ c \in sup.todo

Done(c)   == [sup EXCEPT !.pc = "next", !.todo = @ \ {c}, !.cause = NoCause,
                         !.cap = "bounded_wait"]
Chosen(c) == [sup EXCEPT !.pc = "plan", !.cause = c]

ClearCase(c) ==
    /\ At("cases", c)
    /\ c \notin Failing(sup.seen)
    /\ End(c, "succeeded")
    /\ sup' = Done(c)
    /\ UNCHANGED <<failure, faults>>

\* The backoff has not passed, or the capability may still be running.
NotDue(c) ==
    /\ At("cases", c)
    /\ c \in Failing(sup.seen)
    /\ case[c].status \in {"waiting", "running"} /\ ~case[c].over
    /\ sup' = Done(c)
    /\ UNCHANGED <<failure, case, latest, faults>>

Resume(c) ==
    /\ At("cases", c)
    /\ c \in Failing(sup.seen)
    /\ \/ case[c].status = "open"
       \/ case[c].status = "waiting" /\ case[c].over
    /\ sup' = Chosen(c)
    /\ UNCHANGED <<failure, case, latest, faults>>

\* (A variant that starts a timed-out case afresh.)
TimeOutAfresh(c) ==
    /\ At("cases", c)
    /\ c \in Failing(sup.seen)
    /\ case[c].status = "running" /\ case[c].over
    /\ case' = [case EXCEPT ![c] = OpenedCase]
    /\ sup' = Chosen(c)
    /\ UNCHANGED <<failure, latest, faults>>

\* A case left running by a sweep that died: whatever was running, the attempt
\* recorded is a session_verify that timed out.
TimeOut(c) ==
    /\ At("cases", c)
    /\ c \in Failing(sup.seen)
    /\ case[c].status = "running" /\ case[c].over
    /\ case' = [case EXCEPT ![c].status = "open", ![c].over = FALSE,
                            ![c].tried = @ \cup {"session_verify"}]
    /\ sup' = Chosen(c)
    /\ UNCHANGED <<failure, latest, faults>>

\* Every active case is behind: now the failures.
CasesDone ==
    /\ sup.pc = "next" /\ sup.loop = "cases" /\ sup.todo = {}
    /\ sup' = [sup EXCEPT !.loop = "failures", !.todo = Failing(sup.seen)]
    /\ UNCHANGED <<failure, case, latest, faults>>

Leave(c) ==
    /\ At("failures", c)
    /\ Active(c) \/ Blocked(c)
    /\ sup' = Done(c)
    /\ UNCHANGED <<failure, case, latest, faults>>

OpenCase(c) ==
    /\ At("failures", c)
    /\ ~Active(c) /\ ~Blocked(c)
    /\ case' = [case EXCEPT ![c] = OpenedCase]
    /\ sup' = Chosen(c)
    /\ UNCHANGED <<failure, latest, faults>>

EndSweep ==
    /\ sup.pc = "next" /\ sup.loop = "failures" /\ sup.todo = {}
    /\ sup' = Idle
    /\ UNCHANGED <<failure, case, latest, faults>>

\* The unavailable capabilities without an attempt, and those ranked up to k.
Unrecorded(c)    == Unavailable(sup.seen, c) \ case[c].tried
UnrecordedTo(c, k) == {j \in Unrecorded(c) : Rank[j] <= Rank[k]}

Record(c, skipped) ==
    case' = [case EXCEPT ![c].tried = @ \cup skipped, ![c].begun = @ \cup skipped]

\* Every unavailable capability is recorded as skipped, once.
Skip(c) ==
    /\ sup.pc = "plan" /\ sup.cause = c
    /\ Unrecorded(c) # {}
    /\ Record(c, Unrecorded(c))
    /\ UNCHANGED <<failure, latest, sup, faults>>

Escalate(c) ==
    /\ sup.pc = "plan" /\ sup.cause = c
    /\ Unrecorded(c) = {}
    /\ Plan(c, case[c]) = "ask_human"
    /\ End(c, "escalated")
    /\ sup' = Done(c)
    /\ UNCHANGED <<failure, faults>>

Start(c) ==
    /\ sup.pc = "plan" /\ sup.cause = c
    /\ Unrecorded(c) = {}
    /\ LET k == Plan(c, case[c])
       IN  /\ k # "ask_human"
           /\ case' = [case EXCEPT ![c].status = "running", ![c].over = FALSE,
                                   ![c].begun = @ \cup ({k} \cap Optional)]
           /\ sup' = [sup EXCEPT !.pc = "attempt", !.cap = k]
    /\ UNCHANGED <<failure, latest, faults>>

\* (A variant that does not count the waits.)
AttemptUncounted(c) ==
    /\ sup.pc = "attempt" /\ sup.cause = c
    /\ case' = IF sup.cap = "bounded_wait" THEN case
               ELSE [case EXCEPT ![c].tried = @ \cup {sup.cap}]
    /\ sup' = [sup EXCEPT !.pc = "conclude"]
    /\ UNCHANGED <<failure, latest, faults>>

\* The capability runs -- at most a request to the Access Manager -- and its
\* attempt is recorded whatever came of it.
Attempt(c) ==
    /\ sup.pc = "attempt" /\ sup.cause = c
    /\ case' = IF sup.cap = "bounded_wait"
               THEN [case EXCEPT ![c].waits = @ + 1]
               ELSE [case EXCEPT ![c].tried = @ \cup {sup.cap}]
    /\ sup' = [sup EXCEPT !.pc = "conclude"]
    /\ UNCHANGED <<failure, latest, faults>>

\* (A variant that concludes nothing but a wait.)
ConcludeWait(c) ==
    /\ sup.pc = "conclude" /\ sup.cause = c
    /\ case' = IF sup.cap = "bounded_wait"
               THEN [case EXCEPT ![c].status = "waiting"] ELSE case
    /\ sup' = Done(c)
    /\ UNCHANGED <<failure, latest, faults>>

Conclude(c) ==
    /\ sup.pc = "conclude" /\ sup.cause = c
    /\ case' = [case EXCEPT
                    ![c].status = IF sup.cap = "bounded_wait" THEN "waiting" ELSE "open"]
    /\ sup' = Done(c)
    /\ UNCHANGED <<failure, latest, faults>>

\* An exception ends the user's sweep, a restart ends the thread.  What is
\* committed stays: while skipping, some of the skipped attempts.
SweepFails ==
    /\ sup.pc # "idle" /\ faults < MaxFault
    /\ sup' = Idle
    /\ \/ UNCHANGED case
       \/ /\ sup.pc = "plan"
          /\ \E k \in Unrecorded(sup.cause) : Record(sup.cause, UnrecordedTo(sup.cause, k))
    /\ faults' = faults + 1
    /\ UNCHANGED <<failure, latest>>

\* Time passes between two sweeps.
Elapse(c) ==
    /\ sup.pc = "idle"
    /\ case[c].status \in {"waiting", "running"} /\ ~case[c].over
    /\ case' = [case EXCEPT ![c].over = TRUE]
    /\ UNCHANGED <<failure, latest, sup, faults>>

CaseStep(c) ==
    \/ ClearCase(c) \/ NotDue(c) \/ Resume(c) \/ TimeOut(c) \/ Leave(c) \/ OpenCase(c)
    \/ Skip(c) \/ Escalate(c) \/ Start(c) \/ Attempt(c) \/ Conclude(c)

SupervisorStep == BeginSweep \/ CasesDone \/ EndSweep \/ \E c \in Cause : CaseStep(c)

Next ==
    \/ SupervisorStep
    \/ FailureChanges \/ BlindSweep \/ SweepFails
    \/ \E c \in Cause : Elapse(c)

Spec == Init /\ [][Next]_vars

\* The heartbeat thread keeps running and time passes; failures may stay as
\* they are for ever.
Fairness == WF_vars(SupervisorStep) /\ \A c \in Cause : SF_vars(Elapse(c))

FairSpec == Spec /\ Fairness

-----------------------------------------------------------------------------
(* What recovery promises: RecoveryEpisode.  A case's tries are the            *)
(* capabilities and the bounded waits without an attempt record.               *)

Waits == [first_wait |-> 1, second_wait |-> 2]

Left(r) == (Optional \ r.tried) \cup {w \in DOMAIN Waits : r.waits < Waits[w]}

EpisodeOf(r) == [active |-> r.status # "none",
                 left   |-> IF r.status = "none" THEN {} ELSE Left(r)]

Episode == INSTANCE RecoveryEpisode WITH
    Try     <- Optional \cup DOMAIN Waits,
    episode <- [c \in Cause |-> EpisodeOf(case[c])],
    verdict <- [status |-> latest.status, cause |-> latest.cause]

-----------------------------------------------------------------------------
(* Properties *)

TypeOK ==
    /\ failure \in Failure
    /\ case \in [Cause -> Case]
    /\ latest \in Terminal
    /\ sup \in Sup
    /\ faults \in 0 .. MaxFault

\* The provider's latest verdict asks the human only when no machine can act
\* (MFA, captcha, consent) or when the episode really began, or found
\* unavailable, every capability and waited twice: neither a dead sweep, whose
\* timeout marker names session_verify whatever was running, nor a blind one
\* shortens the chain.
EscalationEarned ==
    Escalated /\ latest.cause \notin HumanOnly =>
        latest.begun = Optional /\ latest.waits = MaxWaits

\* A case is left running only by a sweep that died: between two sweeps of a
\* run without faults no case waits for the 15-minute timeout.
NoOrphanRunning ==
    sup.pc = "idle" /\ faults = 0 => \A c \in Cause : case[c].status # "running"

\* Recovery keeps its promise: one episode per cause, tries that are never
\* handed back, the human asked only when none is left, no parallel episode
\* for the cause the human was just asked about.
ImplementsEpisode == Episode!EpisodeSpec

\* Every episode ends, in success or in escalation, whatever the failures do
\* and wherever a sweep dies.
CaseEnds == \A c \in Cause : Active(c) ~> ~Active(c)

\* A failure that stays is not hidden for ever: once the failures no longer
\* change, the gate opens again and again while one of them lasts.
FailureSurfaces ==
    <>[][FALSE]_failure => []<>(Failing(failure) # {} => Escalated)
=============================================================================
