------------------------------ MODULE AuthTruth ------------------------------
(***************************************************************************)
(* What the product takes for the truth about a member's access to one     *)
(* provider: the projection of the session state, or of the Runtime's last *)
(* publication (mighty/auth_truth.py, runtime_access_state.py), the        *)
(* failures autonomous recovery collects from it (recovery_supervisor.py)  *)
(* and the items attention compiles (attention_compiler.py).  All of it is *)
(* a pure function of what is stored and of the time.                      *)
(***************************************************************************)
EXTENDS SessionEvidence

Method == {"browser_session", "managed_runtime", "api", "manual"}

TruthState   == {"signed_in", "signed_out", "login_unknown"}
Interruption == {"none", "login", "mfa", "captcha", "consent", "unknown_human"}

\* How old evidence, a publication, and a publication that is shown may be.
EvidenceTtl        == 24 * 3600
RuntimeStaleAfter  == 180
PresentedStaleAfter == 15 * 60

\* age_seconds of a stamp that may be missing or unreadable is None.
Older(at, now, limit) == at # NoTime /\ now - at > limit

-----------------------------------------------------------------------------
(* What is stored *)

\* A row of provider_session_state of any provider; "absent" is no row.
SessionType == EvidenceType \cup
    {"session_expired", "mfa_required", "captcha", "consent", "other"}

Session == [state : {"absent", "connected", "signed_out", "error", "unknown"},
            type : SessionType, confidence : {"high", "medium", "low"},
            at : Nat \cup {NoTime}]

\* The row the access cycle's evidence is stored in.
SessionOf(e) == [state |-> e.state, type |-> e.type,
                 confidence |-> e.confidence, at |-> e.at]

\* The row of runtime_access_state, or none.  "connected" stands for the transport
\* labels that are taken for signed in; a reason that is missing reads "none".
Publication ==
    [present : BOOLEAN, auth : TruthState \cup {"absent", "connected"},
     human : BOOLEAN, reason : Interruption,
     runtime : {"offline", "recovering", "other"},
     recovery : {"none", "awaiting_user", "recovering", "other"},
     health : {"none", "healthy", "unhealthy"},
     observedAt : Nat \cup {NoTime}, updatedAt : Nat \cup {NoTime},
     stampedAt : Nat \cup {NoTime}]

-----------------------------------------------------------------------------
(* The projection *)

Unknown(method) == [method |-> method, state |-> "login_unknown", human |-> FALSE,
                    reason |-> "none", stale |-> FALSE]

Definitive(s) == s.confidence = "high"

\* _terminal_state_from_evidence: weak evidence never says in or out.
StateOf(s) ==
    CASE Definitive(s) /\ s.state = "connected"  -> "signed_in"
      [] Definitive(s) /\ s.state = "signed_out" -> "signed_out"
      [] OTHER                                   -> "login_unknown"

InterruptionOf(s) ==
    CASE s.type \in {"login_page", "login_required", "session_expired"} -> "login"
      [] s.type = "mfa_required" -> "mfa"
      [] s.type = "captcha"      -> "captcha"
      [] s.type = "consent"      -> "consent"
      [] OTHER                   -> "none"

\* _project_browser_session: whoever is signed out needs to log in, whatever else
\* was seen.
BrowserTruth(s, now) ==
    LET seen == IF Definitive(s) THEN InterruptionOf(s) ELSE "none"
    IN [method |-> "browser_session", state |-> StateOf(s),
        human  |-> StateOf(s) = "signed_out" \/ seen # "none",
        reason |-> IF StateOf(s) = "signed_out" THEN "login" ELSE seen,
        stale  |-> Older(s.at, now, EvidenceTtl)]

\* _project_managed_runtime: the Runtime says itself whether a human is needed.
RuntimeTruth(p, now) ==
    [method |-> "managed_runtime",
     state  |-> CASE p.auth = "absent"    -> "login_unknown"
                  [] p.auth = "connected" -> "signed_in"
                  [] OTHER                -> p.auth,
     human  |-> p.human,
     reason |-> CASE ~p.human                       -> "none"
                  [] p.human /\ p.reason = "none"   -> "unknown_human"
                  [] OTHER                          -> p.reason,
     stale  |-> \/ Older(p.observedAt, now, EvidenceTtl)
                \/ Older(p.updatedAt, now, RuntimeStaleAfter)]

\* project_auth_truth: the primary access method selects the one source.
Truth(method, s, p, now) ==
    CASE method = "browser_session" /\ s.state # "absent" -> BrowserTruth(s, now)
      [] method = "managed_runtime" /\ p.present          -> RuntimeTruth(p, now)
      [] OTHER                                            -> Unknown(method)

-----------------------------------------------------------------------------
(* Runtime trust *)

\* compute_presentation_status.
Presented(p, now) ==
    CASE ~p.present -> "never_reported"
      [] p.present /\ Older(p.stampedAt, now, PresentedStaleAfter) -> "stale"
      [] OTHER ->
         CASE p.runtime = "offline" -> "runtime_offline"
           [] p.runtime # "offline" /\ p.recovery = "awaiting_user" -> "awaiting_user"
           [] OTHER ->
              IF p.recovery = "recovering" \/ p.runtime = "recovering" THEN "recovering"
              ELSE IF p.health = "healthy" /\ p.auth = "signed_in" THEN "healthy"
              ELSE IF p.auth = "absent" /\ p.health = "none" /\ p.recovery = "none"
                   THEN "never_reported"
              ELSE IF p.health = "unhealthy" THEN "runtime_offline" ELSE "recovering"

Broken == {"awaiting_user", "runtime_offline", "never_reported", "stale"}

\* A trust signal is loaded for a managed_runtime account, and does not count while
\* the Runtime asks for a human.
Distrusted(method, p, now) ==
    /\ method = "managed_runtime"
    /\ ~(p.present /\ p.human)
    /\ Presented(p, now) \in Broken

-----------------------------------------------------------------------------
(* What recovery collects (_collect_failure_facts) *)

NoCause == "no_cause"

HumanOnlyCause   == {"mfa", "captcha", "consent", "unknown_human"}
HumanNeededCause == HumanOnlyCause \cup {"login"}
TruthCause       == HumanNeededCause \cup {"stale", "login_unknown"}

CauseOfTruth(t) ==
    CASE t.human                                         -> t.reason
      [] ~t.human /\ t.stale                             -> "stale"
      [] ~t.human /\ ~t.stale /\ t.state = "login_unknown" -> "login_unknown"
      [] OTHER                                           -> NoCause

Collected(method, s, p, now) ==
    [managed |-> method = "managed_runtime",
     auth    |-> CauseOfTruth(Truth(method, s, p, now)),
     trust   |-> IF Distrusted(method, p, now) THEN Presented(p, now) ELSE NoCause]

-----------------------------------------------------------------------------
(* What attention compiles: compile_auth_attention, else                       *)
(* compile_access_degraded_attention, and compile_trust_attention.             *)

TruthItems(t) ==
    IF t.human THEN {"auth_blocker"}
    ELSE {i \in {"access_degraded"} : t.stale \/ t.state = "login_unknown"}

\* A stale publication of a healthy, signed-in Runtime is mere age.
TrustItems(method, p, now) ==
    {i \in {"trust"} :
        /\ Distrusted(method, p, now)
        /\ ~(/\ p.present /\ Presented(p, now) = "stale"
             /\ p.auth = "signed_in" /\ p.health \in {"none", "healthy"})}

ItemsFor(method, s, p, now) ==
    TruthItems(Truth(method, s, p, now)) \cup TrustItems(method, p, now)
=============================================================================
