--------------------------- MODULE SessionEvidence ---------------------------
(***************************************************************************)
(* How one look at a provider page becomes session evidence, and when new  *)
(* evidence replaces the stored one.  The pure functions of                *)
(* mighty/provider_access_probe.py and mighty/provider_session_state.py,   *)
(* for the provider amex.  Texts, rules and URLs are abstracted to whether *)
(* they match.                                                             *)
(***************************************************************************)
EXTENDS Integers

NoEvent == -2   \* no such event in the network trace
NoTime  == -1   \* an event without a timestamp

Event == Nat \cup {NoTime, NoEvent}

SignedOutAuth == {"login_page", "session_expired", "mfa_required"}
ConnectedAuth == {"private_data_visible", "authenticated_no_private_data"}
AuthState == SignedOutAuth \cup ConnectedAuth \cup
    {"error", "bot_blocked", "marketing_page", "login_submitted", "unknown"}

\* The failure reasons the decision tells apart: "hard" is a timeout, a network or
\* navigation error, an empty page.
Failure == {"none", "login_required", "marketing", "hard", "other"}

\* What the extension reports of the tab: the signals found in its text and URL,
\* its own failure reason, and the session API's answers in the network trace.
Page == [error: BOOLEAN, blocked: BOOLEAN, blank: BOOLEAN, expired: BOOLEAN,
         mfa: BOOLEAN, marketingUrl: BOOLEAN, accountUrl: BOOLEAN,
         loginUrl: BOOLEAN, loginText: BOOLEAN, form: BOOLEAN,
         submitted: BOOLEAN, private: BOOLEAN, signedIn: BOOLEAN,
         failure: Failure, static: BOOLEAN, api200: Event, apiDenied: Event]

-----------------------------------------------------------------------------
\* classify_auth_state: the first signal that applies names the state.
Classify(p) ==
    CASE p.error -> "error"
      [] p.blocked -> "bot_blocked"
      [] p.blank -> "unknown"
      [] p.expired -> "session_expired"
      [] p.mfa -> "mfa_required"
      [] p.marketingUrl /\ ~p.accountUrl -> "marketing_page"
      [] p.loginUrl \/ p.loginText \/ p.form -> "login_page"
      [] p.submitted -> "login_submitted"
      [] p.private -> "private_data_visible"
      [] p.signedIn -> "authenticated_no_private_data"
      [] OTHER -> "unknown"

\* ... and the states that withdraw the signals of a signed-in page.
Withdrawn(p, auth) ==
    \/ auth \in {"marketing_page", "login_page", "login_submitted"}
    \/ ~p.error /\ ~p.blocked /\ p.blank

FailureOf(p, auth) ==
    CASE auth = "private_data_visible" -> "none"
      [] ~p.error /\ ~p.blocked /\ p.blank -> "hard"
      [] p.failure # "none" -> p.failure
      [] auth = "login_page" -> "login_required"
      [] auth = "marketing_page" -> "marketing"
      [] OTHER -> "other"

\* evaluate_probe_payload: the result the decision reads.  It carries no times
\* for what is seen in the page, and no passive report.
Probe(p) ==
    LET auth == Classify(p) IN
    [error     |-> p.error, auth |-> auth, failure |-> FailureOf(p, auth),
     signedIn  |-> (p.signedIn \/ (p.private /\ ~p.marketingUrl)) /\ ~Withdrawn(p, auth),
     private   |-> p.private /\ ~Withdrawn(p, auth),
     loginUrl  |-> p.loginUrl, accountUrl |-> p.accountUrl, form |-> p.form,
     passive   |-> FALSE, static |-> p.static,
     api200    |-> p.api200, apiDenied |-> p.apiDenied,
     pageAt    |-> NoTime, urlAt |-> NoTime, formAt |-> NoTime]

Result == [error: BOOLEAN, auth: AuthState, failure: Failure, signedIn: BOOLEAN,
           private: BOOLEAN, loginUrl: BOOLEAN, accountUrl: BOOLEAN,
           form: BOOLEAN, passive: BOOLEAN, static: BOOLEAN,
           api200: Event, apiDenied: Event, pageAt: Nat \cup {NoTime},
           urlAt: Nat \cup {NoTime}, formAt: Nat \cup {NoTime}]

-----------------------------------------------------------------------------
(* decide_amex_verification_session. *)

AuthenticatedPage(r) ==
    \/ r.auth \in ConnectedAuth
    \/ r.private /\ ~r.loginUrl
    \/ r.signedIn /\ ~r.loginUrl /\ r.auth \notin SignedOutAuth

\* A failed, static-only or merely passive observation decides nothing.
Unusable(r) ==
    \/ r.error \/ r.failure = "hard"
    \/ /\ r.api200 = NoEvent /\ r.apiDenied = NoEvent
       /\ \/ r.static
          \/ r.passive /\ ~r.loginUrl /\ ~r.form /\ ~AuthenticatedPage(r)

\* The times of the events that speak for a live session, and against it.
ConnectedTimes(r) ==
    {t \in {r.api200} : t # NoEvent}
        \cup {t \in {r.pageAt} : AuthenticatedPage(r) /\ ~r.loginUrl}

FormCounts(r) ==
    /\ r.form
    /\ IF r.loginUrl THEN r.formAt # NoTime
       ELSE ConnectedTimes(r) # {} \/ ~r.accountUrl

SignedOutTimes(r) ==
    {t \in {r.apiDenied} : t # NoEvent}
        \cup {t \in {r.urlAt} : r.loginUrl}
        \cup {t \in {r.formAt} : FormCounts(r)}

\* With no event at all, a login state that is not mere login chrome on an
\* account page still counts.
LoginStateOnly(r) ==
    /\ ConnectedTimes(r) = {} /\ SignedOutTimes(r) = {}
    /\ \/ r.auth = "login_page" /\ ~r.accountUrl
       \/ r.auth \in {"session_expired", "mfa_required"} /\ ~(r.accountUrl /\ r.form)

\* The events of S came last; an event without a time can not be ordered.
Later(S, T) ==
    NoTime \notin S \cup T /\ \E s \in S : \A t \in T : s > t

Connected(r) ==
    /\ ~Unusable(r) /\ ConnectedTimes(r) # {}
    /\ SignedOutTimes(r) = {} \/ Later(ConnectedTimes(r), SignedOutTimes(r))

SignedOut(r) ==
    /\ ~Unusable(r)
    /\ \/ /\ SignedOutTimes(r) # {}
          /\ ConnectedTimes(r) = {} \/ Later(SignedOutTimes(r), ConnectedTimes(r))
       \/ LoginStateOnly(r)

Decision(r) == IF Connected(r) THEN "connected"
               ELSE IF SignedOut(r) THEN "signed_out" ELSE "inconclusive"

-----------------------------------------------------------------------------
(* Evidence: who saw which state, when, and how sure that is. *)

Source == {"provider_access_probe", "extension_amex"}
EvidenceType == {"session_api", "session_verified", "session_verified_extract",
                 "login_required", "login_page",
                 "authenticated_private_data", "authenticated_page"}

Evidence == [state: {"connected", "signed_out"}, type: EvidenceType,
             source: Source, confidence: {"high", "medium"}, at: Nat]

\* verification_decision_to_evidence, for a definitive decision.
DecidedType(r) ==
    IF Decision(r) = "connected"
    THEN IF r.api200 # NoEvent THEN "session_api"
         ELSE IF r.auth = "private_data_visible" THEN "authenticated_private_data"
         ELSE "authenticated_page"
    ELSE IF r.apiDenied # NoEvent THEN "session_api"
         ELSE IF r.loginUrl \/ r.form THEN "login_page" ELSE "login_required"

EvidenceOf(r, at) ==
    [state |-> Decision(r), type |-> DecidedType(r),
     source |-> "provider_access_probe", at |-> at,
     confidence |-> IF Decision(r) = "connected" /\ r.api200 = NoEvent
                    THEN "medium" ELSE "high"]

\* record_amex_extension_connected and record_amex_extension_needs_login.
Report(state, type, at) ==
    [state |-> state, type |-> type, source |-> "extension_amex", at |-> at,
     confidence |-> "high"]

ConfidenceRank(e) == IF e.confidence = "high" THEN 3 ELSE 2

TypePriority(e) ==
    CASE e.type = "session_api" -> 100
      [] e.type \in {"session_verified", "session_verified_extract"} -> 90
      [] e.type = "login_required" -> 80
      [] e.type = "login_page" -> 70
      [] OTHER -> 60

\* evidence_priority: a report of the extension ranks at least 85.
Priority(e) == IF e.source = "extension_amex" /\ TypePriority(e) < 85
               THEN 85 ELSE TypePriority(e)

\* should_replace_session_evidence for a row that exists: the newer evidence, then
\* the surer, then the one of higher priority; an equal one is dropped.
Supersedes(e, f) ==
    \/ e.at > f.at
    \/ /\ e.at = f.at
       /\ \/ ConfidenceRank(e) > ConfidenceRank(f)
          \/ ConfidenceRank(e) = ConfidenceRank(f) /\ Priority(e) > Priority(f)

\* What one upsert makes of the stored evidence.
Upsert(stored, e) == IF Supersedes(e, stored) THEN e ELSE stored
=============================================================================
