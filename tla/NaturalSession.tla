--------------------------- MODULE NaturalSession ---------------------------
(***************************************************************************)
(* When a member's visit to a provider page, or the extension's keepalive, *)
(* asks for a new access cycle (mighty/natural_session.py and its policy,  *)
(* and the staleness rule of session_verification.py).  Recovery has the   *)
(* first say, stored evidence the second.  The decision is a pure function *)
(* of what is stored; the request it leads to is a step of                 *)
(* SessionVerification.                                                    *)
(***************************************************************************)
EXTENDS AuthTruth, TLAPS

CurrentSessionFreshness   == 120
ReadyRevalidationInterval == 15 * 60

\* is_session_evidence_fresh and is_ready_result_within_revalidation_interval: a
\* time that is not known is never recent.
Recent(at, now, limit) == at # NoTime /\ now - at <= limit

\* `ready' is when the account's last extraction was completed.
ReadyRecently(ready, now) == Recent(ready, now, ReadyRevalidationInterval)

\* session_state_needs_verification of a provider that has an entry URL (`capable').
NeedsVerification(capable, s, ready, now) ==
    /\ capable
    /\ s.state \in {"connected", "signed_out", "error"}
    /\ ~(s.state = "connected" /\ ReadyRecently(ready, now))
    /\ ~Recent(s.at, now, CurrentSessionFreshness)

\* _decide with plan_natural_session; `recovering': recovery has an active case.
Decide(capable, recovering, s, ready, now) ==
    CASE ~capable -> "unsupported"
      [] capable /\ recovering -> "defer_recovery"
      [] OTHER -> IF NeedsVerification(capable, s, ready, now)
                  THEN "enqueue_verify" ELSE "skip_fresh"

\* _execute goes through the access manager, which reads the rows again
\* (ensure_provider_session_verification_if_stale): (s, ready) as decided on,
\* (s2, ready2) as found then.
Requests(capable, recovering, s, ready, s2, ready2, now) ==
    /\ Decide(capable, recovering, s, ready, now) = "enqueue_verify"
    /\ NeedsVerification(capable, s2, ready2, now)

-----------------------------------------------------------------------------
\* A decision to verify is not withdrawn by waiting: as long as the stored evidence
\* stays, a provider that is due stays due, so an observation that is lost or an
\* enqueue that is throttled is made up for by the next one.
THEOREM DueUntilRenewed ==
    \A capable \in BOOLEAN, s \in Session, ready \in Nat \cup {NoTime},
       now, later \in Nat :
        now <= later /\ NeedsVerification(capable, s, ready, now)
            => NeedsVerification(capable, s, ready, later)
<1> SUFFICES ASSUME NEW capable \in BOOLEAN, NEW s \in Session,
                    NEW ready \in Nat \cup {NoTime},
                    NEW now \in Nat, NEW later \in Nat, now <= later,
                    NeedsVerification(capable, s, ready, now)
             PROVE  NeedsVerification(capable, s, ready, later)
  OBVIOUS
<1>1. ASSUME NEW at \in Nat \cup {NoTime}, NEW limit \in Nat, Recent(at, later, limit)
      PROVE  Recent(at, now, limit)
  BY <1>1 DEF Recent, NoTime
<1>2. /\ s.at \in Nat \cup {NoTime}
      /\ CurrentSessionFreshness \in Nat /\ ReadyRevalidationInterval \in Nat
  BY DEF Session, CurrentSessionFreshness, ReadyRevalidationInterval
<1>3. Recent(s.at, later, CurrentSessionFreshness)
        => Recent(s.at, now, CurrentSessionFreshness)
  BY <1>1, <1>2
<1>4. ReadyRecently(ready, later) => ReadyRecently(ready, now)
  BY <1>1, <1>2 DEF ReadyRecently
<1>5. QED
  BY <1>3, <1>4 DEF NeedsVerification

\* Once a cycle stores what it saw, nobody asks for another cycle for the length of
\* the freshness window, whatever was stored before and whichever of the two the
\* upsert keeps: the decision may still have been made on the old evidence, but the
\* access manager reads again.
THEOREM EvidenceQuiets ==
    \A capable, recovering \in BOOLEAN, s \in Session, f, e \in Evidence,
       ready, ready2 \in Nat \cup {NoTime}, now \in Nat :
        now <= e.at + CurrentSessionFreshness
            => ~Requests(capable, recovering, s, ready,
                         SessionOf(Upsert(f, e)), ready2, now)
<1> SUFFICES ASSUME NEW capable \in BOOLEAN, NEW recovering \in BOOLEAN,
                    NEW s \in Session, NEW f \in Evidence, NEW e \in Evidence,
                    NEW ready \in Nat \cup {NoTime}, NEW ready2 \in Nat \cup {NoTime},
                    NEW now \in Nat, now <= e.at + CurrentSessionFreshness
             PROVE  ~Requests(capable, recovering, s, ready,
                              SessionOf(Upsert(f, e)), ready2, now)
  OBVIOUS
<1>1. e.at \in Nat /\ f.at \in Nat
  BY DEF Evidence
<1>2. Upsert(f, e).at \in Nat /\ Upsert(f, e).at >= e.at
  <2>1. CASE Supersedes(e, f)
    BY <1>1, <2>1 DEF Upsert
  <2>2. CASE ~Supersedes(e, f)
    <3>1. ~(e.at > f.at)
      BY <2>2 DEF Supersedes
    <3>2. QED
      BY <1>1, <2>2, <3>1 DEF Upsert
  <2>3. QED
    BY <2>1, <2>2
<1>3. SessionOf(Upsert(f, e)).at = Upsert(f, e).at
  BY DEF SessionOf
<1>4. Recent(SessionOf(Upsert(f, e)).at, now, CurrentSessionFreshness)
  BY <1>1, <1>2, <1>3 DEF Recent, NoTime, CurrentSessionFreshness
<1>5. QED
  BY <1>4 DEF Requests, NeedsVerification

\* Why a failing browser session of a capable provider is not checked again, in full:
\* recovery is at work on it, the evidence is younger than the freshness window (and
\* then it is not stale), the account was extracted a short time ago, or nothing
\* definite was ever stored, which is recovery's to find out.
THEOREM NotRechecked ==
    \A s \in Session, p \in Publication, ready \in Nat \cup {NoTime}, now \in Nat,
       recovering \in BOOLEAN :
        LET t == Truth("browser_session", s, p, now)
        IN  CauseOfTruth(t) # NoCause
                /\ Decide(TRUE, recovering, s, ready, now) # "enqueue_verify"
            => \/ recovering
               \/ ~t.stale /\ Recent(s.at, now, CurrentSessionFreshness)
               \/ s.state = "connected" /\ ReadyRecently(ready, now)
               \/ s.state \in {"absent", "unknown"} /\ t.state = "login_unknown"
<1> SUFFICES ASSUME NEW s \in Session, NEW p \in Publication,
                    NEW ready \in Nat \cup {NoTime}, NEW now \in Nat,
                    NEW recovering \in BOOLEAN, ~recovering,
                    Decide(TRUE, recovering, s, ready, now) # "enqueue_verify",
                    ~(s.state = "connected" /\ ReadyRecently(ready, now)),
                    ~(s.state \in {"absent", "unknown"}
                        /\ Truth("browser_session", s, p, now).state = "login_unknown")
             PROVE  /\ ~Truth("browser_session", s, p, now).stale
                    /\ Recent(s.at, now, CurrentSessionFreshness)
  OBVIOUS
<1>1. ~NeedsVerification(TRUE, s, ready, now)
  BY DEF Decide
<1>2. s.state \in {"absent", "unknown"}
        => Truth("browser_session", s, p, now).state = "login_unknown"
  BY DEF Truth, Unknown, BrowserTruth, StateOf
<1>3. s.state \in {"connected", "signed_out", "error"}
  BY <1>2 DEF Session
<1>4. Recent(s.at, now, CurrentSessionFreshness)
  BY <1>1, <1>3 DEF NeedsVerification
<1>5. Truth("browser_session", s, p, now).stale = Older(s.at, now, EvidenceTtl)
  BY <1>3 DEF Truth, BrowserTruth
<1>6. s.at \in Nat \cup {NoTime}
  BY DEF Session
<1>7. ~Older(s.at, now, EvidenceTtl)
  BY <1>4, <1>6 DEF Recent, Older, EvidenceTtl, CurrentSessionFreshness, NoTime
<1>8. QED
  BY <1>4, <1>5, <1>7
=============================================================================
