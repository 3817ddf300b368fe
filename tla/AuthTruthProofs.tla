--------------------------- MODULE AuthTruthProofs ---------------------------
(***************************************************************************)
(* Theorems about the projected truth: it feeds recovery only the failures *)
(* recovery is verified for, the passing of time never signs anyone out,   *)
(* and the items shown to the member say what recovery works on.           *)
(***************************************************************************)
EXTENDS AuthTruth, TLAPS

\* Recovery, fed from this projection.  Only its constant definitions are used, so
\* its variables stand for nothing.
R == INSTANCE Recovery WITH
        AuthCause <- TruthCause, TrustCause <- Broken,
        HumanNeeded <- HumanNeededCause, HumanOnly <- HumanOnlyCause, MaxFault <- 0,
        failure <- 0, case <- 0, latest <- 0, sup <- 0, faults <- 0

-----------------------------------------------------------------------------
\* The fields of the truth of a browser session.
LEMMA BrowserFields ==
    ASSUME NEW s, NEW now
    PROVE  LET t    == BrowserTruth(s, now)
               seen == IF Definitive(s) THEN InterruptionOf(s) ELSE "none"
           IN  /\ t.state = StateOf(s)
               /\ t.human <=> StateOf(s) = "signed_out" \/ seen # "none"
               /\ t.human \in BOOLEAN
               /\ t.reason = IF StateOf(s) = "signed_out" THEN "login" ELSE seen
               /\ t.stale = Older(s.at, now, EvidenceTtl)
<1>1. BrowserTruth(s, now).state = StateOf(s)
  BY DEF BrowserTruth
<1>2. BrowserTruth(s, now).human
        = (\/ StateOf(s) = "signed_out"
           \/ (IF Definitive(s) THEN InterruptionOf(s) ELSE "none") # "none")
  BY DEF BrowserTruth
<1>3. BrowserTruth(s, now).reason
        = IF StateOf(s) = "signed_out" THEN "login"
          ELSE IF Definitive(s) THEN InterruptionOf(s) ELSE "none"
  BY DEF BrowserTruth
<1>4. BrowserTruth(s, now).stale = Older(s.at, now, EvidenceTtl)
  BY DEF BrowserTruth
<1> QED
  BY <1>1, <1>2, <1>3, <1>4

\* The truth of a browser session: who is signed out is asked to log in, and
\* every other human cause comes from definitive evidence.
LEMMA BrowserTruthShape ==
    ASSUME NEW s \in Session, NEW now \in Nat
    PROVE  LET t == BrowserTruth(s, now) IN
           /\ t.state \in TruthState
           /\ t.human \in BOOLEAN /\ t.stale \in BOOLEAN
           /\ t.human => t.reason \in {"login", "mfa", "captcha", "consent"}
           /\ t.state = "signed_out" => t.human /\ t.reason = "login"
<1> DEFINE t == BrowserTruth(s, now)
           seen == IF Definitive(s) THEN InterruptionOf(s) ELSE "none"
<1>1. StateOf(s) \in TruthState
  BY DEF StateOf, TruthState
<1>2. seen \in {"none", "login", "mfa", "captcha", "consent"}
  BY DEF InterruptionOf
<1>3. Older(s.at, now, EvidenceTtl) \in BOOLEAN
  BY DEF Older
<1>4. /\ t.state = StateOf(s)
      /\ t.human <=> StateOf(s) = "signed_out" \/ seen # "none"
      /\ t.human \in BOOLEAN
      /\ t.reason = IF StateOf(s) = "signed_out" THEN "login" ELSE seen
      /\ t.stale = Older(s.at, now, EvidenceTtl)
  BY BrowserFields
<1> HIDE DEF t, seen
<1>5. /\ t.state \in TruthState
      /\ t.human \in BOOLEAN /\ t.stale \in BOOLEAN
      /\ t.human => t.reason \in {"login", "mfa", "captcha", "consent"}
      /\ t.state = "signed_out" => t.human /\ t.reason = "login"
  BY <1>1, <1>2, <1>3, <1>4
<1> QED
  BY <1>5 DEF t

\* The truth of a managed Runtime names a reason exactly when a human is needed.
LEMMA RuntimeTruthShape ==
    ASSUME NEW p \in Publication, NEW now \in Nat
    PROVE  LET t == RuntimeTruth(p, now) IN
           /\ t.state \in TruthState
           /\ t.human = p.human /\ t.human \in BOOLEAN /\ t.stale \in BOOLEAN
           /\ t.human => t.reason \in HumanNeededCause
<1>1. /\ p.auth \in TruthState \cup {"absent", "connected"}
      /\ p.human \in BOOLEAN /\ p.reason \in Interruption
  BY DEF Publication
<1>2. (\/ Older(p.observedAt, now, EvidenceTtl)
       \/ Older(p.updatedAt, now, RuntimeStaleAfter)) \in BOOLEAN
  BY DEF Older
<1> QED
  BY <1>1, <1>2, SMT
  DEF RuntimeTruth, TruthState, Interruption, HumanNeededCause, HumanOnlyCause

LEMMA TruthShape ==
    ASSUME NEW method \in Method, NEW s \in Session, NEW p \in Publication,
           NEW now \in Nat
    PROVE  LET t == Truth(method, s, p, now) IN
           /\ t.state \in TruthState
           /\ t.human \in BOOLEAN /\ t.stale \in BOOLEAN
           /\ t.human => t.reason \in HumanNeededCause
           /\ method = "managed_runtime" => t.human = (p.present /\ p.human)
<1>0. p.present \in BOOLEAN /\ p.human \in BOOLEAN
  BY DEF Publication
<1>1. CASE method = "browser_session" /\ s.state # "absent"
  BY <1>1, BrowserTruthShape DEF Truth, HumanNeededCause, HumanOnlyCause
<1>2. CASE method = "managed_runtime" /\ p.present
  BY <1>2, <1>0, RuntimeTruthShape DEF Truth
<1>3. CASE /\ ~(method = "browser_session" /\ s.state # "absent")
           /\ ~(method = "managed_runtime" /\ p.present)
  BY <1>3, <1>0 DEF Truth, Unknown, TruthState
<1> QED
  BY <1>1, <1>2, <1>3

LEMMA CauseShape ==
    ASSUME NEW method \in Method, NEW s \in Session, NEW p \in Publication,
           NEW now \in Nat
    PROVE  LET t == Truth(method, s, p, now) IN
           /\ CauseOfTruth(t) \in TruthCause \cup {NoCause}
           /\ CauseOfTruth(t) \in HumanNeededCause <=> t.human
           /\ CauseOfTruth(t) \in {"stale", "login_unknown"}
                <=> ~t.human /\ (t.stale \/ t.state = "login_unknown")
<1> DEFINE t == Truth(method, s, p, now)
<1>1. /\ t.state \in TruthState /\ t.human \in BOOLEAN /\ t.stale \in BOOLEAN
      /\ t.human => t.reason \in HumanNeededCause
  BY TruthShape
<1> HIDE DEF t
<1>2. /\ CauseOfTruth(t) \in TruthCause \cup {NoCause}
      /\ CauseOfTruth(t) \in HumanNeededCause <=> t.human
      /\ CauseOfTruth(t) \in {"stale", "login_unknown"}
           <=> ~t.human /\ (t.stale \/ t.state = "login_unknown")
  BY <1>1, SMT DEF CauseOfTruth, TruthCause, HumanNeededCause, HumanOnlyCause,
                   NoCause, TruthState
<1> QED
  BY <1>2 DEF t

-----------------------------------------------------------------------------
\* Whatever is stored of a provider, and whenever it is projected, the failures
\* collected for recovery are failures the recovery model quantifies over, and the
\* sets of causes satisfy what it assumes of them: its theorems hold of the code's
\* own inputs.  In particular a Runtime that asks for a human never also counts as
\* broken, so no second case can run beside the human one.
\* (_collect_failure_facts, load_trust_signals)
THEOREM CollectedIsFailure ==
    /\ R!CauseAssumption
    /\ \A method \in Method, s \in Session, p \in Publication, now \in Nat :
           Collected(method, s, p, now) \in R!Failure
<1>1. R!CauseAssumption
  BY DEF R!CauseAssumption, R!Cause, R!NoCause, TruthCause, HumanNeededCause,
         HumanOnlyCause, Broken
<1>2. ASSUME NEW method \in Method, NEW s \in Session, NEW p \in Publication,
             NEW now \in Nat
      PROVE  Collected(method, s, p, now) \in R!Failure
  <2> DEFINE c == CauseOfTruth(Truth(method, s, p, now))
             d == IF Distrusted(method, p, now) THEN Presented(p, now) ELSE NoCause
             m == method = "managed_runtime"
  <2>1. c \in TruthCause \cup {NoCause}
    BY CauseShape
  <2>2. d \in Broken \cup {NoCause}
    BY DEF Distrusted
  <2>3. d # NoCause => m /\ c \notin HumanNeededCause
    <3>1. ASSUME d # NoCause
          PROVE  m /\ ~(p.present /\ p.human)
      BY <3>1 DEF Distrusted
    <3>2. QED
      BY <3>1, TruthShape, CauseShape
  <2>4. Collected(method, s, p, now)
          = [managed |-> m, auth |-> c, trust |-> d]
    BY DEF Collected
  <2>5. m \in BOOLEAN
    OBVIOUS
  <2> HIDE DEF c, d, m
  <2>6. QED
    BY <2>1, <2>2, <2>3, <2>4, <2>5 DEF R!Failure, R!NoCause, NoCause
<1>3. QED
  BY <1>1, <1>2

-----------------------------------------------------------------------------
\* Nothing but new evidence signs a member in or out, or asks for a human: two
\* projections of the same rows at different times differ in the stale label alone,
\* and that label, once it is there, stays.  ("Stale is a freshness label only".)
THEOREM AgeingOnlyStales ==
    \A method \in Method, s \in Session, p \in Publication, now, later \in Nat :
        LET t == Truth(method, s, p, now)
            u == Truth(method, s, p, later)
        IN  /\ t.method = u.method /\ t.state = u.state
            /\ t.human = u.human /\ t.reason = u.reason
            /\ now <= later /\ t.stale => u.stale
<1> SUFFICES ASSUME NEW method \in Method, NEW s \in Session, NEW p \in Publication,
                    NEW now \in Nat, NEW later \in Nat
             PROVE  LET t == Truth(method, s, p, now)
                        u == Truth(method, s, p, later)
                    IN  /\ t.method = u.method /\ t.state = u.state
                        /\ t.human = u.human /\ t.reason = u.reason
                        /\ now <= later /\ t.stale => u.stale
  OBVIOUS
<1>1. ASSUME NEW at \in Nat \cup {NoTime}, NEW limit \in Nat, now <= later,
             Older(at, now, limit)
      PROVE  Older(at, later, limit)
  BY <1>1 DEF Older, NoTime
<1>2. /\ s.at \in Nat \cup {NoTime} /\ p.observedAt \in Nat \cup {NoTime}
      /\ p.updatedAt \in Nat \cup {NoTime}
      /\ EvidenceTtl \in Nat /\ RuntimeStaleAfter \in Nat
  BY DEF Session, Publication, EvidenceTtl, RuntimeStaleAfter
<1>3. CASE method = "browser_session" /\ s.state # "absent"
  BY <1>1, <1>2, <1>3 DEF Truth, BrowserTruth
<1>4. CASE method = "managed_runtime" /\ p.present
  BY <1>1, <1>2, <1>4 DEF Truth, RuntimeTruth
<1>5. CASE /\ ~(method = "browser_session" /\ s.state # "absent")
           /\ ~(method = "managed_runtime" /\ p.present)
  BY <1>5 DEF Truth, Unknown
<1>6. QED
  BY <1>3, <1>4, <1>5

\* A signed-out browser session is a failure recovery may still work on: its cause
\* is "login", never one of the human-only causes, whatever page was seen; and
\* recovery is never told that a signed-out member is fine.
THEOREM SignedOutIsRecoverable ==
    \A s \in Session, p \in Publication, now \in Nat :
        Truth("browser_session", s, p, now).state = "signed_out"
            => Collected("browser_session", s, p, now).auth = "login"
<1> SUFFICES ASSUME NEW s \in Session, NEW p \in Publication, NEW now \in Nat,
                    Truth("browser_session", s, p, now).state = "signed_out"
             PROVE  Collected("browser_session", s, p, now).auth = "login"
  OBVIOUS
<1>1. Truth("browser_session", s, p, now) = BrowserTruth(s, now)
  BY DEF Truth, Unknown
<1>2. /\ BrowserTruth(s, now).human
      /\ BrowserTruth(s, now).reason = "login"
  BY <1>1, BrowserTruthShape
<1>3. QED
  BY <1>1, <1>2 DEF Collected, CauseOfTruth

-----------------------------------------------------------------------------
\* The evidence the access cycle stores never makes recovery give up at once: what
\* amex's page looks, reports and session API answers amount to is signed in, signed
\* out with the cause "login", or unknown, and weak evidence (a page that merely
\* looks signed in) is unknown.
THEOREM CycleEvidenceTruth ==
    \A e \in Evidence, p \in Publication, now \in Nat :
        LET t == Truth("browser_session", SessionOf(e), p, now)
        IN  /\ t.state = "signed_in" <=> e.state = "connected" /\ e.confidence = "high"
            /\ t.state = "signed_out" <=> e.state = "signed_out" /\ e.confidence = "high"
            /\ CauseOfTruth(t) \notin HumanOnlyCause
<1> SUFFICES ASSUME NEW e \in Evidence, NEW p \in Publication, NEW now \in Nat
             PROVE  LET t == Truth("browser_session", SessionOf(e), p, now)
                    IN  /\ t.state = "signed_in"
                             <=> e.state = "connected" /\ e.confidence = "high"
                        /\ t.state = "signed_out"
                             <=> e.state = "signed_out" /\ e.confidence = "high"
                        /\ CauseOfTruth(t) \notin HumanOnlyCause
  OBVIOUS
<1> DEFINE s == SessionOf(e)
<1>1. /\ e.state \in {"connected", "signed_out"} /\ e.confidence \in {"high", "medium"}
      /\ e.type \in EvidenceType
  BY DEF Evidence
<1>2. /\ s.state = e.state /\ s.type = e.type /\ s.confidence = e.confidence
      /\ s.at = e.at
  BY DEF SessionOf
<1> HIDE DEF s
<1>3. Truth("browser_session", s, p, now) = BrowserTruth(s, now)
  BY <1>1, <1>2 DEF Truth
<1>4. InterruptionOf(s) \in {"none", "login"}
  BY <1>1, <1>2 DEF InterruptionOf, EvidenceType
<1>5. /\ StateOf(s) = "signed_in" <=> e.state = "connected" /\ e.confidence = "high"
      /\ StateOf(s) = "signed_out" <=> e.state = "signed_out" /\ e.confidence = "high"
  BY <1>1, <1>2 DEF StateOf, Definitive
<1>6. /\ BrowserTruth(s, now).state = StateOf(s)
      /\ BrowserTruth(s, now).human => BrowserTruth(s, now).reason = "login"
  BY <1>4, BrowserFields
<1>7. CauseOfTruth(BrowserTruth(s, now)) \notin HumanOnlyCause
  BY <1>6, SMT DEF CauseOfTruth, HumanOnlyCause, NoCause
<1>8. QED
  BY <1>3, <1>5, <1>6, <1>7 DEF s

\* Attention and recovery read one truth and agree on it: the member is shown an
\* auth_blocker exactly when recovery's auth cause needs a human, access_degraded
\* exactly when it is a degradation, and a trust item only for a trust cause; so no
\* provider shows an auth_blocker beside one of the other two.
THEOREM ItemsMatchCauses ==
    \A method \in Method, s \in Session, p \in Publication, now \in Nat :
        LET items == ItemsFor(method, s, p, now)
            f     == Collected(method, s, p, now)
        IN  /\ "auth_blocker" \in items <=> f.auth \in HumanNeededCause
            /\ "access_degraded" \in items <=> f.auth \in {"stale", "login_unknown"}
            /\ "trust" \in items => f.trust # NoCause
            /\ "auth_blocker" \in items => items = {"auth_blocker"}
<1> SUFFICES ASSUME NEW method \in Method, NEW s \in Session, NEW p \in Publication,
                    NEW now \in Nat
             PROVE  LET items == ItemsFor(method, s, p, now)
                        f     == Collected(method, s, p, now)
                    IN  /\ "auth_blocker" \in items <=> f.auth \in HumanNeededCause
                        /\ "access_degraded" \in items
                             <=> f.auth \in {"stale", "login_unknown"}
                        /\ "trust" \in items => f.trust # NoCause
                        /\ "auth_blocker" \in items => items = {"auth_blocker"}
  OBVIOUS
<1> DEFINE t == Truth(method, s, p, now)
           f == Collected(method, s, p, now)
<1>1. /\ t.human \in BOOLEAN /\ t.stale \in BOOLEAN
      /\ method = "managed_runtime" => t.human = (p.present /\ p.human)
  BY TruthShape
<1>2. /\ f.auth = CauseOfTruth(t)
      /\ Distrusted(method, p, now) => f.trust \in Broken
  BY DEF Collected, Distrusted
<1>3. /\ f.auth \in HumanNeededCause <=> t.human
      /\ f.auth \in {"stale", "login_unknown"}
           <=> ~t.human /\ (t.stale \/ t.state = "login_unknown")
  BY <1>2, CauseShape
<1>4. /\ "auth_blocker" \in TruthItems(t) <=> t.human
      /\ "access_degraded" \in TruthItems(t)
           <=> ~t.human /\ (t.stale \/ t.state = "login_unknown")
      /\ "trust" \notin TruthItems(t)
      /\ t.human => TruthItems(t) = {"auth_blocker"}
  BY <1>1 DEF TruthItems
<1>5. /\ TrustItems(method, p, now) \subseteq {"trust"}
      /\ TrustItems(method, p, now) # {} => Distrusted(method, p, now) /\ ~t.human
  BY <1>1 DEF TrustItems, Distrusted
<1>6. NoCause \notin Broken
  BY DEF NoCause, Broken
<1>7. ItemsFor(method, s, p, now) = TruthItems(t) \cup TrustItems(method, p, now)
  BY DEF ItemsFor
<1> HIDE DEF t, f
<1>8. QED
  BY <1>2, <1>3, <1>4, <1>5, <1>6, <1>7 DEF t, f
=============================================================================
