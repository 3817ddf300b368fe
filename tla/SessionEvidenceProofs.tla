------------------------ MODULE SessionEvidenceProofs ------------------------
(***************************************************************************)
(* What holds of every observation and of every pair of stored rows: the   *)
(* decisions exclude each other, a probe says "signed out" only for want   *)
(* of evidence of a session that is as late, and the order in which the    *)
(* evidence arrives does not decide what is stored in the end.             *)
(***************************************************************************)
EXTENDS SessionEvidence, TLAPS

\* Neither of two rows is preferred to the other.
Equivalent(e, f) == ~Supersedes(e, f) /\ ~Supersedes(f, e)

LEMMA RanksTyped ==
    ASSUME NEW e \in Evidence
    PROVE  ConfidenceRank(e) \in Int /\ Priority(e) \in Int /\ e.at \in Int
BY DEF ConfidenceRank, Priority, TypePriority, Evidence

\* should_replace_session_evidence is a strict order: no row replaces itself, no two
\* replace each other, and what replaces a replacement replaces the first row.
THEOREM SupersedesStrict ==
    /\ \A e \in Evidence : ~Supersedes(e, e)
    /\ \A e, f, g \in Evidence : Supersedes(e, f) /\ Supersedes(f, g) => Supersedes(e, g)
<1>1. \A e \in Evidence : ~Supersedes(e, e)
  BY RanksTyped DEF Supersedes
<1>2. \A e, f, g \in Evidence : Supersedes(e, f) /\ Supersedes(f, g) => Supersedes(e, g)
  BY RanksTyped DEF Supersedes
<1> QED BY <1>1, <1>2

\* Two pieces of evidence that are upserted one after the other leave, in either order,
\* rows of which neither is preferred: late evidence never undoes better evidence.
THEOREM UpsertOrderIrrelevant ==
    ASSUME NEW row \in Evidence, NEW e \in Evidence, NEW f \in Evidence
    PROVE  /\ Equivalent(Upsert(Upsert(row, e), f), Upsert(Upsert(row, f), e))
           /\ ~Supersedes(row, Upsert(Upsert(row, e), f))
           /\ ~Supersedes(e, Upsert(Upsert(row, e), f))
           /\ ~Supersedes(f, Upsert(Upsert(row, e), f))
<1>1. \A a, b \in Evidence : Supersedes(a, b) \/ Supersedes(b, a) \/ Equivalent(a, b)
  BY DEF Equivalent
<1>2. \A a, b, c \in Evidence : Equivalent(a, b) => (Supersedes(a, c) <=> Supersedes(b, c))
                                                 /\ (Supersedes(c, a) <=> Supersedes(c, b))
  BY RanksTyped DEF Equivalent, Supersedes
<1>3. ASSUME NEW a \in Evidence, NEW b \in Evidence, NEW r \in Evidence
      PROVE  LET u == Upsert(Upsert(r, a), b)
             IN  /\ u \in Evidence /\ u \in {r, a, b}
                 /\ ~Supersedes(r, u) /\ ~Supersedes(a, u) /\ ~Supersedes(b, u)
  <2> DEFINE s == Upsert(r, a)
             u == Upsert(s, b)
  <2>1. s \in Evidence /\ s \in {r, a} /\ ~Supersedes(r, s) /\ ~Supersedes(a, s)
    BY SupersedesStrict DEF Upsert
  <2> HIDE DEF s
  <2>2. u \in Evidence /\ u \in {s, b} /\ ~Supersedes(s, u) /\ ~Supersedes(b, u)
    BY <2>1, SupersedesStrict DEF Upsert
  <2> HIDE DEF u
  <2>3. u = s \/ (u = b /\ Supersedes(b, s))
    BY DEF u, Upsert
  <2>4. ~Supersedes(r, u) /\ ~Supersedes(a, u)
    BY <2>1, <2>3, SupersedesStrict
  <2> QED BY <2>1, <2>2, <2>4 DEF s, u
<1>4. LET u == Upsert(Upsert(row, e), f)
          v == Upsert(Upsert(row, f), e)
      IN  Equivalent(u, v)
  <2> DEFINE u == Upsert(Upsert(row, e), f)
             v == Upsert(Upsert(row, f), e)
  <2>1. /\ u \in {row, e, f}
        /\ ~Supersedes(row, u) /\ ~Supersedes(e, u) /\ ~Supersedes(f, u)
    BY <1>3
  <2>2. /\ v \in {row, e, f}
        /\ ~Supersedes(row, v) /\ ~Supersedes(e, v) /\ ~Supersedes(f, v)
    BY <1>3
  <2> HIDE DEF u, v
  <2> QED BY <2>1, <2>2 DEF Equivalent, u, v
<1> QED BY <1>3, <1>4

-----------------------------------------------------------------------------
LEMMA LaterAsymmetric ==
    ASSUME NEW S \in SUBSET Int, NEW T \in SUBSET Int, Later(S, T) PROVE ~Later(T, S)
BY DEF Later

LEMMA TimesTyped ==
    ASSUME NEW r \in Result
    PROVE  ConnectedTimes(r) \in SUBSET Int /\ SignedOutTimes(r) \in SUBSET Int
BY DEF ConnectedTimes, SignedOutTimes, Result, Event, NoTime, NoEvent

\* decide_amex_verification_session never has grounds for both verdicts, so the order
\* of its branches does not decide between a connected and a disconnected member.
THEOREM DecisionExclusive == \A r \in Result : ~(Connected(r) /\ SignedOut(r))
<1> SUFFICES ASSUME NEW r \in Result, Connected(r), SignedOut(r) PROVE FALSE
  OBVIOUS
<1>1. ConnectedTimes(r) # {} /\ SignedOutTimes(r) # {}
  BY DEF Connected, SignedOut, LoginStateOnly
<1>2. Later(ConnectedTimes(r), SignedOutTimes(r)) /\ Later(SignedOutTimes(r), ConnectedTimes(r))
  BY <1>1 DEF Connected, SignedOut, LoginStateOnly
<1> QED BY <1>2, TimesTyped, LaterAsymmetric

\* A page that shows a live session is never taken for signed out, and one with an API
\* answer that says so only when a timed denial came later: a stale denial, a login
\* form left in the page or an untimed trace never disconnects the member.
THEOREM ProbeSignedOut ==
    ASSUME NEW p \in Page, SignedOut(Probe(p))
    PROVE  /\ ~p.error
           /\ ~AuthenticatedPage(Probe(p)) \/ p.loginUrl
           /\ p.api200 # NoEvent => /\ p.apiDenied > p.api200
                                    /\ p.apiDenied # NoTime /\ p.api200 # NoTime
<1> DEFINE r == Probe(p)
<1>0. /\ r.error = p.error /\ r.loginUrl = p.loginUrl /\ r.api200 = p.api200
      /\ r.apiDenied = p.apiDenied /\ r.pageAt = NoTime /\ r.urlAt = NoTime
      /\ r.formAt = NoTime
  BY DEF Probe
<1>1. p.api200 \in Event /\ p.apiDenied \in Event
  BY DEF Page
<1> HIDE DEF r
<1>2. SignedOut(r)
  BY DEF r
<1>3. ~p.error
  BY <1>0, <1>2 DEF SignedOut, Unusable
<1>4. \/ ConnectedTimes(r) = {}
      \/ NoTime \notin ConnectedTimes(r) \cup SignedOutTimes(r)
         /\ \E s \in SignedOutTimes(r) : \A t \in ConnectedTimes(r) : s > t
  BY <1>2 DEF SignedOut, LoginStateOnly, Later
<1>5. ~AuthenticatedPage(r) \/ p.loginUrl
  <2> SUFFICES ASSUME AuthenticatedPage(r), ~p.loginUrl PROVE FALSE
    OBVIOUS
  <2>1. NoTime \in ConnectedTimes(r)
    BY <1>0 DEF ConnectedTimes
  <2> QED BY <1>4, <2>1
<1>6. ASSUME p.api200 # NoEvent
      PROVE  p.apiDenied > p.api200 /\ p.apiDenied # NoTime /\ p.api200 # NoTime
  <2>1. p.api200 \in ConnectedTimes(r)
    BY <1>0, <1>6 DEF ConnectedTimes
  <2>2. PICK s \in SignedOutTimes(r) : s > p.api200
    BY <1>4, <2>1
  <2>3. s # NoTime /\ p.api200 # NoTime
    BY <1>4, <2>1, <2>2
  <2>4. s = p.apiDenied
    BY <1>0, <2>2, <2>3 DEF SignedOutTimes
  <2> QED BY <2>2, <2>3, <2>4
<1> QED BY <1>3, <1>5, <1>6 DEF r

\* When a page is taken for a live session, as a complete list: it is no error page, no
\* empty one and none that failed hard, it has no login URL and no login form, and
\* either the session API answered, with no denial or, on a page that does not itself
\* look authenticated, with an earlier one, both timed; or the trace has neither and the
\* page looks authenticated in a rendered observation.  So expired, MFA or login text
\* and a block do not keep an answer of the API from counting, and beside a page that
\* looks authenticated a denial, however old, leaves no live session.
THEOREM ProbeConnected ==
    ASSUME NEW p \in Page
    PROVE  Connected(Probe(p)) <=>
             /\ ~p.error /\ FailureOf(p, Classify(p)) # "hard" /\ ~p.loginUrl /\ ~p.form
             /\ \/ /\ p.api200 # NoEvent
                   /\ \/ p.apiDenied = NoEvent
                      \/ /\ ~AuthenticatedPage(Probe(p))
                         /\ p.apiDenied # NoTime /\ p.api200 # NoTime
                         /\ p.api200 > p.apiDenied
                \/ /\ p.api200 = NoEvent /\ p.apiDenied = NoEvent
                   /\ ~p.static /\ AuthenticatedPage(Probe(p))
<1> DEFINE r == Probe(p)
           Answered == /\ p.api200 # NoEvent
                       /\ \/ p.apiDenied = NoEvent
                          \/ /\ ~AuthenticatedPage(r)
                             /\ p.apiDenied # NoTime /\ p.api200 # NoTime
                             /\ p.api200 > p.apiDenied
           Seen == /\ p.api200 = NoEvent /\ p.apiDenied = NoEvent
                   /\ ~p.static /\ AuthenticatedPage(r)
<1>0. /\ r.error = p.error /\ r.failure = FailureOf(p, Classify(p))
      /\ r.loginUrl = p.loginUrl /\ r.api200 = p.api200 /\ r.apiDenied = p.apiDenied
      /\ r.form = p.form /\ r.static = p.static /\ r.passive = FALSE
      /\ r.pageAt = NoTime /\ r.urlAt = NoTime /\ r.formAt = NoTime
  BY DEF Probe
<1>1. p.api200 \in Event /\ p.apiDenied \in Event /\ NoEvent # NoTime
  BY DEF Page, NoEvent, NoTime
<1> HIDE DEF r
<1>2. ASSUME Connected(r) PROVE ~p.error /\ r.failure # "hard" /\ ~p.loginUrl /\ ~p.form
  <2>1. /\ ConnectedTimes(r) # {}
        /\ SignedOutTimes(r) = {} \/ NoTime \notin SignedOutTimes(r)
    BY <1>2 DEF Connected, Later
  <2>2. ~p.loginUrl
    BY <1>0, <2>1 DEF SignedOutTimes
  <2>3. ~p.form
    BY <1>0, <2>1, <2>2 DEF SignedOutTimes, FormCounts
  <2> QED BY <1>0, <1>2, <2>2, <2>3 DEF Connected, Unusable
<1>3. ASSUME ~p.error, r.failure # "hard", ~p.loginUrl, ~p.form
      PROVE  Connected(r) <=> Answered \/ Seen
  <2>1. SignedOutTimes(r) = IF p.apiDenied = NoEvent THEN {} ELSE {p.apiDenied}
    BY <1>0, <1>3 DEF SignedOutTimes, FormCounts
  <2>2. ConnectedTimes(r) = (IF p.api200 = NoEvent THEN {} ELSE {p.api200})
                              \cup (IF AuthenticatedPage(r) THEN {NoTime} ELSE {})
    BY <1>0, <1>3 DEF ConnectedTimes
  <2>3. Unusable(r) <=> /\ p.api200 = NoEvent /\ p.apiDenied = NoEvent /\ p.static
    BY <1>0, <1>3 DEF Unusable
  <2>4. CASE p.apiDenied = NoEvent
    BY <2>1, <2>2, <2>3, <2>4 DEF Connected
  <2>5. CASE p.apiDenied # NoEvent
    <3>1. Connected(r) <=> Later(ConnectedTimes(r), {p.apiDenied})
      BY <2>1, <2>2, <2>3, <2>5 DEF Connected, Later
    <3>2. CASE p.api200 = NoEvent \/ AuthenticatedPage(r)
      BY <2>2, <2>5, <3>1, <3>2 DEF Later
    <3>3. CASE p.api200 # NoEvent /\ ~AuthenticatedPage(r)
      <4>1. ConnectedTimes(r) = {p.api200}
        BY <2>2, <3>3
      <4> QED BY <2>5, <3>1, <3>3, <4>1 DEF Later
    <3> QED BY <3>2, <3>3
  <2> QED BY <2>4, <2>5
<1> QED BY <1>0, <1>2, <1>3 DEF r
=============================================================================
