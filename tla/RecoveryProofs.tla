--------------------------- MODULE RecoveryProofs ---------------------------
(***************************************************************************)
(* Proofs about Recovery.                                                  *)
(***************************************************************************)
EXTENDS Recovery, TLAPS

Busy == {"plan", "attempt", "conclude"}

\* The sweep works on an active case, and the wait it is about to record is
\* one the case has left.
Shape ==
    /\ sup.pc \in Busy => sup.cause \in Cause /\ Active(sup.cause)
    /\ sup.pc \in {"attempt", "conclude"} => case[sup.cause].status = "running"
    /\ sup.pc = "attempt" /\ sup.cap = "bounded_wait" =>
           case[sup.cause].waits < MaxWaits
    /\ sup.pc # "idle" /\ sup.loop = "cases" => \A c \in sup.todo : Active(c)

Typed == TypeOK /\ Shape

\* Whatever has an attempt record was really begun or found unavailable: a
\* running case has begun session_verify, the capability a timeout blames.
Recorded ==
    /\ \A c \in Cause : case[c].tried \subseteq case[c].begun
    /\ \A c \in Cause : case[c].status = "running" => "session_verify" \in case[c].begun
    /\ sup.pc = "attempt" => {sup.cap} \cap Optional \subseteq case[sup.cause].begun

-----------------------------------------------------------------------------
(* The planner. *)

LEMMA OptionalIs ==
    /\ Optional = {"session_verify", "silent_reauth", "account_resync",
                   "navigation_gap_fill", "deep_probe"}
    /\ \A j \in Optional : Rank[j] \in 1 .. 5
    /\ \A j \in Optional : Rank[j] <= Rank["session_verify"] => j = "session_verify"
BY DEF Optional, Rank

\* Some capability without an attempt has the lowest rank.
LEMMA LowestRank ==
    ASSUME NEW left \in SUBSET Optional, left # {}
    PROVE  \E k \in left : \A j \in left : Rank[k] <= Rank[j]
<1>1. CASE "session_verify" \in left
  BY <1>1 DEF Optional, Rank
<1>2. CASE "session_verify" \notin left /\ "silent_reauth" \in left
  BY <1>2 DEF Optional, Rank
<1>3. CASE {"session_verify", "silent_reauth"} \cap left = {} /\ "account_resync" \in left
  BY <1>3 DEF Optional, Rank
<1>4. CASE /\ {"session_verify", "silent_reauth", "account_resync"} \cap left = {}
           /\ "navigation_gap_fill" \in left
  BY <1>4 DEF Optional, Rank
<1>5. CASE /\ {"session_verify", "silent_reauth", "account_resync",
               "navigation_gap_fill"} \cap left = {}
           /\ "deep_probe" \in left
  BY <1>5 DEF Optional, Rank
<1> QED BY <1>1, <1>2, <1>3, <1>4, <1>5, OptionalIs

\* The plan is an untried capability -- session_verify if that is one -- or a
\* wait when none is left, or the human.
LEMMA PlanIs ==
    ASSUME NEW c, NEW r \in Case
    PROVE  /\ Plan(c, r) \in Capability \cup {"ask_human"}
           /\ Plan(c, r) \in Optional =>
                  /\ Plan(c, r) \notin r.tried
                  /\ "session_verify" \in r.tried \cup {Plan(c, r)}
           /\ Plan(c, r) = "bounded_wait" => Optional \subseteq r.tried /\ r.waits < MaxWaits
           /\ Plan(c, r) = "ask_human" /\ c \notin HumanOnly =>
                  r.tried = Optional /\ r.waits = MaxWaits
<1> DEFINE left == Optional \ r.tried
           low  == CHOOSE k \in left : \A j \in left : Rank[k] <= Rank[j]
<1>1. r.tried \subseteq Optional /\ r.waits \in 0 .. MaxWaits /\ MaxWaits = 2
  BY DEF Case, MaxWaits
<1>2. "ask_human" \notin Optional /\ "bounded_wait" \notin Optional
  BY OptionalIs
<1>3. CASE c \in HumanOnly
  BY <1>2, <1>3 DEF Plan
<1>4. CASE c \notin HumanOnly /\ left # {}
  <2>1. low \in left /\ \A j \in left : Rank[low] <= Rank[j]
    BY <1>4, LowestRank
  <2>2. Plan(c, r) = low
    BY <1>4 DEF Plan
  <2>3. "session_verify" \in left => low = "session_verify"
    BY <2>1, OptionalIs
  <2>4. "session_verify" \in Optional
    BY OptionalIs
  <2> QED BY <1>2, <2>1, <2>2, <2>3, <2>4 DEF Capability
<1>5. CASE c \notin HumanOnly /\ left = {} /\ r.waits < MaxWaits
  BY <1>1, <1>2, <1>5 DEF Plan, Capability
<1>6. CASE c \notin HumanOnly /\ left = {} /\ ~(r.waits < MaxWaits)
  BY <1>1, <1>2, <1>6 DEF Plan
<1> QED BY <1>3, <1>4, <1>5, <1>6

-----------------------------------------------------------------------------
(* Types. *)

LEMMA RecordsTyped ==
    /\ NoCase \in Case /\ OpenedCase \in Case
    /\ NoVerdict \in Terminal
    /\ Idle \in Sup
<1>1. NoCase \in Case
  BY DEF NoCase, Case, MaxWaits
<1>5. OpenedCase \in Case
  BY <1>1 DEF OpenedCase, Case
<1>2. NoVerdict \in Terminal
  BY DEF NoVerdict, Terminal, MaxWaits
<1>3. [managed |-> FALSE, auth |-> NoCause, trust |-> NoCause] \in Failure
  BY CauseAssumption DEF Failure
<1>4. Idle \in Sup
  BY <1>3 DEF Idle, Sup, Capability
<1> QED BY <1>1, <1>2, <1>4, <1>5

\* The blind sweep sees what a projection could report, too.
LEMMA BlindTyped ==
    ASSUME NEW f \in Failure
    PROVE  /\ [f EXCEPT !.auth = NoCause, !.trust = NoCause] \in Failure
           /\ [f EXCEPT !.auth = NoCause] \in Failure
BY CauseAssumption DEF Failure, Cause

LEMMA FailingTyped ==
    ASSUME NEW f \in Failure
    PROVE  Failing(f) \subseteq Cause
BY DEF Failing, Failure, Cause

LEMMA EndTyped ==
    ASSUME TypeOK, NEW c \in Cause, NEW status \in {"succeeded", "escalated"},
           End(c, status)
    PROVE  case' \in [Cause -> Case] /\ latest' \in Terminal
<1>1. case[c] \in Case /\ latest \in Terminal /\ case \in [Cause -> Case]
  BY DEF TypeOK
<1>2. case' = [case EXCEPT ![c] = NoCase]
  BY DEF End
<1>3. latest' = latest \/ latest' = [NoVerdict EXCEPT !.status = status, !.cause = c, !.fresh = TRUE]
      \/ latest' = [status |-> status, cause |-> c, begun |-> case[c].begun,
                    waits |-> case[c].waits, fresh |-> TRUE]
  BY DEF End
<1>4. [NoVerdict EXCEPT !.status = status, !.cause = c, !.fresh = TRUE] \in Terminal
  BY RecordsTyped DEF Terminal
<1>5. [status |-> status, cause |-> c, begun |-> case[c].begun,
       waits |-> case[c].waits, fresh |-> TRUE] \in Terminal
  BY <1>1 DEF Case, Terminal
<1> QED BY <1>1, <1>2, <1>3, <1>4, <1>5, RecordsTyped

LEMMA DoneTyped ==
    ASSUME TypeOK, NEW c \in Cause
    PROVE  Done(c) \in Sup /\ Chosen(c) \in Sup
BY DEF TypeOK, Sup, Done, Chosen, Capability

LEMMA RecordTyped ==
    ASSUME TypeOK, NEW c \in Cause, NEW skipped \in SUBSET Optional, Record(c, skipped)
    PROVE  case' \in [Cause -> Case]
BY DEF TypeOK, Record, Case

LEMMA InitTyped == Init => Typed
BY RecordsTyped, MaxFaultAssumption DEF Init, Typed, TypeOK, Shape, Busy, Idle

LEMMA UnrecordedTyped ==
    ASSUME NEW c
    PROVE  /\ Unrecorded(c) \subseteq Optional
           /\ \A k \in Unrecorded(c) : UnrecordedTo(c, k) \subseteq Optional
BY DEF Unrecorded, UnrecordedTo, Unavailable

\* One lemma for each shape of a step of the sweep.
LEMMA EndStep ==
    ASSUME Typed, NEW c \in Cause, ClearCase(c) \/ Escalate(c)
    PROVE  Typed'
<1>1. \E status \in {"succeeded", "escalated"} : End(c, status)
  BY DEF ClearCase, Escalate
<1>2. case' \in [Cause -> Case] /\ latest' \in Terminal /\ case' = [case EXCEPT ![c] = NoCase]
  BY <1>1, EndTyped DEF Typed, End
<1>3. sup' = Done(c) /\ UNCHANGED <<failure, faults>> /\ sup.pc # "idle"
  BY DEF ClearCase, Escalate, At
<1>4. TypeOK'
  BY <1>2, <1>3, DoneTyped DEF Typed, TypeOK
<1>5. sup'.pc = "next" /\ sup'.todo = sup.todo \ {c} /\ sup'.loop = sup.loop
  BY <1>3 DEF Done, Typed, TypeOK, Sup
<1>6. \A d \in Cause \ {c} : case'[d] = case[d]
  BY <1>2 DEF Typed, TypeOK
<1>7. Shape'
  BY <1>3, <1>5, <1>6, <1>4 DEF Typed, TypeOK, Shape, Sup, Busy, Active
<1> QED BY <1>4, <1>7 DEF Typed

LEMMA SkipStep ==
    ASSUME Typed, NEW c \in Cause, NotDue(c) \/ Leave(c) \/ Resume(c)
    PROVE  Typed'
<1>1. UNCHANGED <<failure, case, latest, faults>> /\ sup.pc = "next"
  BY DEF NotDue, Leave, Resume, At
<1>2. CASE NotDue(c) \/ Leave(c)
  <2>1. sup' = Done(c)
    BY <1>2 DEF NotDue, Leave
  <2>2. TypeOK'
    BY <1>1, <2>1, DoneTyped DEF Typed, TypeOK
  <2> QED BY <1>1, <2>1, <2>2 DEF Typed, TypeOK, Shape, Done, Sup, Busy, Active
<1>3. CASE Resume(c)
  <2>1. sup' = Chosen(c) /\ case[c].status # "none"
    BY <1>3 DEF Resume
  <2>2. TypeOK'
    BY <1>1, <2>1, DoneTyped DEF Typed, TypeOK
  <2> QED BY <1>1, <2>1, <2>2 DEF Typed, TypeOK, Shape, Chosen, Sup, Busy, Active
<1> QED BY <1>2, <1>3

LEMMA OpenStep ==
    ASSUME Typed, NEW c \in Cause, OpenCase(c) \/ TimeOut(c)
    PROVE  Typed'
<1>1. sup' = Chosen(c) /\ UNCHANGED <<failure, latest, faults>> /\ sup.pc = "next"
  BY DEF OpenCase, TimeOut, At
<1>2. case' \in [Cause -> Case] /\ case'[c].status = "open"
      /\ \A d \in Cause \ {c} : case'[d] = case[d]
  BY RecordsTyped, OptionalIs DEF OpenCase, TimeOut, OpenedCase, NoCase, Typed, TypeOK, Case
<1>3. TypeOK'
  BY <1>1, <1>2, DoneTyped DEF Typed, TypeOK
<1> QED BY <1>1, <1>2, <1>3 DEF Typed, TypeOK, Shape, Chosen, Sup, Busy, Active

LEMMA WorkStep ==
    ASSUME Typed, NEW c \in Cause, Skip(c) \/ Start(c) \/ Attempt(c) \/ Conclude(c)
    PROVE  Typed'
<1>1. sup.cause = c /\ sup.pc \in Busy /\ UNCHANGED <<failure, latest, faults>>
  BY DEF Skip, Start, Attempt, Conclude, Busy
<1>2. case \in [Cause -> Case] /\ case[c] \in Case /\ sup \in Sup
  BY DEF Typed, TypeOK
<1>3. CASE Skip(c)
  <2>1. case' \in [Cause -> Case]
    BY <1>3, UnrecordedTyped, RecordTyped DEF Skip, Typed
  <2>2. \A d \in Cause : case'[d].status = case[d].status
    BY <1>2, <1>3 DEF Skip, Record, Case
  <2>3. sup' = sup /\ sup.pc = "plan"
    BY <1>3 DEF Skip
  <2> QED BY <1>1, <1>2, <2>1, <2>2, <2>3 DEF Typed, TypeOK, Shape, Sup, Busy, Active
<1>4. CASE Start(c)
  <2> DEFINE k == Plan(c, case[c])
  <2>1. k \in Capability /\ (k = "bounded_wait" => case[c].waits < MaxWaits)
    BY <1>2, <1>4, PlanIs DEF Start
  <2>2. /\ sup' = [sup EXCEPT !.pc = "attempt", !.cap = k]
        /\ case' = [case EXCEPT ![c].status = "running", ![c].over = FALSE,
                                ![c].begun = @ \cup ({k} \cap Optional)]
    BY <1>4 DEF Start
  <2> HIDE DEF k
  <2>3. case' \in [Cause -> Case] /\ sup' \in Sup
    BY <1>2, <2>1, <2>2 DEF Case, Sup
  <2>4. case'[c].status = "running" /\ case'[c].waits = case[c].waits
        /\ \A d \in Cause \ {c} : case'[d] = case[d]
    BY <1>2, <2>2 DEF Case
  <2> QED BY <1>1, <1>2, <2>1, <2>2, <2>3, <2>4 DEF Typed, TypeOK, Shape, Sup, Busy, Active
<1>5. CASE Attempt(c)
  <2>1. sup' = [sup EXCEPT !.pc = "conclude"]
        /\ case' = IF sup.cap = "bounded_wait"
                   THEN [case EXCEPT ![c].waits = @ + 1]
                   ELSE [case EXCEPT ![c].tried = @ \cup {sup.cap}]
    BY <1>5 DEF Attempt
  <2>2. sup.cap = "bounded_wait" => case[c].waits + 1 \in 0 .. MaxWaits
    BY <1>1, <1>2, <1>5 DEF Attempt, Typed, Shape, Case, MaxWaits
  <2>3. sup.cap # "bounded_wait" => sup.cap \in Optional
    BY <1>2 DEF Sup, Capability
  <2>4. case' \in [Cause -> Case] /\ sup' \in Sup
    BY <1>2, <2>1, <2>2, <2>3 DEF Case, Sup
  <2>5. \A d \in Cause : case'[d].status = case[d].status
    BY <1>2, <2>1 DEF Case
  <2> QED BY <1>1, <1>2, <1>5, <2>1, <2>4, <2>5
      DEF Attempt, Typed, TypeOK, Shape, Sup, Busy, Active
<1>6. CASE Conclude(c)
  <2>1. sup' = Done(c)
        /\ case' = [case EXCEPT ![c].status =
                        IF sup.cap = "bounded_wait" THEN "waiting" ELSE "open"]
    BY <1>6 DEF Conclude
  <2>2. case' \in [Cause -> Case]
    BY <1>2, <2>1 DEF Case
  <2>3. case'[c].status # "none" /\ \A d \in Cause \ {c} : case'[d] = case[d]
    BY <1>2, <2>1 DEF Case
  <2>4. sup' \in Sup
    BY <2>1, DoneTyped DEF Typed
  <2> QED BY <1>1, <1>2, <2>1, <2>2, <2>3, <2>4
      DEF Typed, TypeOK, Shape, Done, Sup, Busy, Active
<1> QED BY <1>3, <1>4, <1>5, <1>6

LEMMA TypedStep == Typed /\ [Next]_vars => Typed'
<1> SUFFICES ASSUME Typed, [Next]_vars PROVE Typed'
  OBVIOUS
<1>1. TypeOK /\ Shape
  BY DEF Typed
<1>2. CASE UNCHANGED vars
  BY <1>1, <1>2 DEF vars, Typed, TypeOK, Shape, Active
<1>3. ASSUME NEW c \in Cause, CaseStep(c) PROVE Typed'
  BY <1>3, EndStep, SkipStep, OpenStep, WorkStep DEF CaseStep
<1>4. ASSUME NEW seen \in Failure, Sweep(seen), faults' \in 0 .. MaxFault PROVE Typed'
  <2>1. sup' = [Idle EXCEPT !.pc = "next", !.seen = seen, !.todo = {c \in Cause : Active(c)}]
        /\ latest' = [latest EXCEPT !.fresh = FALSE] /\ UNCHANGED <<failure, case>>
    BY <1>4 DEF Sweep
  <2>2. TypeOK'
    BY <1>1, <1>4, <2>1, RecordsTyped DEF TypeOK, Sup, Terminal
  <2> QED BY <1>1, <2>1, <2>2 DEF Typed, Shape, Idle, Busy, Active
<1>5. CASE BeginSweep
  BY <1>1, <1>4, <1>5 DEF BeginSweep, TypeOK
<1>6. CASE BlindSweep
  <2>1. faults' \in 0 .. MaxFault /\ failure \in Failure
    BY <1>1, <1>6, MaxFaultAssumption DEF BlindSweep, TypeOK
  <2> QED BY <1>4, <1>6, <2>1, BlindTyped DEF BlindSweep
<1>7. CASE CasesDone
  <2>1. sup' = [sup EXCEPT !.loop = "failures", !.todo = Failing(sup.seen)]
        /\ UNCHANGED <<failure, case, latest, faults>> /\ sup.pc = "next"
    BY <1>7 DEF CasesDone
  <2>2. Failing(sup.seen) \subseteq Cause
    BY <1>1, FailingTyped DEF TypeOK, Sup
  <2> QED BY <1>1, <2>1, <2>2 DEF Typed, TypeOK, Shape, Sup, Busy, Active
<1>8. CASE EndSweep
  BY <1>1, <1>8, RecordsTyped DEF EndSweep, Typed, TypeOK, Shape, Idle, Busy, Active
<1>9. CASE SweepFails
  <2>1. sup' = Idle /\ UNCHANGED <<failure, latest>> /\ faults' \in 0 .. MaxFault
    BY <1>1, <1>9, MaxFaultAssumption DEF SweepFails, TypeOK
  <2>2. case' \in [Cause -> Case]
    <3>1. CASE UNCHANGED case
      BY <1>1, <3>1 DEF TypeOK
    <3>2. ASSUME sup.pc = "plan", NEW k \in Unrecorded(sup.cause),
                 Record(sup.cause, UnrecordedTo(sup.cause, k))
          PROVE  case' \in [Cause -> Case]
      BY <1>1, <3>2, UnrecordedTyped, RecordTyped DEF Shape, Busy
    <3> QED BY <1>9, <3>1, <3>2 DEF SweepFails
  <2> QED BY <1>1, <2>1, <2>2, RecordsTyped DEF Typed, TypeOK, Shape, Idle, Busy
<1>10. CASE FailureChanges
  BY <1>1, <1>10 DEF FailureChanges, Typed, TypeOK, Shape, Active
<1>11. ASSUME NEW c \in Cause, Elapse(c) PROVE Typed'
  <2>1. case' = [case EXCEPT ![c].over = TRUE] /\ UNCHANGED <<failure, latest, sup, faults>>
        /\ sup.pc = "idle"
    BY <1>11 DEF Elapse
  <2>2. case' \in [Cause -> Case]
    BY <1>1, <2>1 DEF TypeOK, Case
  <2> QED BY <1>1, <2>1, <2>2 DEF Typed, TypeOK, Shape, Busy
<1> QED BY <1>2, <1>3, <1>5, <1>6, <1>7, <1>8, <1>9, <1>10, <1>11 DEF Next, SupervisorStep

\* The case, verdict and thread records keep their types: no more than two
\* bounded waits are ever recorded in an episode.
THEOREM TypeCorrect == Spec => []TypeOK
BY InitTyped, TypedStep, PTL DEF Spec, Typed

-----------------------------------------------------------------------------
(* The human is asked last. *)

Earned == EscalationEarned /\ Recorded

LEMMA EarnedStep == Typed /\ Earned /\ [Next]_vars => Earned'
<1> SUFFICES ASSUME Typed, Earned, [Next]_vars PROVE Earned'
  OBVIOUS
<1>1. /\ case \in [Cause -> Case] /\ latest \in Terminal /\ sup \in Sup
      /\ EscalationEarned /\ Recorded /\ Shape
  BY DEF Typed, TypeOK, Earned
<1>2. CASE UNCHANGED vars
  BY <1>1, <1>2 DEF vars, Earned, EscalationEarned, Escalated, Recorded
<1>3. ASSUME NEW c \in Cause, NEW status \in {"succeeded", "escalated"}, End(c, status),
             sup' = Done(c),
             status = "escalated" => Plan(c, case[c]) = "ask_human"
      PROVE  Earned'
  <2>1. case' = [case EXCEPT ![c] = NoCase]
    BY <1>3 DEF End
  <2>2. Recorded'
    BY <1>1, <1>3, <2>1 DEF Recorded, NoCase, Done, Sup
  <2>3. CASE latest' = latest
    BY <1>1, <2>2, <2>3 DEF Earned, EscalationEarned, Escalated
  <2>4. CASE status = "succeeded" /\ latest' # latest
    <3>1. latest'.status = "succeeded"
      BY <1>3, <2>4 DEF End, NoVerdict
    <3> QED BY <2>2, <3>1 DEF Earned, EscalationEarned, Escalated
  <2>5. CASE status = "escalated" /\ latest' # latest
    <3>1. latest'.cause = c /\ latest'.begun = case[c].begun /\ latest'.waits = case[c].waits
      BY <1>3, <2>5 DEF End
    <3>2. c \notin HumanOnly => case[c].tried = Optional /\ case[c].waits = MaxWaits
      BY <1>1, <1>3, <2>5, PlanIs
    <3>3. case[c].tried \subseteq case[c].begun /\ case[c].begun \subseteq Optional
      BY <1>1 DEF Recorded, Case
    <3>4. c \notin HumanOnly => case[c].begun = Optional
      BY <3>2, <3>3
    <3>5. EscalationEarned'
      BY <3>1, <3>2, <3>4 DEF EscalationEarned
    <3> QED BY <2>2, <3>5 DEF Earned
  <2> QED BY <2>3, <2>4, <2>5
<1>4. ASSUME UNCHANGED <<case, latest>>, sup'.pc # "attempt" PROVE Earned'
  BY <1>1, <1>4 DEF Earned, EscalationEarned, Escalated, Recorded
<1>5. ASSUME NEW c \in Cause, NEW skipped \in SUBSET Optional, Record(c, skipped),
             UNCHANGED latest, sup'.pc # "attempt"
      PROVE  Earned'
  BY <1>1, <1>5 DEF Record, Earned, EscalationEarned, Escalated, Recorded, Case
<1>6. ASSUME NEW c \in Cause, CaseStep(c) PROVE Earned'
  <2>1. CASE ClearCase(c) \/ Escalate(c)
    BY <1>3, <2>1 DEF ClearCase, Escalate
  <2>2. CASE NotDue(c) \/ Leave(c) \/ Resume(c)
    <3>1. UNCHANGED <<case, latest>> /\ sup' \in {Done(c), Chosen(c)}
      BY <2>2 DEF NotDue, Leave, Resume
    <3>2. sup'.pc # "attempt"
      BY <1>1, <3>1 DEF Done, Chosen, Sup
    <3> QED BY <1>4, <3>1, <3>2
  <2>3. CASE OpenCase(c)
    BY <1>1, <2>3 DEF OpenCase, OpenedCase, NoCase, Chosen, Sup, Earned, EscalationEarned,
       Escalated, Recorded
  <2>4. CASE TimeOut(c)
    <3>1. case' = [case EXCEPT ![c].status = "open", ![c].over = FALSE,
                              ![c].tried = @ \cup {"session_verify"}]
          /\ sup' = Chosen(c) /\ latest' = latest /\ case[c].status = "running"
      BY <2>4 DEF TimeOut
    <3>2. "session_verify" \in case[c].begun
      BY <1>1, <3>1 DEF Recorded
    <3> QED BY <1>1, <3>1, <3>2 DEF Chosen, Sup, Case, Earned, EscalationEarned, Escalated,
               Recorded
  <2>5. CASE Skip(c)
    <3>1. sup'.pc # "attempt" /\ Record(c, Unrecorded(c)) /\ latest' = latest
      BY <2>5 DEF Skip
    <3> QED BY <1>5, <3>1, UnrecordedTyped
  <2>6. CASE Start(c)
    <3> DEFINE k == Plan(c, case[c])
    <3>1. /\ case' = [case EXCEPT ![c].status = "running", ![c].over = FALSE,
                                  ![c].begun = @ \cup ({k} \cap Optional)]
          /\ sup' = [sup EXCEPT !.pc = "attempt", !.cap = k]
          /\ latest' = latest /\ sup.cause = c
      BY <2>6 DEF Start
    <3>2. "session_verify" \in case[c].tried \cup ({k} \cap Optional)
      <4>1. k # "ask_human" /\ case[c] \in Case
        BY <1>1, <2>6 DEF Start
      <4>2. k \in Optional \/ k = "bounded_wait"
        BY <4>1, PlanIs DEF Capability
      <4> QED BY <4>1, <4>2, PlanIs, OptionalIs
    <3> HIDE DEF k
    <3>3. case[c].tried \subseteq case[c].begun
      BY <1>1 DEF Recorded
    <3>4. /\ case'[c].tried = case[c].tried
          /\ case'[c].begun = case[c].begun \cup ({k} \cap Optional)
          /\ \A d \in Cause \ {c} : case'[d] = case[d]
      BY <1>1, <3>1 DEF Case
    <3>5. sup'.cap = k /\ sup'.cause = c
      BY <1>1, <3>1 DEF Sup
    <3>6. Recorded'
      BY <1>1, <3>2, <3>3, <3>4, <3>5 DEF Recorded
    <3> QED BY <1>1, <3>1, <3>6 DEF Earned, EscalationEarned, Escalated
  <2>7. CASE Attempt(c)
    <3>1. /\ sup.pc = "attempt" /\ sup.cause = c /\ latest' = latest
          /\ sup' = [sup EXCEPT !.pc = "conclude"]
          /\ case' = IF sup.cap = "bounded_wait"
                     THEN [case EXCEPT ![c].waits = @ + 1]
                     ELSE [case EXCEPT ![c].tried = @ \cup {sup.cap}]
      BY <2>7 DEF Attempt
    <3>2. sup.cap # "bounded_wait" => sup.cap \in case[c].begun
      BY <1>1, <3>1 DEF Recorded, Sup, Capability
    <3> QED BY <1>1, <3>1, <3>2 DEF Sup, Case, Earned, EscalationEarned, Escalated, Recorded
  <2>8. CASE Conclude(c)
    <3>1. /\ latest' = latest /\ sup' = Done(c)
          /\ case' = [case EXCEPT ![c].status =
                          IF sup.cap = "bounded_wait" THEN "waiting" ELSE "open"]
      BY <2>8 DEF Conclude
    <3> QED BY <1>1, <3>1 DEF Done, Sup, Case, Earned, EscalationEarned, Escalated, Recorded
  <2> QED BY <1>6, <2>1, <2>2, <2>3, <2>4, <2>5, <2>6, <2>7, <2>8 DEF CaseStep
<1>7. ASSUME NEW seen, Sweep(seen) PROVE Earned'
  <2>1. sup'.pc = "next" /\ case' = case /\ latest' = [latest EXCEPT !.fresh = FALSE]
    BY <1>7 DEF Sweep, Idle
  <2> QED BY <1>1, <2>1 DEF Earned, EscalationEarned, Escalated, Recorded, Terminal
<1>8. CASE BeginSweep \/ BlindSweep
  BY <1>7, <1>8 DEF BeginSweep, BlindSweep
<1>9. CASE CasesDone \/ EndSweep
  <2>1. UNCHANGED <<case, latest>>
    BY <1>9 DEF CasesDone, EndSweep
  <2>2. Idle.pc = "idle"
    BY DEF Idle
  <2>3. sup'.pc # "attempt"
    BY <1>1, <1>9, <2>2 DEF CasesDone, EndSweep, Sup
  <2> QED BY <1>4, <2>1, <2>3
<1>10. CASE SweepFails
  <2>1. sup'.pc # "attempt" /\ latest' = latest
    BY <1>10 DEF SweepFails, Idle
  <2>2. CASE UNCHANGED case
    BY <1>4, <2>1, <2>2
  <2>3. ASSUME sup.pc = "plan", NEW k \in Unrecorded(sup.cause),
               Record(sup.cause, UnrecordedTo(sup.cause, k))
        PROVE  Earned'
    BY <1>1, <1>5, <2>1, <2>3, UnrecordedTyped DEF Shape, Busy
  <2> QED BY <1>10, <2>2, <2>3 DEF SweepFails
<1>11. CASE FailureChanges
  BY <1>1, <1>11 DEF FailureChanges, Earned, EscalationEarned, Escalated, Recorded
<1>12. ASSUME NEW c \in Cause, Elapse(c) PROVE Earned'
  <2>1. case' = [case EXCEPT ![c].over = TRUE] /\ UNCHANGED <<latest, sup>>
    BY <1>12 DEF Elapse
  <2> QED BY <1>1, <2>1 DEF Earned, EscalationEarned, Escalated, Recorded, Case
<1> QED BY <1>2, <1>6, <1>8, <1>9, <1>10, <1>11, <1>12 DEF Next, SupervisorStep

\* The human is asked only for what no machine can do, or after every
\* capability was begun or found unavailable and two waits, whatever sweeps
\* died or saw nothing in between.
THEOREM EscalationEarnedHolds == Spec => []EscalationEarned
<1>1. Init => Earned
  <2>1. NoCase.tried = {} /\ NoCase.status # "running" /\ NoVerdict.status = "none"
        /\ Idle.pc = "idle"
    BY DEF NoCase, NoVerdict, Idle
  <2> QED BY <2>1 DEF Init, Earned, EscalationEarned, Escalated, Recorded
<1>2. Earned => EscalationEarned
  BY DEF Earned
<1> QED BY InitTyped, TypedStep, EarnedStep, <1>1, <1>2, PTL DEF Spec

-----------------------------------------------------------------------------
(* Without faults no case is left running. *)

Attended ==
    faults = 0 => \A c \in Cause : case[c].status = "running" =>
                      sup.pc \in {"attempt", "conclude"} /\ sup.cause = c

LEMMA AttendedStep == Typed /\ Attended /\ [Next]_vars => Attended'
<1> SUFFICES ASSUME Typed, Attended, [Next]_vars PROVE Attended'
  OBVIOUS
<1>1. case \in [Cause -> Case] /\ sup \in Sup /\ Attended /\ faults \in Nat
  BY DEF Typed, TypeOK
<1>2. CASE UNCHANGED vars
  BY <1>1, <1>2 DEF vars, Attended
<1>3. ASSUME NEW c \in Cause, CaseStep(c) PROVE Attended'
  <2>1. CASE ClearCase(c) \/ Escalate(c)
    <3>1. case' = [case EXCEPT ![c] = NoCase] /\ faults' = faults
          /\ sup.pc \notin {"attempt", "conclude"}
      BY <2>1 DEF ClearCase, Escalate, End, At
    <3> QED BY <1>1, <3>1 DEF Attended, NoCase
  <2>2. CASE NotDue(c) \/ Leave(c) \/ Resume(c)
    BY <1>1, <2>2 DEF NotDue, Leave, Resume, At, Attended
  <2>3. CASE OpenCase(c)
    BY <1>1, <2>3 DEF OpenCase, At, OpenedCase, NoCase, Attended
  <2>4. CASE TimeOut(c)
    BY <1>1, <2>4 DEF TimeOut, At, Attended, Case
  <2>5. CASE Skip(c)
    BY <1>1, <2>5 DEF Skip, Record, Attended, Case
  <2>6. CASE Start(c)
    <3> DEFINE k == Plan(c, case[c])
    <3>1. /\ case' = [case EXCEPT ![c].status = "running", ![c].over = FALSE,
                                  ![c].begun = @ \cup ({k} \cap Optional)]
          /\ sup' = [sup EXCEPT !.pc = "attempt", !.cap = k]
          /\ faults' = faults /\ sup.cause = c /\ sup.pc = "plan"
      BY <2>6 DEF Start
    <3> HIDE DEF k
    <3> QED BY <1>1, <3>1 DEF Attended, Sup, Case
  <2>7. CASE Attempt(c)
    <3>1. /\ sup.pc = "attempt" /\ sup.cause = c /\ faults' = faults
          /\ sup' = [sup EXCEPT !.pc = "conclude"]
          /\ case' = IF sup.cap = "bounded_wait"
                     THEN [case EXCEPT ![c].waits = @ + 1]
                     ELSE [case EXCEPT ![c].tried = @ \cup {sup.cap}]
      BY <2>7 DEF Attempt
    <3> QED BY <1>1, <3>1 DEF Attended, Sup, Case
  <2>8. CASE Conclude(c)
    <3>1. /\ sup.cause = c /\ faults' = faults
          /\ case' = [case EXCEPT ![c].status =
                          IF sup.cap = "bounded_wait" THEN "waiting" ELSE "open"]
      BY <2>8 DEF Conclude
    <3> QED BY <1>1, <3>1 DEF Attended, Case
  <2> QED BY <1>3, <2>1, <2>2, <2>3, <2>4, <2>5, <2>6, <2>7, <2>8 DEF CaseStep
<1>4. CASE BeginSweep \/ CasesDone \/ EndSweep
  BY <1>1, <1>4 DEF BeginSweep, Sweep, CasesDone, EndSweep, Attended
<1>5. CASE BlindSweep \/ SweepFails
  BY <1>1, <1>5 DEF BlindSweep, SweepFails, Attended
<1>6. CASE FailureChanges
  BY <1>1, <1>6 DEF FailureChanges, Attended
<1>7. ASSUME NEW c \in Cause, Elapse(c) PROVE Attended'
  BY <1>1, <1>7 DEF Elapse, Attended, Case
<1> QED BY <1>2, <1>3, <1>4, <1>5, <1>6, <1>7 DEF Next, SupervisorStep

\* Between two sweeps no case is left running, so no case waits for the
\* 15-minute timeout, unless a sweep died or saw nothing.
THEOREM NoOrphanRunningHolds == Spec => []NoOrphanRunning
<1>1. Init => Attended
  BY DEF Init, Attended, NoCase
<1>2. Attended => NoOrphanRunning
  BY DEF Attended, NoOrphanRunning
<1> QED BY InitTyped, TypedStep, AttendedStep, <1>1, <1>2, PTL DEF Spec
-----------------------------------------------------------------------------
(* Recovery implements RecoveryEpisode. *)

\* What is recorded is never handed back.
LEMMA LeftShrinks ==
    ASSUME NEW r \in Case, NEW s \in Case, r.tried \subseteq s.tried, r.waits <= s.waits
    PROVE  Left(s) \subseteq Left(r)
BY DEF Left, Case, Waits, MaxWaits

LEMMA LeftReplaced ==
    ASSUME NEW T, NEW r \in [active : BOOLEAN, left : SUBSET T],
           NEW s \in [active : BOOLEAN, left : SUBSET T], r.active, s.active
    PROVE  s = [r EXCEPT !.left = s.left]
OBVIOUS

\* An active case that stays active, with no less recorded: a Spend.
LEMMA SpendStep ==
    ASSUME NEW c \in Cause, case \in [Cause -> Case], case' \in [Cause -> Case],
           Active(c), case'[c].status # "none",
           case[c].tried \subseteq case'[c].tried, case[c].waits <= case'[c].waits,
           \A d \in Cause \ {c} : case'[d] = case[d],
           UNCHANGED latest
    PROVE  Episode!EpisodeNext
<1>1. Left(case'[c]) \subseteq Left(case[c])
  BY LeftShrinks
<1>2. EpisodeOf(case[c]) = [active |-> TRUE, left |-> Left(case[c])]
      /\ EpisodeOf(case'[c]) = [active |-> TRUE, left |-> Left(case'[c])]
  BY DEF EpisodeOf, Active
<1>3. \A d \in Cause \ {c} : EpisodeOf(case'[d]) = EpisodeOf(case[d])
  OBVIOUS
<1> DEFINE epi  == [d \in Cause |-> EpisodeOf(case[d])]
           rest == Left(case'[c])
<1>4. EpisodeOf(case[c]) \in [active : BOOLEAN, left : SUBSET Left(case[c])]
      /\ EpisodeOf(case'[c]) \in [active : BOOLEAN, left : SUBSET Left(case[c])]
  BY <1>1, <1>2
<1>5. EpisodeOf(case'[c]) = [EpisodeOf(case[c]) EXCEPT !.left = rest]
  <2>1. EpisodeOf(case[c]).active /\ EpisodeOf(case'[c]).active
        /\ EpisodeOf(case'[c]).left = rest
    BY <1>2
  <2> HIDE DEF EpisodeOf, rest
  <2> QED BY <1>4, <2>1, LeftReplaced
<1>6. epi[c] = EpisodeOf(case[c])
  OBVIOUS
<1>7. rest \in SUBSET epi[c].left /\ epi[c].active
  BY <1>1, <1>2, <1>6
<1> HIDE DEF EpisodeOf, rest
<1>8. epi' = [epi EXCEPT ![c] = EpisodeOf(case'[c])]
  BY <1>3
<1> HIDE DEF epi
<1>9. epi' = [epi EXCEPT ![c].left = rest]
  BY <1>5, <1>6, <1>8
<1>10. Episode!Spend(c)
  BY <1>7, <1>9 DEF Episode!Spend, epi
<1> QED BY <1>10 DEF Episode!EpisodeNext

LEMMA AbstractEnd ==
    ASSUME Typed, NEW c \in Cause, ClearCase(c) \/ Escalate(c)
    PROVE  Episode!EpisodeNext
<1>1. case \in [Cause -> Case] /\ case[c] \in Case /\ Active(c)
  BY DEF Typed, TypeOK, Shape, Busy, ClearCase, Escalate, At
<1>2. EpisodeOf(case[c]) = [active |-> TRUE, left |-> Left(case[c])]
  BY <1>1 DEF EpisodeOf, Active
<1>3. EpisodeOf(NoCase) = Episode!NoEpisode
  BY DEF EpisodeOf, NoCase, Episode!NoEpisode
<1>4. ASSUME NEW status \in {"succeeded", "escalated"}, End(c, status)
      PROVE  Episode!Finished(c, status)
  <2>1. case' = [case EXCEPT ![c] = NoCase]
    BY <1>4 DEF End
  <2>2. (latest'.status = status /\ latest'.cause = c) \/ latest' = latest
    <3> DEFINE done == [NoVerdict EXCEPT !.status = status, !.cause = c, !.fresh = TRUE]
    <3>1. \/ latest' = latest
          \/ latest' = done
          \/ /\ latest' = [status |-> status, cause |-> c, begun |-> case[c].begun,
                           waits |-> case[c].waits, fresh |-> TRUE]
      BY <1>4 DEF End
    <3>2. done.status = status /\ done.cause = c
      BY RecordsTyped DEF Terminal
    <3> HIDE DEF done
    <3> QED BY <3>1, <3>2
  <2> HIDE DEF EpisodeOf
  <2>3. [d \in Cause |-> EpisodeOf(case[d])]' =
            [[d \in Cause |-> EpisodeOf(case[d])] EXCEPT ![c] = Episode!NoEpisode]
    BY <1>1, <1>3, <2>1
  <2> QED BY <1>2, <2>2, <2>3 DEF Episode!Finished
<1>5. CASE ClearCase(c)
  BY <1>4, <1>5 DEF ClearCase, Episode!Succeed, Episode!EpisodeNext
<1>6. CASE Escalate(c)
  <2>1. c \in HumanOnly \/ (case[c].tried = Optional /\ case[c].waits = MaxWaits)
    BY <1>1, <1>6, PlanIs DEF Escalate
  <2>2. case[c].tried = Optional /\ case[c].waits = MaxWaits => Left(case[c]) = {}
    BY DEF Left, Waits, MaxWaits
  <2>3. Episode!AskHuman(c)
    BY <1>2, <1>4, <1>6, <2>1, <2>2 DEF Escalate, Episode!AskHuman
  <2> QED BY <2>3 DEF Episode!EpisodeNext
<1> QED BY <1>5, <1>6

LEMMA AbstractOpen ==
    ASSUME Typed, NEW c \in Cause, OpenCase(c)
    PROVE  Episode!EpisodeNext
<1>1. case \in [Cause -> Case] /\ latest \in Terminal
      /\ case' = [case EXCEPT ![c] = OpenedCase] /\ latest' = latest
      /\ ~Active(c) /\ ~Blocked(c)
  BY DEF Typed, TypeOK, OpenCase
<1>2. EpisodeOf(OpenedCase) = [active |-> TRUE, left |-> Optional \cup DOMAIN Waits]
  <2>1. OpenedCase.status = "open" /\ OpenedCase.tried = {} /\ OpenedCase.waits = 0
    BY DEF OpenedCase, NoCase
  <2>2. {w \in DOMAIN Waits : 0 < Waits[w]} = DOMAIN Waits
    BY DEF Waits
  <2> QED BY <2>1, <2>2 DEF EpisodeOf, Left
<1>3. EpisodeOf(case[c]).active = FALSE
  BY <1>1 DEF EpisodeOf, Active
<1> HIDE DEF EpisodeOf
<1>4. [d \in Cause |-> EpisodeOf(case[d])]' =
          [[d \in Cause |-> EpisodeOf(case[d])] EXCEPT
              ![c] = [active |-> TRUE, left |-> Optional \cup DOMAIN Waits]]
  BY <1>1, <1>2
<1>5. [status |-> latest.status, cause |-> latest.cause]
          # [status |-> "escalated", cause |-> c]
  BY <1>1 DEF Blocked, Escalated
<1>6. Episode!Open(c)
  BY <1>1, <1>3, <1>4, <1>5 DEF Episode!Open
<1> QED BY <1>6 DEF Episode!EpisodeNext

LEMMA AbstractWork ==
    ASSUME Typed, Typed', NEW c \in Cause,
           TimeOut(c) \/ Skip(c) \/ Start(c) \/ Attempt(c) \/ Conclude(c) \/ Elapse(c)
    PROVE  Episode!EpisodeNext
<1>1. /\ case \in [Cause -> Case] /\ case' \in [Cause -> Case] /\ case[c] \in Case
      /\ UNCHANGED latest
  BY DEF Typed, TypeOK, TimeOut, Skip, Start, Attempt, Conclude, Elapse
<1>2. Active(c)
  BY DEF Typed, Shape, Busy, Active, TimeOut, Skip, Start, Attempt, Conclude, Elapse
<1>3. /\ \A d \in Cause \ {c} : case'[d] = case[d]
      /\ case'[c].status # "none"
      /\ case[c].tried \subseteq case'[c].tried
      /\ case[c].waits <= case'[c].waits
  <2>0. case[c].status # "none" /\ case[c].waits \in Int
    BY <1>1, <1>2 DEF Active, Case
  <2>1. CASE TimeOut(c)
    BY <1>1, <2>0, <2>1 DEF TimeOut, Case
  <2>2. CASE Skip(c)
    BY <1>1, <2>0, <2>2 DEF Skip, Record, Case
  <2>3. CASE Start(c)
    <3> DEFINE k == Plan(c, case[c])
    <3>1. case' = [case EXCEPT ![c].status = "running", ![c].over = FALSE,
                               ![c].begun = @ \cup ({k} \cap Optional)]
      BY <2>3 DEF Start
    <3> HIDE DEF k
    <3> QED BY <1>1, <2>0, <3>1 DEF Case
  <2>4. CASE Attempt(c)
    BY <1>1, <2>0, <2>4 DEF Attempt, Case
  <2>5. CASE Conclude(c)
    BY <1>1, <2>0, <2>5 DEF Conclude, Case
  <2>6. CASE Elapse(c)
    BY <1>1, <2>0, <2>6 DEF Elapse, Case
  <2> QED BY <2>1, <2>2, <2>3, <2>4, <2>5, <2>6
<1> QED BY <1>1, <1>2, <1>3, SpendStep

LEMMA AbstractStep ==
    Typed /\ Typed' /\ [Next]_vars => [Episode!EpisodeNext]_(Episode!episodeVars)
<1> SUFFICES ASSUME Typed, Typed', [Next]_vars
             PROVE  [Episode!EpisodeNext]_(Episode!episodeVars)
  OBVIOUS
<1>1. ASSUME UNCHANGED case, latest'.status = latest.status, latest'.cause = latest.cause
      PROVE  UNCHANGED Episode!episodeVars
  BY <1>1 DEF Episode!episodeVars
<1>2. CASE UNCHANGED vars
  BY <1>1, <1>2 DEF vars
<1>3. ASSUME NEW c \in Cause, CaseStep(c)
      PROVE  [Episode!EpisodeNext]_(Episode!episodeVars)
  <2>1. CASE NotDue(c) \/ Resume(c) \/ Leave(c)
    BY <1>1, <2>1 DEF NotDue, Resume, Leave
  <2> QED BY <1>3, <2>1, AbstractEnd, AbstractOpen, AbstractWork DEF CaseStep
<1>4. CASE BeginSweep \/ BlindSweep
  <2>1. UNCHANGED case /\ latest' = [latest EXCEPT !.fresh = FALSE] /\ latest \in Terminal
    BY <1>4 DEF BeginSweep, BlindSweep, Sweep, Typed, TypeOK
  <2>2. latest'.status = latest.status /\ latest'.cause = latest.cause
    BY <2>1 DEF Terminal
  <2> QED BY <1>1, <2>1, <2>2
<1>5. CASE CasesDone \/ EndSweep \/ FailureChanges
  BY <1>1, <1>5 DEF CasesDone, EndSweep, FailureChanges
<1>6. CASE SweepFails
  <2>1. CASE UNCHANGED case
    BY <1>1, <1>6, <2>1 DEF SweepFails
  <2>2. ASSUME sup.pc = "plan", NEW k \in Unrecorded(sup.cause),
               Record(sup.cause, UnrecordedTo(sup.cause, k))
        PROVE  Episode!EpisodeNext
    <3>1. sup.cause \in Cause /\ Active(sup.cause)
      BY <2>2 DEF Typed, Shape, Busy
    <3>2. case \in [Cause -> Case] /\ case' \in [Cause -> Case] /\ UNCHANGED latest
      BY <1>6 DEF Typed, TypeOK, SweepFails
    <3> DEFINE c == sup.cause
    <3>3. case[c].waits \in Int /\ case[c] \in Case
      BY <3>1, <3>2 DEF Case
    <3> HIDE DEF c
    <3>4. case' = [case EXCEPT ![c].tried = @ \cup UnrecordedTo(c, k),
                              ![c].begun = @ \cup UnrecordedTo(c, k)]
      BY <2>2 DEF Record, c
    <3>5. /\ case'[c].status = case[c].status /\ case'[c].waits = case[c].waits
          /\ case[c].tried \subseteq case'[c].tried
          /\ \A d \in Cause \ {c} : case'[d] = case[d]
      BY <3>1, <3>2, <3>3, <3>4 DEF Case
    <3>6. c \in Cause /\ Active(c)
      BY <3>1 DEF c
    <3> QED BY <3>2, <3>3, <3>5, <3>6, SpendStep DEF Active
  <2> QED BY <1>6, <2>1, <2>2 DEF SweepFails
<1>7. ASSUME NEW c \in Cause, Elapse(c)
      PROVE  [Episode!EpisodeNext]_(Episode!episodeVars)
  BY <1>7, AbstractWork
<1> QED BY <1>2, <1>3, <1>4, <1>5, <1>6, <1>7 DEF Next, SupervisorStep

\* Recovery keeps what the attention gate relies on: tries are never handed
\* back, the human is asked only when none is left or no machine can act, and
\* never has two episodes of one cause at a time.
THEOREM ImplementsEpisodeHolds == Spec => ImplementsEpisode
<1>1. Init => Episode!EpisodeInit
  <2>1. EpisodeOf(NoCase) = Episode!NoEpisode
    BY DEF EpisodeOf, NoCase, Episode!NoEpisode
  <2>2. NoVerdict.status = "none" /\ NoVerdict.cause = NoCause
    BY DEF NoVerdict
  <2> QED BY <2>1, <2>2 DEF Init, Episode!EpisodeInit
<1> QED BY <1>1, InitTyped, TypedStep, AbstractStep, PTL
        DEF Spec, ImplementsEpisode, Episode!EpisodeSpec

-----------------------------------------------------------------------------
(* What follows from the promise, for recovery and for whoever relies on it.          *)

Episodes == [Cause -> [active : BOOLEAN, left : SUBSET (Optional \cup DOMAIN Waits)]]
Verdicts == [status : {"none", "succeeded", "escalated"}, cause : Cause \cup {NoCause}]

LEMMA MappedTyped ==
    ASSUME Typed
    PROVE  /\ [c \in Cause |-> EpisodeOf(case[c])] \in Episodes
           /\ [status |-> latest.status, cause |-> latest.cause] \in Verdicts
<1>1. \A c \in Cause : EpisodeOf(case[c]) \in
             [active : BOOLEAN, left : SUBSET (Optional \cup DOMAIN Waits)]
  BY DEF EpisodeOf, Left
<1> QED BY <1>1 DEF Episodes, Verdicts, Typed, TypeOK, Terminal

LEMMA AskedAloneStep ==
    ASSUME Typed, Episode!AskedAlone, [Episode!EpisodeNext]_(Episode!episodeVars)
    PROVE  Episode!AskedAlone'
<1> DEFINE epi == [c \in Cause |-> EpisodeOf(case[c])]
           ver == [status |-> latest.status, cause |-> latest.cause]
<1>0. epi \in Episodes /\ ver \in Verdicts
  BY MappedTyped
<1>1. ver.status = "escalated" => ~epi[ver.cause].active
  BY DEF Episode!AskedAlone, Episode!Asked
<1> SUFFICES ASSUME ver'.status = "escalated" PROVE ~epi'[ver'.cause].active
  BY DEF Episode!AskedAlone, Episode!Asked
<1>2. CASE UNCHANGED <<epi, ver>>
  BY <1>1, <1>2
<1>3. ASSUME NEW c \in Cause, Episode!Open(c) PROVE ~epi'[ver'.cause].active
  <2>1. /\ ver' = ver /\ ver # [status |-> "escalated", cause |-> c]
        /\ epi' = [epi EXCEPT ![c] = [active |-> TRUE, left |-> Optional \cup DOMAIN Waits]]
    BY <1>3 DEF Episode!Open
  <2> HIDE DEF epi, ver
  <2>2. ver.cause # c
    BY <1>0, <2>1 DEF Verdicts
  <2> QED BY <1>0, <1>1, <2>1, <2>2 DEF Episodes
<1>4. ASSUME NEW c \in Cause, Episode!Spend(c) PROVE ~epi'[ver'.cause].active
  <2>1. ver' = ver /\ \E left : epi' = [epi EXCEPT ![c].left = left]
    BY <1>4 DEF Episode!Spend
  <2> HIDE DEF epi, ver
  <2> QED BY <1>0, <1>1, <2>1 DEF Episodes
<1>5. ASSUME NEW c \in Cause, NEW status, Episode!Finished(c, status)
      PROVE  ~epi'[ver'.cause].active
  <2>1. /\ ver' \in {[status |-> status, cause |-> c], ver}
        /\ epi' = [epi EXCEPT ![c] = [active |-> FALSE, left |-> {}]]
    BY <1>5 DEF Episode!Finished, Episode!NoEpisode
  <2> HIDE DEF epi, ver
  <2> QED BY <1>0, <1>1, <2>1 DEF Episodes
<1> QED BY <1>2, <1>3, <1>4, <1>5
        DEF Episode!EpisodeNext, Episode!episodeVars, Episode!Succeed, Episode!AskHuman

\* While the member is asked to act on a cause, recovery has no case of that cause:
\* nothing but the promise of RecoveryEpisode is used.
THEOREM AskedAloneHolds == Spec => []Episode!AskedAlone
<1>1. Init => Episode!AskedAlone
  BY DEF Init, NoVerdict, Episode!AskedAlone, Episode!Asked
<1> QED BY <1>1, InitTyped, TypedStep, AbstractStep, AskedAloneStep, PTL DEF Spec

\* The capability about to be attempted is one without an attempt record.
Untried ==
    sup.pc = "attempt" /\ sup.cap \in Optional => sup.cap \notin case[sup.cause].tried

LEMMA UntriedStep == Typed /\ Untried /\ [Next]_vars => Untried'
<1> SUFFICES ASSUME Typed, Untried, [Next]_vars, sup'.pc = "attempt", sup'.cap \in Optional
             PROVE  sup'.cap \notin case'[sup'.cause].tried
  BY DEF Untried
<1>0. case \in [Cause -> Case] /\ sup \in Sup
  BY DEF Typed, TypeOK
<1>1. ASSUME NEW c \in Cause, Start(c) PROVE sup'.cap \notin case'[sup'.cause].tried
  <2> DEFINE k == Plan(c, case[c])
  <2>1. /\ case' = [case EXCEPT ![c].status = "running", ![c].over = FALSE,
                                ![c].begun = @ \cup ({k} \cap Optional)]
        /\ sup' = [sup EXCEPT !.pc = "attempt", !.cap = k] /\ sup.cause = c
    BY <1>1 DEF Start
  <2>2. k \in Optional => k \notin case[c].tried
    BY <1>0, PlanIs
  <2> HIDE DEF k
  <2>3. sup'.cap = k /\ sup'.cause = c /\ case'[c].tried = case[c].tried
    BY <1>0, <2>1 DEF Sup, Case
  <2> QED BY <2>2, <2>3
<1>2. ASSUME NEW c \in Cause, CaseStep(c), ~Start(c) PROVE sup'.pc # "attempt"
  <2>1. CASE ClearCase(c) \/ NotDue(c) \/ Resume(c) \/ TimeOut(c) \/ Leave(c) \/ OpenCase(c)
             \/ Escalate(c) \/ Conclude(c)
    <3>1. sup' \in {Done(c), Chosen(c)}
      BY <2>1 DEF ClearCase, NotDue, Resume, TimeOut, Leave, OpenCase, Escalate, Conclude
    <3> QED BY <1>0, <3>1 DEF Done, Chosen, Sup
  <2>2. CASE Skip(c)
    BY <2>2 DEF Skip
  <2>3. CASE Attempt(c)
    BY <1>0, <2>3 DEF Attempt, Sup
  <2> QED BY <1>2, <2>1, <2>2, <2>3 DEF CaseStep
<1>3. CASE BeginSweep \/ BlindSweep \/ CasesDone \/ EndSweep \/ SweepFails
  <2>1. ASSUME NEW seen, Sweep(seen) PROVE sup'.pc = "next"
    BY <2>1 DEF Sweep, Idle
  <2>2. CasesDone => sup'.pc = "next"
    BY <1>0 DEF CasesDone, Sup
  <2>3. EndSweep \/ SweepFails => sup'.pc = "idle"
    BY DEF EndSweep, SweepFails, Idle
  <2> QED BY <1>3, <2>1, <2>2, <2>3 DEF BeginSweep, BlindSweep
<1>4. ASSUME NEW c \in Cause, Elapse(c) PROVE sup'.pc # "attempt"
  BY <1>4 DEF Elapse
<1>5. CASE FailureChanges \/ UNCHANGED vars
  BY <1>5 DEF FailureChanges, vars, Untried
<1> QED BY <1>1, <1>2, <1>3, <1>4, <1>5 DEF Next, SupervisorStep

\* An attempt that is recorded takes one of the tries that were left; so an episode
\* records at most seven, whatever its sweeps meet (MAX_BOUNDED_WAITS and one record
\* for each capability).
AttemptSpends ==
    [][\A c \in Cause : Attempt(c) => \E try \in Left(case[c]) : try \notin Left(case[c])']_vars

THEOREM AttemptSpendsHolds == Spec => AttemptSpends
<1>1. ASSUME Typed, Untried, NEW c \in Cause, Attempt(c)
      PROVE  \E try \in Left(case[c]) : try \notin Left(case[c])'
  <2>0. case \in [Cause -> Case] /\ sup \in Sup /\ sup.pc = "attempt" /\ sup.cause = c
    BY <1>1 DEF Typed, TypeOK, Attempt
  <2>1. CASE sup.cap = "bounded_wait"
    <3>1. case[c].waits \in {0, 1} /\ case'[c].waits = case[c].waits + 1
      BY <1>1, <2>0, <2>1 DEF Attempt, Typed, Shape, Case, MaxWaits
    <3>2. \E w \in DOMAIN Waits : Waits[w] = case[c].waits + 1
      BY <3>1 DEF Waits
    <3>3. PICK w \in DOMAIN Waits : Waits[w] = case[c].waits + 1
      BY <3>2
    <3>4. w \in Left(case[c])
      BY <3>1, <3>3 DEF Left
    <3>5. w \notin Optional
      BY <3>3, OptionalIs DEF Waits
    <3>6. w \notin Left(case'[c])
      BY <3>1, <3>3, <3>5 DEF Left
    <3> QED BY <3>4, <3>6
  <2>2. CASE sup.cap \in Optional
    <3>1. case'[c].tried = case[c].tried \cup {sup.cap} /\ sup.cap \notin case[c].tried
      BY <1>1, <2>0, <2>2, OptionalIs DEF Attempt, Untried, Case
    <3>2. sup.cap \notin DOMAIN Waits
      BY <2>2, OptionalIs DEF Waits
    <3>3. sup.cap \in Left(case[c]) /\ sup.cap \notin Left(case'[c])
      BY <2>2, <3>1, <3>2 DEF Left
    <3> QED BY <3>3
  <2> QED BY <2>0, <2>1, <2>2 DEF Sup, Capability
<1>2. Init => Typed /\ Untried
  BY InitTyped DEF Init, Idle, Untried
<1>3. Typed /\ Untried /\ [Next]_vars =>
        [\A c \in Cause : Attempt(c) => \E try \in Left(case[c]) : try \notin Left(case[c])']_vars
  BY <1>1
<1> QED BY <1>2, <1>3, TypedStep, UntriedStep, PTL DEF Spec, AttemptSpends
=============================================================================
