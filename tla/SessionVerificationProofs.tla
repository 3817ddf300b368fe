---------------------- MODULE SessionVerificationProofs ----------------------
(***************************************************************************)
(* Theorems about SessionVerification for every set of users, cycles and   *)
(* threads, every completion and every choice of the times.                *)
(*                                                                         *)
(* All of them rest on one lemma, RowStepCases: whatever step the server   *)
(* takes, the table changes in one of five ways.                           *)
(***************************************************************************)
EXTENDS SessionVerification, TLAPS

\* The five ways a step may leave the table.
RowExpires == \E us \in SUBSET User : row' = Expire(us, clock)

RowOpens ==
    \E c \in Cycle, u \in User, t \in Trigger, n \in Nat :
        /\ row[c].lifecycle = "absent"
        /\ ActiveOf(u) = {}
        /\ \E w \in Worker : /\ job[w].pc = "insert" /\ Finish(w)
                             /\ u = job[w].user /\ t = job[w].trigger /\ n = job[w].now
        /\ clock' = clock
        /\ row' = [row EXCEPT ![c] = NewRow(u, t, n)]

RowClaimed ==
    \E c \in Cycle :
        /\ row[c].lifecycle \in Claimable
        /\ row' = [row EXCEPT ![c] = Claimed(@)]

RowAdvances ==
    \E c \in Cycle, s \in MidCycle :
        /\ row[c].lifecycle \in AdvanceFrom(s)
        /\ row' = [row EXCEPT ![c].lifecycle = s]

RowCloses ==
    \E c \in Cycle, l \in Terminal, r \in Reason :
        /\ row[c].lifecycle \in Active
        /\ row' = [row EXCEPT ![c] = Closed(@, l, r)]

RowStep5 == RowExpires \/ RowOpens \/ RowClaimed \/ RowAdvances \/ RowCloses

\* The reason and the lifecycle a completion stores are of their types.
LEMMA FinalTypes ==
    ASSUME NEW a \in CompletionArgs
    PROVE  FinalReason(a) \in Reason /\ FinalLifecycle(a) \in Terminal
  <1>1. FinalReason(a) \in Reason
    BY DEF FinalReason, CompletionArgs, Reason, Terminal, Unset
  <1>2. FinalLifecycle(a) \in Terminal
    BY <1>1 DEF FinalLifecycle, LifecycleFor, CompletionArgs, Reason, Terminal, Unset
  <1>3. QED
    BY <1>1, <1>2

\* Every step changes the table in one of the five ways or not at all.
LEMMA RowStepCases ==
    ASSUME TypeOK, [Next]_vars
    PROVE  RowStep5 \/ UNCHANGED row
  <1>1. ASSUME NEW w \in Worker, RequestStep(w)
        PROVE  RowStep5 \/ UNCHANGED row
    <2>1. ASSUME NEW u \in User, NEW t \in Trigger, BeginRequest(w, u, t)
          PROVE  RowStep5
      BY <2>1 DEF BeginRequest, RowStep5, RowExpires
    <2>2. ASSUME Insert(w)
          PROVE  RowStep5 \/ UNCHANGED row
      <3>1. job[w].user \in User /\ job[w].trigger \in Trigger /\ job[w].now \in Nat
        BY <2>2 DEF Insert, TypeOK, Requesting, Job
      <3>2. QED
        BY <2>2, <3>1 DEF Insert, IndexAllows, RowStep5, RowOpens
    <2>3. CASE FindActive(w) \/ CheckThrottle(w) \/ ReadRaced(w) \/ RespondError(w)
      BY <2>3 DEF FindActive, CheckThrottle, ReadRaced, RespondError
    <2>4. QED
      BY <1>1, <2>1, <2>2, <2>3 DEF RequestStep
  <1>2. ASSUME NEW w \in Worker, CompleteStep(w)
        PROVE  RowStep5 \/ UNCHANGED row
    <2>1. ASSUME WriteTerminal(w)
          PROVE  RowStep5 \/ UNCHANGED row
      <3>1. job[w].cycle \in Cycle /\ job[w].args \in CompletionArgs
        BY <2>1 DEF WriteTerminal, TypeOK, Job
      <3>2. QED
        BY <2>1, <3>1, FinalTypes DEF WriteTerminal, Terminalise, RowStep5, RowCloses
    <2>2. QED
      BY <1>2, <2>1 DEF CompleteStep, BeginComplete, BeginCancel, ReadExisting
  <1>3. ASSUME NEW c \in Cycle, RowStep(c)
        PROVE  RowStep5
    BY <1>3 DEF RowStep, MarkRunning, Advance, RowStep5, RowClaimed, RowAdvances
  <1>4. ASSUME NEW u \in User, Maintain(u)
        PROVE  RowStep5
    BY <1>4 DEF Maintain, RowStep5, RowExpires
  <1>5. CASE Sweep
    BY <1>5 DEF Sweep, RowStep5, RowExpires
  <1>6. CASE SweepFails \/ Crash \/ Restart \/ Tick \/ UNCHANGED vars
    BY <1>6 DEF SweepFails, Crash, Restart, Tick, vars
  <1>7. QED
    BY <1>1, <1>2, <1>3, <1>4, <1>5, <1>6 DEF Next, Step

-----------------------------------------------------------------------------
(* Types. *)

\* The table keeps its type in each of the five ways.
LEMMA RowTyped ==
    ASSUME TypeOK, RowStep5 \/ UNCHANGED row
    PROVE  row' \in [Cycle -> Row]
  <1>0. row \in [Cycle -> Row] /\ clock \in Nat
    BY DEF TypeOK
  <1>1. CASE RowExpires
    <2>1. PICK us \in SUBSET User : row' = Expire(us, clock)
      BY <1>1 DEF RowExpires
    <2>2. ASSUME NEW c \in Cycle
          PROVE  Closed(row[c], "timed_out", "timeout") \in Row
      BY <1>0 DEF Closed, Reason, Row, Terminal
    <2>3. QED
      BY <1>0, <2>1, <2>2 DEF Expire
  <1>2. CASE RowOpens
    <2>1. ASSUME NEW u \in User, NEW t \in Trigger, NEW n \in Nat
          PROVE  NewRow(u, t, n) \in Row
      BY DEF NewRow, Row, Active, Claimable
    <2>2. QED
      BY <1>0, <1>2, <2>1 DEF RowOpens
  <1>3. CASE RowClaimed
    <2>1. \A c \in Cycle : Claimed(row[c]) \in Row
      BY <1>0 DEF Claimed, Row, Active, Claimable
    <2>2. QED
      BY <1>0, <1>3, <2>1 DEF RowClaimed
  <1>4. CASE RowAdvances
    <2>1. PICK c \in Cycle, s \in MidCycle :
            row' = [row EXCEPT ![c] = [row[c] EXCEPT !.lifecycle = s]]
      BY <1>0, <1>4 DEF RowAdvances
    <2>2. [row[c] EXCEPT !.lifecycle = s] \in Row
      BY <1>0 DEF Row, Active
    <2>3. QED
      BY <1>0, <2>1, <2>2
  <1>5. CASE RowCloses
    <2>1. \A c \in Cycle, l \in Terminal, r \in Reason : Closed(row[c], l, r) \in Row
      BY <1>0 DEF Closed, Row
    <2>2. QED
      BY <1>0, <1>5, <2>1 DEF RowCloses
  <1>6. CASE UNCHANGED row
    BY <1>0, <1>6
  <1>7. QED
    BY <1>1, <1>2, <1>3, <1>4, <1>5, <1>6 DEF RowStep5

\* A job that carries its own arguments is well formed.
JobOK(j) ==
    /\ j \in Job
    /\ j.pc \in {"find", "throttle", "insert", "raced", "raised"}
            => j.user \in User /\ j.trigger \in Trigger
    /\ j.pc \in {"complete", "terminalise"} => j.cycle \in Cycle

\* TypeOK's two conjuncts about jobs, one job at a time.
LEMMA JobsOK ==
    TypeOK <=> /\ row \in [Cycle -> Row]
               /\ clock \in Nat
               /\ up \in BOOLEAN
               /\ nextSweep \in Nat
               /\ job \in [Worker -> Job]
               /\ \A w \in Worker : JobOK(job[w])
  BY DEF TypeOK, JobOK, Requesting

\* The jobs a handler can start, and the idle one.
LEMMA NewJobsOK ==
    /\ JobOK(IdleJob)
    /\ \A u \in User, t \in Trigger, n \in Nat :
         JobOK([IdleJob EXCEPT !.pc = "find", !.user = u, !.trigger = t, !.now = n])
    /\ \A c \in Cycle, a \in CompletionArgs :
         JobOK([IdleJob EXCEPT !.pc = "complete", !.cycle = c, !.args = a])
  <1> USE DEF JobOK, Job, IdleJob, NoArgs, CompletionArgs, Unset
  <1>1. JobOK(IdleJob)
    OBVIOUS
  <1>2. ASSUME NEW u \in User, NEW t \in Trigger, NEW n \in Nat
        PROVE  JobOK([IdleJob EXCEPT !.pc = "find", !.user = u, !.trigger = t, !.now = n])
    OBVIOUS
  <1>3. ASSUME NEW c \in Cycle, NEW a \in CompletionArgs
        PROVE  JobOK([IdleJob EXCEPT !.pc = "complete", !.cycle = c, !.args = a])
    OBVIOUS
  <1>4. QED
    BY <1>1, <1>2, <1>3

\* Moving a job on to another step of the same function keeps it well formed.
LEMMA MovedJobsOK ==
    ASSUME NEW j, JobOK(j)
    PROVE  /\ j.pc \in {"find", "throttle", "insert", "raced"}
                => \A p \in {"throttle", "insert", "raced", "raised"} :
                     JobOK([j EXCEPT !.pc = p])
           /\ j.pc = "complete" => JobOK([j EXCEPT !.pc = "terminalise"])
  BY DEF JobOK, Job

\* Replacing one thread's job by a well-formed one keeps all of them so.
LEMMA JobReplaced ==
    ASSUME TypeOK, NEW w \in Worker, NEW j, JobOK(j), job' = [job EXCEPT ![w] = j]
    PROVE  job' \in [Worker -> Job] /\ \A v \in Worker : JobOK(job'[v])
  BY JobsOK DEF JobOK

\* Every step keeps the jobs well formed.
LEMMA JobTyped ==
    ASSUME TypeOK, [Next]_vars
    PROVE  job' \in [Worker -> Job] /\ \A w \in Worker : JobOK(job'[w])
  <1> DEFINE Goal == job' \in [Worker -> Job] /\ \A w \in Worker : JobOK(job'[w])
  <1>0. CASE UNCHANGED job
    BY <1>0, JobsOK
  <1>1. ASSUME NEW w \in Worker, Finish(w)
        PROVE  Goal
    BY <1>1, NewJobsOK, JobReplaced DEF Finish
  <1>2. ASSUME NEW w \in Worker, NEW p, job' = [job EXCEPT ![w].pc = p],
               JobOK([job[w] EXCEPT !.pc = p])
        PROVE  Goal
    <2>1. job' = [job EXCEPT ![w] = [job[w] EXCEPT !.pc = p]]
      BY <1>2, JobsOK
    <2>2. QED
      BY <1>2, <2>1, JobReplaced
  <1>3. ASSUME NEW w \in Worker, RequestStep(w)
        PROVE  Goal
    <2>0. JobOK(job[w])
      BY JobsOK
    <2>1. ASSUME NEW u \in User, NEW t \in Trigger, BeginRequest(w, u, t)
          PROVE  Goal
      <3>1. clock \in Nat
        BY JobsOK
      <3>2. QED
        BY <2>1, <3>1, NewJobsOK, JobReplaced DEF BeginRequest
    <2>2. CASE FindActive(w)
      BY <2>0, <2>2, <1>1, <1>2, MovedJobsOK DEF FindActive
    <2>3. CASE CheckThrottle(w)
      BY <2>0, <2>3, <1>1, <1>2, MovedJobsOK DEF CheckThrottle
    <2>4. CASE Insert(w)
      BY <2>0, <2>4, <1>1, <1>2, MovedJobsOK DEF Insert
    <2>5. CASE ReadRaced(w)
      BY <2>0, <2>5, <1>1, <1>2, MovedJobsOK DEF ReadRaced
    <2>6. CASE RespondError(w)
      BY <2>6, <1>1 DEF RespondError
    <2>7. QED
      BY <1>3, <2>1, <2>2, <2>3, <2>4, <2>5, <2>6 DEF RequestStep
  <1>4. ASSUME NEW w \in Worker, CompleteStep(w)
        PROVE  Goal
    <2>0. JobOK(job[w])
      BY JobsOK
    <2>1. ASSUME NEW c \in Cycle, NEW a \in Completion, BeginComplete(w, c, a)
          PROVE  Goal
      BY <2>1, NewJobsOK, JobReplaced, CompletionAssumption DEF BeginComplete
    <2>2. ASSUME NEW u \in User, BeginCancel(w, u)
          PROVE  Goal
      <3>1. CancelArgs \in CompletionArgs
        BY DEF CancelArgs, CompletionArgs, Terminal, Reason
      <3>2. QED
        BY <2>2, <3>1, NewJobsOK, JobReplaced DEF BeginCancel, ActiveOf, RowsOf
    <2>3. CASE ReadExisting(w)
      BY <2>0, <2>3, <1>1, <1>2, MovedJobsOK DEF ReadExisting
    <2>4. CASE WriteTerminal(w)
      BY <2>4, <1>1 DEF WriteTerminal
    <2>5. QED
      BY <1>4, <2>1, <2>2, <2>3, <2>4 DEF CompleteStep
  <1>5. CASE Crash
    BY <1>5, NewJobsOK DEF Crash, JobOK
  <1>6. ASSUME NEW c \in Cycle, RowStep(c)
        PROVE  Goal
    BY <1>6, <1>0 DEF RowStep, MarkRunning, Advance
  <1>7. ASSUME NEW u \in User, Maintain(u)
        PROVE  Goal
    BY <1>7, <1>0 DEF Maintain
  <1>8. CASE Sweep \/ SweepFails \/ Restart \/ Tick \/ UNCHANGED vars
    BY <1>8, <1>0 DEF Sweep, SweepFails, Restart, Tick, vars
  <1>9. QED
    BY <1>3, <1>4, <1>5, <1>6, <1>7, <1>8 DEF Next, Step

\* Of the steps of a server that stays up only two touch the times.
LEMMA UpSteps ==
    ASSUME [Step]_vars
    PROVE  /\ Sweep \/ Tick \/ UNCHANGED <<clock, up, nextSweep>>
           /\ UNCHANGED up
  <1>1. ASSUME NEW w \in Worker, RequestStep(w)
        PROVE  UNCHANGED <<clock, up, nextSweep>>
    BY <1>1 DEF RequestStep, BeginRequest, FindActive, CheckThrottle, Insert,
                ReadRaced, RespondError
  <1>2. ASSUME NEW w \in Worker, CompleteStep(w)
        PROVE  UNCHANGED <<clock, up, nextSweep>>
    BY <1>2 DEF CompleteStep, BeginComplete, BeginCancel, ReadExisting, WriteTerminal
  <1>3. ASSUME NEW c \in Cycle, RowStep(c)
        PROVE  UNCHANGED <<clock, up, nextSweep>>
    BY <1>3 DEF RowStep, MarkRunning, Advance
  <1>4. Sweep \/ Tick \/ UNCHANGED <<clock, up, nextSweep>>
    BY <1>1, <1>2, <1>3 DEF Step, Maintain, vars
  <1>5. UNCHANGED up
    BY <1>4 DEF Sweep, Tick
  <1>6. QED
    BY <1>4, <1>5

\* A failed sweep, a crash and a restart are the others.
LEMMA TimeSteps ==
    ASSUME [Next]_vars
    PROVE  Sweep \/ SweepFails \/ Crash \/ Restart \/ Tick
           \/ UNCHANGED <<clock, up, nextSweep>>
  BY UpSteps DEF Next

\* The clock never goes back.
LEMMA ClockAdvances ==
    ASSUME TypeOK, [Next]_vars
    PROVE  clock' \in Nat /\ clock <= clock'
  <1>1. clock \in Nat
    BY DEF TypeOK
  <1>2. clock' = clock \/ clock' = clock + 1
    BY TimeSteps DEF Sweep, SweepFails, Crash, Restart, Tick
  <1> QED
    BY <1>1, <1>2

\* Type correctness of the whole table, clock and set of threads.
THEOREM TypeInvariant == Spec => []TypeOK
  <1>1. Init => TypeOK
    <2>1. SUFFICES ASSUME Init PROVE TypeOK
      OBVIOUS
    <2>2. AbsentRow \in Row
      BY DEF AbsentRow, Row
    <2>3. QED
      BY <2>1, <2>2, NewJobsOK, JobsOK DEF Init, JobOK
  <1>2. TypeOK /\ [Next]_vars => TypeOK'
    <2>1. SUFFICES ASSUME TypeOK, [Next]_vars PROVE TypeOK'
      OBVIOUS
    <2>2. row' \in [Cycle -> Row]
      BY <2>1, RowStepCases, RowTyped
    <2>3. job' \in [Worker -> Job] /\ \A w \in Worker : JobOK(job'[w])
      BY <2>1, JobTyped
    <2>4. clock' \in Nat /\ up' \in BOOLEAN /\ nextSweep' \in Nat
      <3>1. clock \in Nat /\ up \in BOOLEAN /\ nextSweep \in Nat
        BY <2>1 DEF TypeOK
      <3>2. CASE Sweep
        BY <3>1, <3>2, TimeAssumption DEF Sweep
      <3>0. CASE SweepFails
        BY <3>1, <3>0, TimeAssumption DEF SweepFails
      <3>3. CASE Crash
        BY <3>1, <3>3 DEF Crash
      <3>4. CASE Restart
        BY <3>1, <3>4 DEF Restart
      <3>5. CASE Tick
        BY <3>1, <3>5 DEF Tick
      <3>6. CASE UNCHANGED <<clock, up, nextSweep>>
        BY <3>1, <3>6
      <3>7. QED
        BY <2>1, <3>0, <3>2, <3>3, <3>4, <3>5, <3>6, TimeSteps
    <2>5. QED
      BY <2>2, <2>3, <2>4 DEF TypeOK, JobOK, Requesting
  <1>3. QED
    BY <1>1, <1>2, PTL DEF Spec

-----------------------------------------------------------------------------
(* What a step does to one row. *)

\* A claim, an advance and a close change the lifecycle and one field more.
LEMMA ChangedFields ==
    ASSUME NEW r \in Row
    PROVE  /\ /\ Claimed(r).lifecycle = "running"
              /\ Claimed(r).user = r.user
              /\ Claimed(r).requested_at = r.requested_at
              /\ Claimed(r).started_at = IF r.started_at = NoTime THEN clock
                                         ELSE r.started_at
              /\ Claimed(r).reason = r.reason
           /\ \A l \in Terminal, x \in Reason :
                /\ Closed(r, l, x).lifecycle = l
                /\ Closed(r, l, x).user = r.user
                /\ Closed(r, l, x).reason = x
           /\ \A s \in MidCycle :
                /\ [r EXCEPT !.lifecycle = s].lifecycle = s
                /\ [r EXCEPT !.lifecycle = s].user = r.user
                /\ [r EXCEPT !.lifecycle = s].requested_at = r.requested_at
                /\ [r EXCEPT !.lifecycle = s].started_at = r.started_at
                /\ [r EXCEPT !.lifecycle = s].reason = r.reason
  BY DEF Claimed, Closed, Row

\* How a step moves a row that exists on.
Moved(r, s) ==
    \/ /\ r.lifecycle \in Claimable
       /\ s = Claimed(r)
    \/ \E st \in MidCycle : /\ r.lifecycle \in AdvanceFrom(st)
                            /\ s = [r EXCEPT !.lifecycle = st]
    \/ \E l \in Terminal, x \in Reason : /\ r.lifecycle \in Active
                                         /\ s = Closed(r, l, x)

\* A step that opens no row keeps each one or moves it on.
LEMMA RowKeptOrMoved ==
    ASSUME TypeOK, RowExpires \/ RowClaimed \/ RowAdvances \/ RowCloses \/ UNCHANGED row,
           NEW c \in Cycle
    PROVE  row'[c] = row[c] \/ Moved(row[c], row'[c])
  <1>0. row \in [Cycle -> Row]
    BY DEF TypeOK
  <1>1. CASE RowExpires
    <2>1. PICK us \in SUBSET User : row' = Expire(us, clock)
      BY <1>1 DEF RowExpires
    <2>2. \/ row'[c] = row[c]
          \/ Overdue(row[c], clock) /\ row'[c] = Closed(row[c], "timed_out", "timeout")
      BY <2>1 DEF Expire
    <2>3. "timed_out" \in Terminal /\ "timeout" \in Reason
      BY DEF Terminal, Reason
    <2>4. QED
      BY <2>2, <2>3 DEF Moved, Overdue
  <1>2. CASE RowClaimed
    <2>1. PICK d \in Cycle : /\ row[d].lifecycle \in Claimable
                             /\ row' = [row EXCEPT ![d] = Claimed(row[d])]
      BY <1>2 DEF RowClaimed
    <2>2. QED
      BY <1>0, <2>1 DEF Moved
  <1>3. CASE RowAdvances
    <2>1. PICK d \in Cycle, s \in MidCycle :
            /\ row[d].lifecycle \in AdvanceFrom(s)
            /\ row' = [row EXCEPT ![d] = [row[d] EXCEPT !.lifecycle = s]]
      BY <1>0, <1>3 DEF RowAdvances
    <2>2. QED
      BY <1>0, <2>1 DEF Moved
  <1>4. CASE RowCloses
    <2>1. PICK d \in Cycle, l \in Terminal, x \in Reason :
            /\ row[d].lifecycle \in Active
            /\ row' = [row EXCEPT ![d] = Closed(row[d], l, x)]
      BY <1>4 DEF RowCloses
    <2>2. QED
      BY <1>0, <2>1 DEF Moved
  <1>5. QED
    BY <1>1, <1>2, <1>3, <1>4

\* A row that moves on was active and keeps its user.
LEMMA MovedKeeps ==
    ASSUME NEW r \in Row, NEW s, Moved(r, s)
    PROVE  /\ s.user = r.user
           /\ r.lifecycle \in Active
           /\ r.lifecycle \notin Terminal \cup {"absent"}
  <1>1. r.lifecycle \in Active
    BY DEF Moved, AdvanceFrom, Active, Claimable, MidCycle
  <1>2. s.user = r.user
    <2>1. CASE s = Claimed(r)
      BY <2>1, ChangedFields
    <2>2. ASSUME NEW st \in MidCycle, s = [r EXCEPT !.lifecycle = st]
          PROVE  s.user = r.user
      BY <2>2, ChangedFields
    <2>3. ASSUME NEW l \in Terminal, NEW x \in Reason, s = Closed(r, l, x)
          PROVE  s.user = r.user
      BY <2>3, ChangedFields
    <2>4. QED
      BY <2>1, <2>2, <2>3 DEF Moved
  <1>3. QED
    BY <1>1, <1>2 DEF Active, Claimable, MidCycle, Terminal

-----------------------------------------------------------------------------
(* One active cycle per user. *)

\* Opening a cycle leaves every other row alone.
LEMMA OpenedRow ==
    ASSUME TypeOK, RowOpens
    PROVE  \E c \in Cycle, u \in User, t \in Trigger, n \in Nat :
             /\ row[c].lifecycle = "absent"
             /\ ActiveOf(u) = {}
             /\ \E w \in Worker : /\ job[w].pc = "insert" /\ Finish(w)
                                  /\ u = job[w].user /\ t = job[w].trigger /\ n = job[w].now
             /\ clock' = clock
             /\ row'[c] = NewRow(u, t, n)
             /\ \A d \in Cycle \ {c} : row'[d] = row[d]
  BY DEF TypeOK, RowOpens

\* The unique index, whatever requests interleave: SingleActive is inductive.
THEOREM SingleActiveHolds == Spec => []SingleActive
  <1>1. Init => SingleActive
    BY DEF Init, SingleActive, AbsentRow, Active, Claimable, MidCycle
  <1>2. TypeOK /\ SingleActive /\ [Next]_vars => SingleActive'
    <2>1. SUFFICES ASSUME TypeOK, SingleActive, [Next]_vars PROVE SingleActive'
      OBVIOUS
    <2>2. CASE RowOpens
      <3>1. PICK c \in Cycle, u \in User, t \in Trigger, n \in Nat :
              /\ row[c].lifecycle = "absent"
              /\ ActiveOf(u) = {}
              /\ row'[c] = NewRow(u, t, n)
              /\ \A d \in Cycle \ {c} : row'[d] = row[d]
        BY <2>1, <2>2, OpenedRow
      <3>2. \A d \in Cycle \ {c} : row[d].user = u => row[d].lifecycle \notin Active
        BY <3>1 DEF ActiveOf, RowsOf, Active, Claimable, MidCycle
      <3>3. row'[c].user = u
        BY <3>1 DEF NewRow
      <3>4. QED
        BY <2>1, <3>1, <3>2, <3>3 DEF SingleActive
    <2>3. CASE RowExpires \/ RowClaimed \/ RowAdvances \/ RowCloses
      <3>1. \A c \in Cycle : /\ row'[c].user = row[c].user
                             /\ row'[c].lifecycle \in Active => row[c].lifecycle \in Active
        <4>1. SUFFICES ASSUME NEW c \in Cycle
                       PROVE  /\ row'[c].user = row[c].user
                              /\ row'[c].lifecycle \in Active => row[c].lifecycle \in Active
          OBVIOUS
        <4>2. row'[c] = row[c] \/ Moved(row[c], row'[c])
          BY <2>1, <2>3, RowKeptOrMoved
        <4>3. row[c] \in Row
          BY <2>1 DEF TypeOK
        <4>4. QED
          BY <4>2, <4>3, MovedKeeps
      <3>2. SUFFICES ASSUME NEW c \in Cycle, NEW d \in Cycle,
                            row'[c].lifecycle \in Active, row'[d].lifecycle \in Active,
                            row'[c].user = row'[d].user
                     PROVE  c = d
        BY DEF SingleActive
      <3>3. /\ row[c].lifecycle \in Active /\ row[d].lifecycle \in Active
            /\ row[c].user = row[d].user
        BY <3>1, <3>2
      <3>4. QED
        BY <2>1, <3>3 DEF SingleActive
    <2>4. CASE UNCHANGED row
      BY <2>1, <2>4 DEF SingleActive
    <2>5. QED
      BY <2>1, <2>2, <2>3, <2>4, RowStepCases DEF RowStep5
  <1>3. QED
    BY <1>1, <1>2, TypeInvariant, PTL DEF Spec

-----------------------------------------------------------------------------
(* Exactly one terminal write, and no way back. *)

\* No step of the server rewrites a terminal row: whoever ends a cycle first
\* decides its result.
THEOREM TerminalIsFinalHolds == Spec => TerminalIsFinal
  <1>1. ASSUME TypeOK, [Next]_vars, NEW c \in Cycle, row[c].lifecycle \in Terminal
        PROVE  row'[c] = row[c]
    <2>1. CASE RowOpens
      BY <1>1, <2>1, OpenedRow DEF Terminal
    <2>2. CASE RowExpires \/ RowClaimed \/ RowAdvances \/ RowCloses
      <3>1. row'[c] = row[c] \/ Moved(row[c], row'[c])
        BY <1>1, <2>2, RowKeptOrMoved
      <3>2. row[c] \in Row
        BY <1>1 DEF TypeOK
      <3>3. QED
        BY <1>1, <3>1, <3>2, MovedKeeps
    <2>3. QED
      BY <1>1, <2>1, <2>2, RowStepCases DEF RowStep5
  <1>2. TypeOK /\ [Next]_vars
          => [\A c \in Cycle : row[c].lifecycle \in Terminal => row'[c] = row[c]]_row
    BY <1>1
  <1>3. QED
    BY <1>2, TypeInvariant, PTL DEF Spec, TerminalIsFinal

\* The ranks of the lifecycles.
LEMMA Ranks ==
    /\ Rank["absent"] = 0 /\ Rank["requested"] = 1 /\ Rank["running"] = 2
    /\ Rank["session_verified"] = 3 /\ Rank["extracting"] = 4
    /\ \A l \in Terminal : Rank[l] = 5
    /\ \A r \in Row : Rank[r.lifecycle] \in 0..5
  BY DEF Rank, Row, Active, Claimable, MidCycle, Terminal

\* A row that moves on does not lose rank.
LEMMA MovedForward ==
    ASSUME NEW r \in Row, NEW s, Moved(r, s)
    PROVE  Rank[r.lifecycle] <= Rank[s.lifecycle]
  <1>1. CASE r.lifecycle \in Claimable /\ s = Claimed(r)
    <2>1. s.lifecycle = "running"
      BY <1>1, ChangedFields
    <2>2. QED
      BY <1>1, <2>1, Ranks DEF Claimable
  <1>2. ASSUME NEW st \in MidCycle, r.lifecycle \in AdvanceFrom(st),
               s = [r EXCEPT !.lifecycle = st]
        PROVE  Rank[r.lifecycle] <= Rank[s.lifecycle]
    <2>1. s.lifecycle = st
      BY <1>2, ChangedFields
    <2>2. QED
      BY <1>2, <2>1, Ranks DEF AdvanceFrom, Active, Claimable, MidCycle
  <1>3. ASSUME NEW l \in Terminal, NEW x \in Reason, s = Closed(r, l, x)
        PROVE  Rank[r.lifecycle] <= Rank[s.lifecycle]
    <2>1. s.lifecycle = l
      BY <1>3, ChangedFields
    <2>2. QED
      BY <2>1, Ranks
  <1>4. QED
    BY <1>1, <1>2, <1>3 DEF Moved

\* No step takes a cycle back to an earlier stage.
THEOREM LifecycleForwardHolds == Spec => LifecycleForward
  <1>1. ASSUME TypeOK, [Next]_vars, NEW c \in Cycle
        PROVE  Rank[row[c].lifecycle] <= Rank[row'[c].lifecycle]
    <2>0. row[c] \in Row
      BY <1>1 DEF TypeOK
    <2>1. CASE RowOpens
      <3>1. row'[c] = row[c] \/ (row[c].lifecycle = "absent" /\ row'[c].lifecycle = "requested")
        <4>1. PICK d \in Cycle, u \in User, t \in Trigger, n \in Nat :
                /\ row[d].lifecycle = "absent"
                /\ ActiveOf(u) = {}
                /\ row'[d] = NewRow(u, t, n)
                /\ \A e \in Cycle \ {d} : row'[e] = row[e]
          BY <1>1, <2>1, OpenedRow
        <4>2. row'[d].lifecycle = "requested"
          BY <4>1 DEF NewRow
        <4>3. QED
          BY <4>1, <4>2
      <3>2. QED
        BY <2>0, <3>1, Ranks
    <2>2. CASE RowExpires \/ RowClaimed \/ RowAdvances \/ RowCloses \/ UNCHANGED row
      <3>1. row'[c] = row[c] \/ Moved(row[c], row'[c])
        BY <1>1, <2>2, RowKeptOrMoved
      <3>2. QED
        BY <2>0, <3>1, MovedForward, Ranks
    <2>3. QED
      BY <1>1, <2>1, <2>2, RowStepCases DEF RowStep5
  <1>2. TypeOK /\ [Next]_vars
          => [\A c \in Cycle : Rank[row[c].lifecycle] <= Rank[row'[c].lifecycle]]_row
    BY <1>1
  <1>3. QED
    BY <1>2, TypeInvariant, PTL DEF Spec, LifecycleForward
-----------------------------------------------------------------------------
(* Bounded life of a cycle, in a server that stays up. *)

\* The times of the contract: a probe window shorter than the heartbeat, a
\* handler that inserts before its own row would be overdue, and an extraction
\* window that holds a probe window and one heartbeat.
ContractTimes ==
    /\ ProbeTimeout < MaintenanceInterval
    /\ MaxLag <= ProbeTimeout
    /\ ProbeTimeout + MaintenanceInterval <= ExtractionTimeout

LastSweep == nextSweep - MaintenanceInterval

\* What the last sweep at `last` leaves of an active row.  A running row has
\* either been claimed since, from a request that was in time at the sweep, or
\* has survived the sweep and will not survive the next one.
RowTimely(r, last, now) ==
    /\ r.lifecycle # "absent" => r.user \in User
    /\ r.lifecycle = "requested" =>
         /\ r.started_at = NoTime
         /\ r.requested_at + ProbeTimeout >= last
    /\ r.lifecycle = "running" =>
         /\ r.started_at \in Nat
         /\ r.started_at <= now
         /\ r.started_at + ProbeTimeout >= last
         /\ \/ /\ r.started_at >= last
               /\ r.requested_at + ProbeTimeout >= last
            \/ /\ r.started_at <= last
               /\ r.requested_at + ExtractionTimeout >= last
    /\ r.lifecycle \in MidCycle => r.requested_at + ExtractionTimeout >= last

\* The strengthening: the heartbeat is on time, handlers hold a recent `now`,
\* and every row is in time for the last sweep.
TimingInv ==
    /\ up
    /\ clock <= nextSweep
    /\ LastSweep <= clock
    /\ \A w \in Worker : Requesting(w) => clock - job[w].now <= MaxLag
    /\ \A c \in Cycle : RowTimely(row[c], LastSweep, clock)

\* Constants and clock as integers.
LEMMA Times ==
    ASSUME TypeOK
    PROVE  /\ ProbeTimeout \in Nat /\ ExtractionTimeout \in Nat
           /\ MaintenanceInterval \in Nat /\ MaxLag \in Nat
           /\ clock \in Nat /\ nextSweep \in Nat /\ LastSweep \in Int
           /\ \A c \in Cycle : row[c] \in Row
           /\ \A w \in Worker : job[w].now \in Nat
  BY TimeAssumption DEF TypeOK, LastSweep, Job

\* The times of a row.
LEMMA RowTimes ==
    ASSUME NEW r \in Row
    PROVE  /\ r.requested_at \in Nat
           /\ r.started_at \in Nat \cup {NoTime}
           /\ r.lifecycle \in Active \cup Terminal \cup {"absent"}
           /\ r.user \in User \cup {NoUser}
  BY DEF Row

\* A terminal row and an absent one are in time whatever their times are.
LEMMA ClosedTimely ==
    ASSUME NEW r \in Row, NEW l \in Terminal, NEW x \in Reason,
           NEW last, NEW now, r.user \in User
    PROVE  RowTimely(Closed(r, l, x), last, now)
  <1>1. Closed(r, l, x).lifecycle = l /\ Closed(r, l, x).user = r.user
    BY ChangedFields
  <1>2. l \notin {"absent", "requested", "running"} /\ l \notin MidCycle
    BY DEF Terminal, MidCycle
  <1>3. QED
    BY <1>1, <1>2 DEF RowTimely

\* A claim, an advance or a close keeps a row in time.
LEMMA MovedTimely ==
    ASSUME ContractTimes, TypeOK, NEW r \in Row, NEW s, Moved(r, s),
           LastSweep <= clock, RowTimely(r, LastSweep, clock)
    PROVE  RowTimely(s, LastSweep, clock)
  <1>0. r.user \in User
    BY MovedKeeps DEF RowTimely
  <1>1. CASE r.lifecycle \in Claimable /\ s = Claimed(r)
    <2>1. /\ s.lifecycle = "running" /\ s.user = r.user
          /\ s.requested_at = r.requested_at
          /\ s.started_at = IF r.started_at = NoTime THEN clock ELSE r.started_at
      BY <1>1, ChangedFields
    <2>2. s.lifecycle \notin MidCycle
      BY <2>1 DEF MidCycle
    <2>3. CASE r.lifecycle = "requested"
      <3>1. s.started_at = clock /\ r.requested_at + ProbeTimeout >= LastSweep
        BY <2>1, <2>3 DEF RowTimely
      <3>2. QED
        BY <1>0, <2>1, <2>2, <3>1, Times, RowTimes DEF RowTimely
    <2>4. CASE r.lifecycle = "running"
      <3>1. r.started_at \in Nat
        BY <2>4 DEF RowTimely
      <3>2. s.started_at = r.started_at
        BY <2>1, <3>1 DEF NoTime
      <3>3. QED
        BY <1>0, <2>1, <2>2, <2>4, <3>2 DEF RowTimely
    <2>5. QED
      BY <1>1, <2>3, <2>4 DEF Claimable
  <1>2. ASSUME NEW st \in MidCycle, r.lifecycle \in AdvanceFrom(st),
               s = [r EXCEPT !.lifecycle = st]
        PROVE  RowTimely(s, LastSweep, clock)
    <2>1. /\ s.lifecycle = st /\ s.user = r.user
          /\ s.requested_at = r.requested_at
      BY <1>2, ChangedFields
    <2>2. st \notin {"requested", "running", "absent"}
      BY DEF MidCycle
    <2>3. r.lifecycle \in Active
      BY <1>2 DEF AdvanceFrom, Active, Claimable, MidCycle
    <2>4. r.requested_at + ExtractionTimeout >= LastSweep
      <3>1. CASE r.lifecycle \in MidCycle
        BY <3>1 DEF RowTimely
      <3>2. CASE r.lifecycle = "requested" \/ r.lifecycle = "running"
        BY <3>2, Times, RowTimes DEF RowTimely, ContractTimes
      <3>3. QED
        BY <2>3, <3>1, <3>2 DEF Active, Claimable
    <2>5. QED
      BY <1>0, <2>1, <2>2, <2>4 DEF RowTimely
  <1>3. ASSUME NEW l \in Terminal, NEW x \in Reason, s = Closed(r, l, x)
        PROVE  RowTimely(s, LastSweep, clock)
    BY <1>0, <1>3, ClosedTimely
  <1>4. QED
    BY <1>1, <1>2, <1>3 DEF Moved

\* A row the sweep leaves active is in time for the sweep at `clock`.
LEMMA SweptTimely ==
    ASSUME ContractTimes, TypeOK, TimingInv, nextSweep = clock, NEW c \in Cycle,
           ~Overdue(row[c], clock)
    PROVE  RowTimely(row[c], clock, clock)
  <1> DEFINE r == row[c]
  <1>0. r \in Row /\ RowTimely(r, LastSweep, clock) /\ LastSweep = clock - MaintenanceInterval
    BY Times DEF TimingInv, LastSweep
  <1>1. r.lifecycle \in Active => clock <= Deadline(r)
    <2>1. SUFFICES ASSUME r.lifecycle \in Active PROVE clock <= Deadline(r)
      OBVIOUS
    <2>2. Deadline(r) \in Int
      BY <1>0, RowTimes, Times DEF Deadline, ProbeAnchor, NoTime
    <2>3. QED
      BY <2>1, <2>2, Times DEF Overdue
  <1>2. CASE r.lifecycle = "requested"
    <2>1. Deadline(r) = r.requested_at + ProbeTimeout /\ r.lifecycle \in Active
      BY <1>2 DEF Deadline, ProbeAnchor, MidCycle, Active, Claimable
    <2>2. r.lifecycle \notin MidCycle
      BY <1>2 DEF MidCycle
    <2>3. QED
      BY <1>0, <1>1, <1>2, <2>1, <2>2, Times, RowTimes DEF RowTimely
  <1>3. CASE r.lifecycle = "running"
    <2>1. r.lifecycle \notin MidCycle /\ r.lifecycle \in Active
      BY <1>3 DEF MidCycle, Active, Claimable
    <2>2. r.started_at \in Nat /\ r.started_at <= clock /\ r.user \in User
      BY <1>0, <1>3 DEF RowTimely
    <2>3. Deadline(r) = r.started_at + ProbeTimeout
      BY <1>3, <2>1, <2>2 DEF Deadline, ProbeAnchor, NoTime
    <2>4. clock <= r.started_at + ProbeTimeout
      BY <1>1, <2>1, <2>3
    <2>5. r.requested_at + ProbeTimeout >= LastSweep
      <3>1. r.started_at > LastSweep
        BY <1>0, <2>2, <2>4, Times DEF ContractTimes
      <3>2. QED
        BY <1>0, <1>3, <2>2, <3>1, Times DEF RowTimely
    <2>6. r.requested_at + ExtractionTimeout >= clock
      BY <1>0, <2>5, Times, RowTimes DEF ContractTimes
    <2>7. QED
      BY <1>3, <2>1, <2>2, <2>4, <2>6, Times, RowTimes DEF RowTimely
  <1>4. CASE r.lifecycle \in MidCycle
    <2>1. Deadline(r) = r.requested_at + ExtractionTimeout /\ r.lifecycle \in Active
      BY <1>4 DEF Deadline, Active
    <2>2. r.lifecycle \notin {"requested", "running"}
      BY <1>4 DEF MidCycle
    <2>3. QED
      BY <1>0, <1>1, <1>4, <2>1, <2>2, Times, RowTimes DEF RowTimely
  <1>5. CASE r.lifecycle \notin Active
    BY <1>0, <1>5 DEF RowTimely, Active, Claimable
  <1>6. QED
    BY <1>2, <1>3, <1>4, <1>5 DEF Active, Claimable

\* A server that stays up is a server.
LEMMA SpecUpTyped == SpecUp => []TypeOK
  <1>1. [Step]_vars => [Next]_vars
    BY DEF Next
  <1>2. SpecUp => Spec
    BY <1>1, PTL DEF Spec, SpecUp
  <1>3. QED
    BY <1>2, TypeInvariant, PTL

\* A request handler captured its `now` before the step or captures it in it.
LEMMA NowCaptured ==
    ASSUME TypeOK, [Step]_vars, NEW w \in Worker, Requesting(w)'
    PROVE  \/ job'[w].now = clock
           \/ Requesting(w) /\ job'[w].now = job[w].now
  <1>0. job \in [Worker -> Job]
    BY DEF TypeOK
  <1> DEFINE Goal == \/ job'[w].now = clock
                     \/ Requesting(w) /\ job'[w].now = job[w].now
  <1>1. ASSUME NEW v \in Worker, Finish(v)
        PROVE  Goal
    BY <1>0, <1>1 DEF Finish, IdleJob, Requesting
  <1>2. ASSUME NEW v \in Worker, NEW p, job' = [job EXCEPT ![v].pc = p], Requesting(v)
        PROVE  Goal
    BY <1>0, <1>2 DEF Requesting, Job
  <1>3. ASSUME NEW v \in Worker, RequestStep(v)
        PROVE  Goal
    <2>1. ASSUME NEW u \in User, NEW t \in Trigger, BeginRequest(v, u, t)
          PROVE  Goal
      BY <1>0, <2>1 DEF BeginRequest, IdleJob, Requesting
    <2>2. CASE FindActive(v)
      BY <1>1, <1>2, <2>2 DEF FindActive, Requesting
    <2>3. CASE CheckThrottle(v)
      BY <1>1, <1>2, <2>3 DEF CheckThrottle, Requesting
    <2>4. CASE Insert(v)
      BY <1>1, <1>2, <2>4 DEF Insert, Requesting
    <2>5. CASE ReadRaced(v)
      BY <1>1, <1>2, <2>5 DEF ReadRaced, Requesting
    <2>6. CASE RespondError(v)
      BY <1>1, <2>6 DEF RespondError
    <2>7. QED
      BY <1>3, <2>1, <2>2, <2>3, <2>4, <2>5, <2>6 DEF RequestStep
  <1>4. ASSUME NEW v \in Worker, CompleteStep(v)
        PROVE  Goal
    <2>1. ASSUME NEW c \in Cycle, NEW a,
                 job' = [job EXCEPT ![v] = [IdleJob EXCEPT !.pc = "complete", !.cycle = c,
                                                           !.args = a]]
          PROVE  Goal
      BY <1>0, <2>1 DEF IdleJob, Requesting
    <2>2. CASE ReadExisting(v)
      <3>1. CASE job' = [job EXCEPT ![v].pc = "terminalise"]
        BY <1>0, <3>1 DEF Requesting, Job
      <3>2. QED
        BY <1>1, <2>2, <3>1 DEF ReadExisting
    <2>3. CASE WriteTerminal(v)
      BY <1>1, <2>3 DEF WriteTerminal
    <2>4. QED
      BY <1>4, <2>1, <2>2, <2>3 DEF CompleteStep, BeginComplete, BeginCancel, ActiveOf, RowsOf
  <1>5. CASE UNCHANGED job
    BY <1>5 DEF Requesting
  <1>6. QED
    BY <1>3, <1>4, <1>5 DEF Step, RowStep, MarkRunning, Advance, Maintain, Sweep, Tick, vars

\* The timing invariant is inductive.
LEMMA TimingStep ==
    ASSUME ContractTimes, TypeOK, TimingInv, [Step]_vars
    PROVE  TimingInv'
  <1>0. /\ up /\ clock <= nextSweep /\ LastSweep <= clock
        /\ LastSweep = nextSweep - MaintenanceInterval
        /\ \A c \in Cycle : RowTimely(row[c], LastSweep, clock)
    BY DEF TimingInv, LastSweep
  <1>1. /\ up' /\ clock' <= nextSweep' /\ LastSweep' <= clock'
    <2>1. up'
      BY <1>0, UpSteps
    <2>2. CASE Sweep
      BY <1>0, <2>1, <2>2, Times DEF Sweep, LastSweep
    <2>3. CASE Tick
      BY <1>0, <2>1, <2>3, Times DEF Tick, LastSweep
    <2>4. CASE UNCHANGED <<clock, up, nextSweep>>
      BY <1>0, <2>1, <2>4 DEF LastSweep
    <2>5. QED
      BY <2>2, <2>3, <2>4, UpSteps
  <1>2. ASSUME NEW w \in Worker, Requesting(w)'
        PROVE  clock' - job'[w].now <= MaxLag
    <2>1. CASE Tick
      <3>1. job' = job /\ clock' = clock + 1
        BY <2>1 DEF Tick
      <3>2. Requesting(w)
        BY <1>2, <3>1 DEF Requesting
      <3>3. clock - job[w].now < MaxLag
        BY <2>1, <3>2 DEF Tick
      <3>4. QED
        BY <3>1, <3>3, Times
    <2>2. CASE clock' = clock
      <3>1. CASE job'[w].now = clock
        BY <2>2, <3>1, Times
      <3>2. CASE Requesting(w) /\ job'[w].now = job[w].now
        BY <2>2, <3>2 DEF TimingInv
      <3>3. QED
        BY <1>2, <3>1, <3>2, NowCaptured
    <2>3. QED
      BY <2>1, <2>2, UpSteps DEF Sweep
  <1>3. ASSUME NEW c \in Cycle
        PROVE  RowTimely(row'[c], LastSweep', clock')
    <2>0. row[c] \in Row /\ RowTimely(row[c], LastSweep, clock)
      BY <1>0, Times
    <2>1. CASE Sweep
      <3>1. /\ row' = Expire(User, clock) /\ clock' = clock /\ nextSweep = clock
            /\ LastSweep' = clock
        BY <1>0, <2>1, Times DEF Sweep, LastSweep
      <3>2. CASE row[c].user \in User /\ Overdue(row[c], clock)
        <4>1. row'[c] = Closed(row[c], "timed_out", "timeout")
          BY <3>1, <3>2 DEF Expire
        <4>2. "timed_out" \in Terminal /\ "timeout" \in Reason
          BY DEF Terminal, Reason
        <4>3. QED
          BY <2>0, <3>1, <3>2, <4>1, <4>2, ClosedTimely
      <3>3. CASE row[c].user \in User /\ ~Overdue(row[c], clock)
        <4>1. row'[c] = row[c]
          BY <3>1, <3>3 DEF Expire
        <4>2. QED
          BY <3>1, <3>3, <4>1, SweptTimely
      <3>4. CASE row[c].user \notin User
        <4>1. row'[c] = row[c]
          BY <3>1, <3>4 DEF Expire
        <4>2. row[c].lifecycle = "absent"
          BY <2>0, <3>4 DEF RowTimely
        <4>3. QED
          BY <4>1, <4>2 DEF RowTimely, MidCycle
      <3>5. QED
        BY <3>2, <3>3, <3>4
    <2>2. CASE Tick
      <3>1. row' = row /\ clock' = clock + 1 /\ LastSweep' = LastSweep
        BY <2>2 DEF Tick, LastSweep
      <3>2. QED
        BY <2>0, <3>1, Times, RowTimes DEF RowTimely
    <2>3. CASE UNCHANGED <<clock, up, nextSweep>>
      <3>0. LastSweep' = LastSweep /\ clock' = clock /\ [Next]_vars
        BY <2>3 DEF LastSweep, Next
      <3>1. CASE RowOpens
        <4>1. PICK d \in Cycle, u \in User, t \in Trigger, n \in Nat :
                /\ row[d].lifecycle = "absent"
                /\ ActiveOf(u) = {}
                /\ \E w \in Worker : job[w].pc = "insert" /\ n = job[w].now
                /\ row'[d] = NewRow(u, t, n)
                /\ \A e \in Cycle \ {d} : row'[e] = row[e]
          BY <3>1, OpenedRow
        <4>2. clock <= n + MaxLag
          BY <4>1, Times DEF TimingInv, Requesting
        <4>3. n + ProbeTimeout >= LastSweep
          BY <1>0, <4>1, <4>2, Times DEF ContractTimes
        <4>4. RowTimely(NewRow(u, t, n), LastSweep, clock)
          BY <4>1, <4>3 DEF RowTimely, NewRow, MidCycle
        <4>5. QED
          BY <2>0, <3>0, <4>1, <4>4
      <3>2. CASE RowExpires \/ RowClaimed \/ RowAdvances \/ RowCloses \/ UNCHANGED row
        <4>1. row'[c] = row[c] \/ Moved(row[c], row'[c])
          BY <3>2, RowKeptOrMoved
        <4>2. QED
          BY <1>0, <2>0, <3>0, <4>1, MovedTimely
      <3>3. QED
        BY <3>0, <3>1, <3>2, RowStepCases DEF RowStep5
    <2>4. QED
      BY <2>1, <2>2, <2>3, UpSteps
  <1>4. QED
    BY <1>1, <1>2, <1>3 DEF TimingInv

\* In a server that stays up no cycle stays active past its deadline by more
\* than one heartbeat, nor past its request by more than the extraction window
\* and one heartbeat, whatever handlers claim it, advance it or race for it.
THEOREM LifeBounded ==
    ASSUME ContractTimes
    PROVE  SpecUp => [](OverdueBounded /\ CycleAgeBounded)
  <1>1. TypeOK /\ Init => TimingInv
    <2>1. SUFFICES ASSUME TypeOK, Init PROVE TimingInv
      OBVIOUS
    <2>2. up /\ clock <= nextSweep /\ LastSweep <= clock
      BY <2>1, Times DEF Init, LastSweep
    <2>3. \A w \in Worker : ~Requesting(w)
      BY <2>1 DEF Init, IdleJob, Requesting
    <2>4. \A c \in Cycle : RowTimely(row[c], LastSweep, clock)
      BY <2>1 DEF Init, AbsentRow, RowTimely, MidCycle
    <2>5. QED
      BY <2>2, <2>3, <2>4 DEF TimingInv
  <1>2. TypeOK /\ TimingInv /\ [Step]_vars => TimingInv'
    BY TimingStep
  <1>3. TypeOK /\ TimingInv => OverdueBounded /\ CycleAgeBounded
    <2>1. SUFFICES ASSUME TypeOK, TimingInv, NEW c \in Cycle, row[c].lifecycle \in Active
                   PROVE  /\ clock <= Deadline(row[c]) + MaintenanceInterval
                          /\ clock - row[c].requested_at
                               <= ExtractionTimeout + MaintenanceInterval
      BY DEF OverdueBounded, CycleAgeBounded
    <2>0. /\ row[c] \in Row /\ RowTimely(row[c], LastSweep, clock)
          /\ clock <= LastSweep + MaintenanceInterval
      BY <2>1, Times DEF TimingInv, LastSweep
    <2>2. CASE row[c].lifecycle = "requested"
      <3>1. Deadline(row[c]) = row[c].requested_at + ProbeTimeout
        BY <2>2 DEF Deadline, ProbeAnchor, MidCycle
      <3>2. QED
        BY <2>0, <2>1, <2>2, <3>1, Times, RowTimes DEF RowTimely, ContractTimes
    <2>3. CASE row[c].lifecycle = "running"
      <3>1. row[c].started_at \in Nat
        BY <2>0, <2>3 DEF RowTimely
      <3>2. Deadline(row[c]) = row[c].started_at + ProbeTimeout
        BY <2>3, <3>1 DEF Deadline, ProbeAnchor, MidCycle, NoTime
      <3>3. row[c].requested_at + ExtractionTimeout >= LastSweep
        BY <2>0, <2>1, <2>3, Times, RowTimes DEF RowTimely, ContractTimes
      <3>4. QED
        BY <2>0, <2>1, <2>3, <3>1, <3>2, <3>3, Times, RowTimes DEF RowTimely
    <2>4. CASE row[c].lifecycle \in MidCycle
      <3>1. Deadline(row[c]) = row[c].requested_at + ExtractionTimeout
        BY <2>4 DEF Deadline
      <3>2. QED
        BY <2>0, <2>1, <2>4, <3>1, Times, RowTimes DEF RowTimely
    <2>5. QED
      BY <2>1, <2>2, <2>3, <2>4 DEF Active, Claimable
  <1>4. QED
    BY <1>1, <1>2, <1>3, SpecUpTyped, PTL DEF SpecUp

\* No cycle stays active past its deadline by more than one heartbeat, also when an
\* advance moves the deadline back to the request (probe_timeout_anchor).
THEOREM OverdueBoundedHolds ==
    ASSUME ContractTimes
    PROVE  SpecUp => []OverdueBounded
  BY LifeBounded, PTL

-----------------------------------------------------------------------------
(* The table implements AccessCycle. *)

\* The stage of a row tells absent, active and terminal apart.
LEMMA Stages ==
    ASSUME NEW r \in Row
    PROVE  /\ r.lifecycle = "absent" => StageOf(r) = "none"
           /\ r.lifecycle \in Claimable => StageOf(r) = "pending"
           /\ r.lifecycle \in MidCycle => StageOf(r) = "verified"
           /\ r.lifecycle \in Terminal => StageOf(r) = "closed"
           /\ StageOf(r) \in {"pending", "verified"} => r.lifecycle \in Active
           /\ r.lifecycle \in Active => r.lifecycle \notin Terminal
  BY DEF StageOf, Row, Active, Claimable, MidCycle, Terminal

\* What the abstraction sees of a step: who owns each row, its stage and result.
Same(r, s) == s.user = r.user /\ StageOf(s) = StageOf(r) /\ ResultOf(s) = ResultOf(r)

\* A step that leaves owner, stage and result of every row alone stutters.
LEMMA AbstractStutter ==
    ASSUME \A c \in Cycle : Same(row[c], row'[c])
    PROVE  UNCHANGED Abstract!cycleVars
  BY DEF Same, Abstract!cycleVars

\* Closing an active row closes its stage with its result.
LEMMA ClosedStage ==
    ASSUME NEW r \in Row, NEW l \in Terminal, NEW x \in Reason, r.lifecycle \in Active
    PROVE  /\ StageOf(r) \in {"pending", "verified"}
           /\ Closed(r, l, x).user = r.user
           /\ StageOf(Closed(r, l, x)) = "closed"
           /\ ResultOf(Closed(r, l, x)) = [lifecycle |-> l, reason |-> x]
  <1>1. Closed(r, l, x) \in Row /\ Closed(r, l, x).lifecycle = l
        /\ Closed(r, l, x).user = r.user /\ Closed(r, l, x).reason = x
    BY ChangedFields DEF Closed, Row
  <1>2. QED
    BY <1>1, Stages DEF ResultOf, Active

\* Rows closed with one result, and the others left alone, are a CloseCycles.
LEMMA AbstractClose ==
    ASSUME TypeOK, NEW S \in SUBSET Cycle, NEW l \in Terminal, NEW x \in Reason,
           \A c \in S : row[c].lifecycle \in Active /\ row'[c] = Closed(row[c], l, x),
           \A c \in Cycle \ S : row'[c] = row[c]
    PROVE  Abstract!CloseCycles(S, [lifecycle |-> l, reason |-> x])
  <1>1. \A c \in S : /\ StageOf(row[c]) \in {"pending", "verified"}
                     /\ row'[c].user = row[c].user
                     /\ StageOf(row'[c]) = "closed"
                     /\ ResultOf(row'[c]) = [lifecycle |-> l, reason |-> x]
    BY ClosedStage DEF TypeOK
  <1>2. \A c \in Cycle : row'[c].user = row[c].user
    BY <1>1
  <1>3. QED
    BY <1>1, <1>2 DEF Abstract!CloseCycles, Abstract!Live

\* Every step of the server is a step of the abstract specification.
LEMMA AbstractStep ==
    ASSUME TypeOK, [Next]_vars
    PROVE  [Abstract!CycleNext]_(Abstract!cycleVars)
  <1>0. row \in [Cycle -> Row] /\ \A c \in Cycle : row[c] \in Row
    BY DEF TypeOK
  <1>1. CASE RowExpires
    <2>1. PICK us \in SUBSET User : row' = Expire(us, clock)
      BY <1>1 DEF RowExpires
    <2>2. DEFINE S == {c \in Cycle : row[c].user \in us /\ Overdue(row[c], clock)}
    <2>3. /\ \A c \in S : /\ row[c].lifecycle \in Active
                          /\ row'[c] = Closed(row[c], "timed_out", "timeout")
          /\ \A c \in Cycle \ S : row'[c] = row[c]
      BY <2>1 DEF Expire, Overdue
    <2>4. "timed_out" \in Terminal /\ "timeout" \in Reason /\ S \in SUBSET Cycle
      BY DEF Terminal, Reason
    <2>5. Abstract!CloseCycles(S, [lifecycle |-> "timed_out", reason |-> "timeout"])
      BY <2>3, <2>4, AbstractClose
    <2>6. QED
      BY <2>4, <2>5 DEF Abstract!CycleNext
  <1>2. CASE RowOpens
    <2>1. PICK c \in Cycle, u \in User, t \in Trigger, n \in Nat :
            /\ row[c].lifecycle = "absent"
            /\ ActiveOf(u) = {}
            /\ \E w \in Worker : job[w].pc = "insert" /\ n = job[w].now
            /\ row'[c] = NewRow(u, t, n)
            /\ \A e \in Cycle \ {c} : row'[e] = row[e]
      BY <1>2, OpenedRow
    <2>2. /\ row'[c].user = u /\ StageOf(row'[c]) = "pending"
          /\ ResultOf(row'[c]) = NoResult
      BY <2>1 DEF NewRow, StageOf, ResultOf, Claimable, MidCycle, Terminal
    <2>3. StageOf(row[c]) = "none" /\ ResultOf(row[c]) = NoResult
      BY <2>1 DEF StageOf, ResultOf, Claimable, MidCycle, Terminal
    <2>4. \A d \in Cycle : row[d].user = u => StageOf(row[d]) \notin {"pending", "verified"}
      BY <1>0, <2>1, Stages DEF ActiveOf, RowsOf, Active, Claimable, MidCycle
    <2>5. Abstract!OpenCycle(c, u)
      <3>1. Abstract!LiveOf(u) = {}
        BY <2>4 DEF Abstract!LiveOf, Abstract!Live
      <3>2. QED
        BY <2>1, <2>2, <2>3, <3>1 DEF Abstract!OpenCycle
    <2>6. QED
      BY <2>5 DEF Abstract!CycleNext
  <1>3. CASE RowClaimed
    <2>1. PICK c \in Cycle : /\ row[c].lifecycle \in Claimable
                             /\ row' = [row EXCEPT ![c] = Claimed(row[c])]
      BY <1>3 DEF RowClaimed
    <2>2. Same(row[c], Claimed(row[c]))
      BY <1>0, <2>1, ChangedFields, Stages
         DEF Same, StageOf, ResultOf, Claimable, MidCycle, Terminal
    <2>3. \A d \in Cycle : Same(row[d], row'[d])
      BY <1>0, <2>1, <2>2 DEF Same
    <2>4. QED
      BY <2>3, AbstractStutter
  <1>4. CASE RowAdvances
    <2>1. PICK c \in Cycle, s \in MidCycle :
            /\ row[c].lifecycle \in AdvanceFrom(s)
            /\ row' = [row EXCEPT ![c] = [row[c] EXCEPT !.lifecycle = s]]
      BY <1>0, <1>4 DEF RowAdvances
    <2>2. /\ row'[c].lifecycle = s /\ row'[c].user = row[c].user
          /\ \A d \in Cycle \ {c} : row'[d] = row[d]
      BY <1>0, <2>1, ChangedFields
    <2>3. StageOf(row'[c]) = "verified" /\ ResultOf(row'[c]) = NoResult
      BY <2>2 DEF StageOf, ResultOf, MidCycle, Claimable, Terminal
    <2>4. ResultOf(row[c]) = NoResult
      BY <2>1 DEF ResultOf, AdvanceFrom, Active, Claimable, MidCycle, Terminal
    <2>5. CASE row[c].lifecycle \in Claimable
      <3>1. StageOf(row[c]) = "pending"
        BY <1>0, <2>5, Stages
      <3>2. Abstract!VerifyCycle(c)
        BY <2>2, <2>3, <2>4, <3>1 DEF Abstract!VerifyCycle
      <3>3. QED
        BY <3>2 DEF Abstract!CycleNext
    <2>6. CASE row[c].lifecycle \in MidCycle
      <3>1. StageOf(row[c]) = "verified"
        BY <1>0, <2>6, Stages
      <3>2. \A d \in Cycle : Same(row[d], row'[d])
        BY <2>2, <2>3, <2>4, <3>1 DEF Same
      <3>3. QED
        BY <3>2, AbstractStutter
    <2>7. QED
      BY <2>1, <2>5, <2>6 DEF AdvanceFrom, Active, Claimable, MidCycle
  <1>5. CASE RowCloses
    <2>1. PICK c \in Cycle, l \in Terminal, x \in Reason :
            /\ row[c].lifecycle \in Active
            /\ row' = [row EXCEPT ![c] = Closed(row[c], l, x)]
      BY <1>5 DEF RowCloses
    <2>2. /\ row'[c] = Closed(row[c], l, x)
          /\ \A d \in Cycle \ {c} : row'[d] = row[d]
      BY <1>0, <2>1
    <2>3. Abstract!CloseCycles({c}, [lifecycle |-> l, reason |-> x])
      BY <2>1, <2>2, AbstractClose
    <2>4. [lifecycle |-> l, reason |-> x] \in Results
      BY DEF Results
    <2>5. QED
      BY <2>3, <2>4 DEF Abstract!CycleNext
  <1>6. CASE UNCHANGED row
    BY <1>6, AbstractStutter DEF Same
  <1>7. QED
    BY <1>1, <1>2, <1>3, <1>4, <1>5, <1>6, RowStepCases DEF RowStep5

\* Each cycle is opened once, beside no other live cycle of its user, and closed
\* once, with a result that never changes.
THEOREM Refinement == Spec => ImplementsAccessCycle
  <1>1. Init => Abstract!CycleInit
    BY DEF Init, AbsentRow, StageOf, ResultOf, Claimable, MidCycle, Terminal, Abstract!CycleInit
  <1>2. TypeOK /\ [Next]_vars => [Abstract!CycleNext]_(Abstract!cycleVars)
    BY AbstractStep
  <1>3. QED
    BY <1>1, <1>2, TypeInvariant, PTL DEF Spec, ImplementsAccessCycle, Abstract!CycleSpec
-----------------------------------------------------------------------------
(* What requests promise when those of one user do not overlap.  The        *)
(* throttle and the answer are both decided from rows read earlier: two     *)
(* overlapping requests break them (runs session_throttle and               *)
(* session_request_error), and nothing else does, crashes included.         *)

\* No two threads request a cycle for the same user at the same time.
OneRequestPerUser ==
    \A v, w \in Worker :
        (Requesting(v) /\ Requesting(w) /\ job[v].user = job[w].user) => v = w

\* What a request has read still holds: no cycle was requested after its `now`,
\* and what it found missing is missing.
ReadsHold(w) ==
    Requesting(w) =>
        /\ job[w].now <= clock
        /\ \A c \in RowsOf(job[w].user) : row[c].requested_at <= job[w].now
        /\ job[w].pc \in {"find", "throttle", "insert"}
        /\ job[w].pc # "find" => ActiveOf(job[w].user) = {}
        /\ job[w].pc = "insert" =>
              ~Throttled(job[w].user, job[w].trigger, job[w].now)

SerialInv ==
    /\ \A c \in Cycle : row[c].requested_at <= clock
    /\ \A w \in Worker : ReadsHold(w)
    /\ ThrottleRespected

\* A step that opens no row keeps who requested it, when and why, and makes none
\* active.
LEMMA RowsKept ==
    ASSUME TypeOK, RowExpires \/ RowClaimed \/ RowAdvances \/ RowCloses \/ UNCHANGED row,
           NEW c \in Cycle
    PROVE  /\ row'[c].user = row[c].user
           /\ row'[c].trigger = row[c].trigger
           /\ row'[c].requested_at = row[c].requested_at
           /\ (row'[c].lifecycle = "absent") <=> (row[c].lifecycle = "absent")
           /\ row'[c].lifecycle \in Active => row[c].lifecycle \in Active
  <1>1. row[c] \in Row
    BY DEF TypeOK
  <1>2. CASE row'[c] = row[c]
    BY <1>2
  <1>3. CASE Moved(row[c], row'[c])
    <2> DEFINE r == row[c]  s == row'[c]
    <2>1. r.lifecycle \in Active
      BY <1>1, <1>3, MovedKeeps
    <2>2. s.user = r.user /\ s.trigger = r.trigger /\ s.requested_at = r.requested_at
      BY <1>1, <1>3 DEF Moved, Claimed, Closed, Row
    <2>3. s.lifecycle # "absent"
      BY <1>1, <1>3 DEF Moved, Claimed, Closed, Row, MidCycle, Terminal
    <2> QED
      BY <2>1, <2>2, <2>3 DEF Active, Claimable, MidCycle
  <1> QED
    BY <1>2, <1>3, RowKeptOrMoved

\* What a step may do to the request of one thread.
LEMMA RequestMoves ==
    ASSUME TypeOK, [Next]_vars, NEW w \in Worker, Requesting(w)'
    PROVE  \/ job'[w] = job[w]
           \/ \E u \in User, t \in Trigger : BeginRequest(w, u, t)
           \/ FindActive(w) \/ CheckThrottle(w) \/ Insert(w) \/ ReadRaced(w)
  <1>0. job \in [Worker -> Job] /\ job'[w].pc \notin {"idle", "complete", "terminalise"}
    BY DEF TypeOK, Requesting
  <1>1. ASSUME NEW v \in Worker, NEW j, job' = [job EXCEPT ![v] = j],
               j.pc \in {"idle", "complete", "terminalise"}
        PROVE  job'[w] = job[w]
    BY <1>0, <1>1
  <1>2. ASSUME NEW v \in Worker, Finish(v)
        PROVE  job'[w] = job[w]
    BY <1>1, <1>2 DEF Finish, IdleJob
  <1>3. ASSUME NEW v \in Worker, RequestStep(v), v # w
        PROVE  job'[w] = job[w]
    BY <1>0, <1>3 DEF RequestStep, BeginRequest, FindActive, CheckThrottle, Insert,
       ReadRaced, RespondError, Finish
  <1>4. ASSUME RequestStep(w), RespondError(w)
        PROVE  job'[w] = job[w]
    BY <1>2, <1>4 DEF RespondError
  <1>5. ASSUME NEW v \in Worker, CompleteStep(v)
        PROVE  job'[w] = job[w]
    <2>1. ASSUME NEW c, NEW a,
                 job' = [job EXCEPT ![v] = [IdleJob EXCEPT !.pc = "complete", !.cycle = c,
                                                           !.args = a]]
          PROVE  job'[w] = job[w]
      BY <1>1, <2>1 DEF IdleJob
    <2>2. ASSUME job' = [job EXCEPT ![v].pc = "terminalise"]
          PROVE  job'[w] = job[w]
      BY <1>0, <2>2 DEF Job
    <2> QED
      BY <1>2, <1>5, <2>1, <2>2
         DEF CompleteStep, BeginComplete, BeginCancel, ReadExisting, WriteTerminal
  <1>6. CASE Crash
    BY <1>0, <1>6 DEF Crash, IdleJob
  <1>7. CASE UNCHANGED job
    BY <1>7
  <1> QED
    BY <1>3, <1>4, <1>5, <1>6, <1>7
       DEF Next, Step, RequestStep, RowStep, MarkRunning, Advance, Maintain, Sweep, Tick,
           SweepFails, Restart, vars

\* What a request sees of a table in which a step opened no row of its user.
LEMMA ReadsKept ==
    ASSUME NEW u,
           \A c \in Cycle :
             /\ row'[c].user = u <=> row[c].user = u
             /\ row[c].user = u =>
                  /\ row'[c].requested_at = row[c].requested_at
                  /\ (row'[c].lifecycle = "absent") <=> (row[c].lifecycle = "absent")
                  /\ row'[c].lifecycle \in Active => row[c].lifecycle \in Active
    PROVE  /\ RowsOf(u)' = RowsOf(u)
           /\ \A c \in RowsOf(u) : row'[c].requested_at = row[c].requested_at
           /\ ActiveOf(u) = {} => ActiveOf(u)' = {}
           /\ \A t, n : Throttled(u, t, n)' <=> Throttled(u, t, n)
  <1>1. RowsOf(u)' = RowsOf(u)
    BY DEF RowsOf
  <1>2. \A c \in RowsOf(u) : row'[c].requested_at = row[c].requested_at
    BY DEF RowsOf
  <1>3. ActiveOf(u) = {} => ActiveOf(u)' = {}
    BY <1>1 DEF ActiveOf, RowsOf
  <1>4. \A t, n : Throttled(u, t, n)' <=> Throttled(u, t, n)
    BY <1>1, <1>2 DEF Throttled
  <1> QED
    BY <1>1, <1>2, <1>3, <1>4

\* A request keeps what it has read while no row of its user is opened.
LEMMA ReadsHoldKept ==
    ASSUME TypeOK, SerialInv, [Next]_vars, NEW w \in Worker,
           \/ RowExpires \/ RowClaimed \/ RowAdvances \/ RowCloses \/ UNCHANGED row
    PROVE  ReadsHold(w)'
  <1> SUFFICES ASSUME Requesting(w)'
               PROVE  ReadsHold(w)'
    BY DEF ReadsHold
  <1>0. job \in [Worker -> Job] /\ clock \in Nat /\ job[w].now \in Nat
    BY DEF TypeOK, Job
  <1>1. clock' \in Nat /\ clock <= clock'
    BY ClockAdvances
  <1>u. PICK u : u = job'[w].user
    OBVIOUS
  <1>2. /\ RowsOf(u)' = RowsOf(u)
        /\ \A c \in RowsOf(u) : row'[c].requested_at = row[c].requested_at
        /\ ActiveOf(u) = {} => ActiveOf(u)' = {}
        /\ \A t, n : Throttled(u, t, n)' <=> Throttled(u, t, n)
    <2>1. \A c \in Cycle : /\ row'[c].user = row[c].user
                           /\ row'[c].requested_at = row[c].requested_at
                           /\ (row'[c].lifecycle = "absent") <=> (row[c].lifecycle = "absent")
                           /\ row'[c].lifecycle \in Active => row[c].lifecycle \in Active
      BY RowsKept
    <2> QED
      BY <2>1, ReadsKept
  <1>3. CASE job'[w] = job[w]
    BY <1>0, <1>1, <1>u, <1>2, <1>3 DEF SerialInv, ReadsHold, Requesting
  <1>4. ASSUME NEW x \in User, NEW t \in Trigger, BeginRequest(w, x, t)
        PROVE  ReadsHold(w)'
    <2>1. job'[w].pc = "find" /\ job'[w].user = x /\ job'[w].now = clock
      BY <1>0, <1>4 DEF BeginRequest, IdleJob
    <2>2. \A c \in RowsOf(u) : row[c].requested_at <= clock
      BY DEF RowsOf, SerialInv
    <2> QED
      BY <1>0, <1>1, <1>u, <1>2, <2>1, <2>2 DEF ReadsHold
  <1>5. CASE FindActive(w)
    <2>1. job[w].pc = "find" /\ job'[w] = [job[w] EXCEPT !.pc = "throttle"]
          /\ ActiveOf(job[w].user) = {}
      BY <1>0, <1>5 DEF FindActive, Finish, IdleJob, Requesting
    <2>2. job'[w].pc = "throttle" /\ job'[w].user = job[w].user /\ job'[w].now = job[w].now
      BY <1>0, <2>1 DEF Job
    <2> QED
      BY <1>0, <1>1, <1>u, <1>2, <2>1, <2>2 DEF SerialInv, ReadsHold, Requesting
  <1>6. CASE CheckThrottle(w)
    <2>1. job[w].pc = "throttle" /\ job'[w] = [job[w] EXCEPT !.pc = "insert"]
          /\ ~Throttled(job[w].user, job[w].trigger, job[w].now)
      BY <1>0, <1>6 DEF CheckThrottle, Finish, IdleJob, Requesting
    <2>2. /\ job'[w].pc = "insert" /\ job'[w].user = job[w].user /\ job'[w].now = job[w].now
          /\ job'[w].trigger = job[w].trigger
      BY <1>0, <2>1 DEF Job
    <2> QED
      BY <1>0, <1>1, <1>u, <1>2, <2>1, <2>2 DEF SerialInv, ReadsHold, Requesting
  <1>7. CASE Insert(w)
    <2>1. Requesting(w) /\ IndexAllows(job[w].user)
      BY <1>7 DEF Insert, Requesting, SerialInv, ReadsHold, IndexAllows
    <2>2. job'[w] = IdleJob
      BY <1>0, <1>7, <2>1 DEF Insert, Finish
    <2> QED
      BY <2>2 DEF IdleJob, Requesting
  <1>8. CASE ReadRaced(w)
    BY <1>8 DEF ReadRaced, Requesting, SerialInv, ReadsHold
  <1> QED
    BY <1>3, <1>4, <1>5, <1>6, <1>7, <1>8, RequestMoves

\* Opening a row: the requests of other users are not concerned, the one that
\* opened it is over, and it had seen every row of its user.
LEMMA SerialOpens ==
    ASSUME TypeOK, OneRequestPerUser, SerialInv, RowOpens
    PROVE  SerialInv'
  <1>0. job \in [Worker -> Job] /\ clock \in Nat /\ row \in [Cycle -> Row] /\ Throttle \in Nat
        /\ \A d \in Cycle : row[d].requested_at \in Nat
    BY TimeAssumption DEF TypeOK, Row
  <1>1. PICK c \in Cycle, v \in Worker :
          /\ row[c].lifecycle = "absent"
          /\ job[v].pc = "insert" /\ Finish(v)
          /\ clock' = clock
          /\ job[v].now \in Nat
          /\ ActiveOf(job[v].user) = {}
          /\ row'[c] = NewRow(job[v].user, job[v].trigger, job[v].now)
          /\ \A d \in Cycle \ {c} : row'[d] = row[d]
    BY OpenedRow
  <1>2. /\ row'[c].lifecycle = "requested" /\ row'[c].user = job[v].user
        /\ row'[c].trigger = job[v].trigger /\ row'[c].requested_at = job[v].now
    BY <1>1 DEF NewRow
  <1>3. Requesting(v) /\ job[v].now <= clock
    BY <1>1 DEF Requesting, SerialInv, ReadsHold
  <1>4. \A d \in RowsOf(job[v].user) : row[d].requested_at <= job[v].now
    BY <1>3 DEF SerialInv, ReadsHold
  <1>5. \A d \in Cycle : row'[d].requested_at <= clock'
    BY <1>1, <1>2, <1>3 DEF SerialInv
  <1>6. \A w \in Worker : ReadsHold(w)'
    <2> SUFFICES ASSUME NEW w \in Worker, Requesting(w)'
                 PROVE  ReadsHold(w)'
      BY DEF ReadsHold
    <2>1. w # v /\ job'[w] = job[w]
      BY <1>0, <1>1 DEF Finish, IdleJob, Requesting
    <2>2. Requesting(w) /\ job[w].user # job[v].user
      BY <1>3, <2>1 DEF OneRequestPerUser, Requesting
    <2>3. job[w].user \in User
      BY <2>2 DEF TypeOK
    <2>4. row[c].user # job[w].user \/ row[c].lifecycle = "absent"
      BY <1>1
    <2>u. PICK u : u = job[w].user
      OBVIOUS
    <2>5. RowsOf(u)' = RowsOf(u) /\ c \notin RowsOf(u)
      BY <1>1, <1>2, <2>2, <2>u DEF RowsOf
    <2>6. \A d \in RowsOf(u) : row'[d] = row[d]
      BY <1>1, <2>5 DEF RowsOf
    <2>7. ActiveOf(u) = {} => ActiveOf(u)' = {}
      BY <2>5, <2>6 DEF ActiveOf
    <2>8. \A t, n : Throttled(u, t, n)' <=> Throttled(u, t, n)
      BY <2>5, <2>6 DEF Throttled
    <2> QED
      BY <1>1, <2>1, <2>2, <2>u, <2>5, <2>6, <2>7, <2>8 DEF SerialInv, ReadsHold
  <1>7. ASSUME job[v].trigger = "scheduled_recheck", NEW d \in RowsOf(job[v].user)
        PROVE  job[v].now - row[d].requested_at >= Throttle
    <2>1. ~Throttled(job[v].user, job[v].trigger, job[v].now)
      BY <1>1, <1>3 DEF SerialInv, ReadsHold
    <2> QED
      BY <1>0, <1>1, <1>7, <2>1 DEF Throttled, RowsOf
  <1>8. ThrottleRespected'
    <2> SUFFICES
          ASSUME NEW a \in Cycle, NEW d \in Cycle, a # d,
                 row'[a].lifecycle # "absent", row'[d].lifecycle # "absent",
                 row'[a].user = row'[d].user,
                 row'[d].trigger = "scheduled_recheck",
                 \/ row'[a].requested_at < row'[d].requested_at
                 \/ /\ row'[a].requested_at = row'[d].requested_at
                    /\ row'[a].trigger = "scheduled_recheck"
          PROVE  row'[d].requested_at - row'[a].requested_at >= Throttle
      BY DEF ThrottleRespected
    <2>1. CASE a # c /\ d # c
      <3>1. row'[a] = row[a] /\ row'[d] = row[d]
        BY <1>1, <2>1
      <3> QED
        BY <3>1 DEF SerialInv, ThrottleRespected
    <2>2. CASE d = c
      <3>1. row'[a] = row[a] /\ a \in RowsOf(job[v].user)
        BY <1>1, <1>2, <2>2 DEF RowsOf
      <3> QED
        BY <1>2, <1>7, <2>2, <3>1
    <2>3. CASE a = c
      <3>1. row'[d] = row[d] /\ d \in RowsOf(job[v].user)
        BY <1>1, <1>2, <2>3 DEF RowsOf
      <3>2. row[d].requested_at <= job[v].now
        BY <1>4, <3>1
      <3>3. row[d].requested_at = job[v].now /\ job[v].trigger = "scheduled_recheck"
        BY <1>0, <1>1, <1>2, <2>3, <3>1, <3>2
      <3>4. job[v].now - row[d].requested_at >= Throttle
        BY <1>7, <3>1, <3>3
      <3> QED
        BY <1>0, <1>1, <1>2, <2>3, <3>1, <3>3, <3>4
    <2> QED
      BY <2>1, <2>2, <2>3
  <1> QED
    BY <1>5, <1>6, <1>8 DEF SerialInv

LEMMA SerialStep ==
    ASSUME TypeOK, OneRequestPerUser, SerialInv, [Next]_vars
    PROVE  SerialInv'
  <1>1. CASE RowOpens
    BY <1>1, SerialOpens
  <1>2. CASE RowExpires \/ RowClaimed \/ RowAdvances \/ RowCloses \/ UNCHANGED row
    <2>1. \A c \in Cycle : /\ row'[c].user = row[c].user
                           /\ row'[c].trigger = row[c].trigger
                           /\ row'[c].requested_at = row[c].requested_at
                           /\ (row'[c].lifecycle = "absent") <=> (row[c].lifecycle = "absent")
      BY <1>2, RowsKept
    <2>2. \A w \in Worker : ReadsHold(w)'
      BY <1>2, ReadsHoldKept
    <2>3. ThrottleRespected'
      BY <2>1 DEF SerialInv, ThrottleRespected
    <2>4. \A c \in Cycle : row'[c].requested_at <= clock'
      <3>1. clock \in Nat /\ \A c \in Cycle : row[c].requested_at \in Nat
        BY DEF TypeOK, Row
      <3>2. clock' \in Nat /\ clock <= clock'
        BY ClockAdvances
      <3> QED
        BY <2>1, <3>1, <3>2 DEF SerialInv
    <2> QED
      BY <2>2, <2>3, <2>4 DEF SerialInv
  <1> QED
    BY <1>1, <1>2, RowStepCases DEF RowStep5

\* A request that is not the user's own Check now never enqueues a cycle within
\* the throttle window of an earlier one, and a request is answered with a cycle
\* (request_session_verification), as long as the requests of one user do not
\* overlap: whatever completions, expiries, claims, crashes and requests of other
\* users run between its reads and its insert.
THEOREM SerialRequests ==
    Spec /\ []OneRequestPerUser => [](ThrottleRespected /\ RequestAnswered)
  <1>1. Init => SerialInv
    BY DEF Init, SerialInv, ReadsHold, Requesting, ThrottleRespected, AbsentRow, IdleJob
  <1>2. TypeOK /\ OneRequestPerUser /\ SerialInv /\ [Next]_vars => SerialInv'
    BY SerialStep
  <1>3. SerialInv => ThrottleRespected /\ RequestAnswered
    BY DEF SerialInv, ReadsHold, Requesting, RequestAnswered
  <1> QED
    BY <1>1, <1>2, <1>3, TypeInvariant, PTL DEF Spec

\* A server of one thread keeps the throttle, whatever the times, the crashes and
\* the cycles' fates are (the two-threaded one does not).
THEOREM ThrottleRespectedHolds ==
    ASSUME \A v, w \in Worker : v = w
    PROVE  Spec => []ThrottleRespected
  <1>1. OneRequestPerUser
    BY DEF OneRequestPerUser
  <1> QED
    BY <1>1, SerialRequests, PTL
=============================================================================
