------------------------ MODULE AmexAccessCycleProofs ------------------------
(***************************************************************************)
(* Proofs about AmexAccessCycle.                                           *)
(***************************************************************************)
EXTENDS AmexAccessCycle, TLAPS

ProbePc   == {"probe_store", "probe_finish"}
CyclePc   == ProbePc \cup {"mark", "apply", "refused", "extract_failed", "snapshot",
                           "extract_store", "extract_done"}

Shape ==
    /\ \A r \in Runner : IF run[r].pc = "idle" THEN run[r] = IdleRun
                         ELSE run[r].cycle \in Cycle
    /\ \A w \in Worker : job[w].pc = "idle" => job[w] = IdleJob
    /\ \A w \in Worker : job[w].pc \in CyclePc => job[w].cycle \in Cycle
    /\ \A w \in Worker : job[w].pc = "move" => job[w].target # "none"
    /\ \A w \in Worker : job[w].for # NoRunner =>
           /\ job[w].pc \in CyclePc
           /\ run[job[w].for].pc \in Waiting
           /\ run[job[w].for].cycle = job[w].cycle
    /\ \A w, v \in Worker : w # v => job[w].for = NoRunner \/ job[w].for # job[v].for
    /\ sw.active # NoRunner => run[sw.active].pc # "idle"

Typed == TypeOK /\ Shape

-----------------------------------------------------------------------------
(* Types of the operators. *)

LEMMA EvidenceTyped ==
    ASSUME NEW r, NEW at \in Nat, Decision(r) # "inconclusive"
    PROVE  EvidenceOf(r, at) \in Evidence
BY DEF EvidenceOf, Evidence, Decision, DecidedType, EvidenceType, Source

LEMMA ReportTyped ==
    ASSUME NEW state \in {"connected", "signed_out"}, NEW type \in EvidenceType,
           NEW at \in Nat
    PROVE  Report(state, type, at) \in Evidence
BY DEF Report, Evidence, Source

LEMMA StageTyped ==
    ASSUME TypeOK, NEW c \in Cycle
    PROVE  /\ \A result \in Ended : Closed(c, result) \in [Cycle -> Stage]
           /\ Claimed(c) \in [Cycle -> Stage]
           /\ \A to \in MidCycle : Advanced(c, to) \in [Cycle -> Stage]
BY DEF TypeOK, Closed, Claimed, Advanced, Stage, Active, Claimable, MidCycle

LEMMA PageTyped == ErrorPage \in Page
BY DEF ErrorPage, Page, Failure, Event, NoEvent, NoTime

LEMMA IdleTyped == IdleRun \in Run /\ IdleJob \in Job /\ IdleWorker \in Globals
BY PageTyped DEF IdleRun, IdleJob, IdleWorker, Run, Job, Globals, RunPc, JobPc, StoredEvidence,
   Connection, NoCycle

LEMMA AfterProbeTyped ==
    ASSUME NEW q \in Run, NEW decision
    PROVE  /\ AfterProbe(q, decision) \in Run
           /\ AfterProbe(q, decision).pc \in {"finish", "start", "complete"}
           /\ AfterProbe(q, decision).cycle = q.cycle
BY PageTyped DEF AfterProbe, Run, RunPc

LEMMA WrittenTyped ==
    ASSUME TypeOK, NEW w \in Worker PROVE Written(w) \in StoredEvidence
BY DEF Written, TypeOK, Job

-----------------------------------------------------------------------------
LEMMA InitTyped == Init => Typed
BY IdleTyped, LimitAssumption, PageAssumption, ReportAssumption
   DEF Init, Typed, TypeOK, Shape, StoredEvidence, AccountRow, Stage, NoCycle,
       Connection, IdleJob, IdleRun, IdleWorker, CyclePc, ProbePc

\* A job that ends, after answering the run that waits for it, if any.
LEMMA AnswerTyped ==
    ASSUME Typed, NEW w \in Worker, Free(w), sw' \in Globals, sw'.active = sw.active,
           \/ job[w].for = NoRunner /\ run' = run
           \/ /\ job[w].for # NoRunner
              /\ \E q \in Run : /\ run' = [run EXCEPT ![job[w].for] = q]
                                /\ q.pc # "idle" /\ q.cycle = job[w].cycle
    PROVE  run' \in [Runner -> Run] /\ job' \in [Worker -> Job] /\ Shape'
<1>1. job' \in [Worker -> Job] /\ job' = [job EXCEPT ![w] = IdleJob]
  BY IdleTyped DEF Free, Typed, TypeOK
<1>2. CASE job[w].for = NoRunner
  BY <1>1, <1>2 DEF Typed, TypeOK, Shape, IdleJob, CyclePc, ProbePc
<1>3. CASE job[w].for # NoRunner
  <2>1. PICK q \in Run : /\ run' = [run EXCEPT ![job[w].for] = q]
                         /\ q.pc # "idle" /\ q.cycle = job[w].cycle
    BY <1>3
  <2>2. job[w].for \in Runner /\ job[w].cycle \in Cycle
    BY <1>3 DEF Typed, TypeOK, Job, Shape
  <2> DEFINE r == job[w].for
  <2>3. run' \in [Runner -> Run] /\ run'[r] = q /\ \A x \in Runner \ {r} : run'[x] = run[x]
    BY <2>1, <2>2 DEF Typed, TypeOK
  <2>4. \A v \in Worker \ {w} : job'[v] = job[v] /\ job[v].for # r
    BY <1>1, <1>3 DEF Typed, TypeOK, Shape
  <2>5. job'[w] = IdleJob
    BY <1>1 DEF Typed, TypeOK
  <2>6. \A v \in Worker : job'[v].for # NoRunner => v # w /\ run'[job'[v].for] = run[job[v].for]
    BY <2>3, <2>4, <2>5 DEF IdleJob, Typed, TypeOK, Job
  <2>7. sw.active \in Runner \cup {NoRunner}
    BY DEF Typed, TypeOK, Globals
  <2> HIDE DEF r
  <2>8. \A x \in Runner : IF run'[x].pc = "idle" THEN run'[x] = IdleRun
                          ELSE run'[x].cycle \in Cycle
    BY <2>1, <2>2, <2>3 DEF Typed, Shape
  <2>9. \A v \in Worker : /\ job'[v].pc = "idle" => job'[v] = IdleJob
                          /\ job'[v].pc \in CyclePc => job'[v].cycle \in Cycle
                          /\ job'[v].pc = "move" => job'[v].target # "none"
    BY <2>4, <2>5 DEF Typed, Shape, IdleJob, CyclePc, ProbePc
  <2>10. \A v \in Worker : job'[v].for # NoRunner =>
           /\ job'[v].pc \in CyclePc
           /\ run'[job'[v].for].pc \in Waiting
           /\ run'[job'[v].for].cycle = job'[v].cycle
    BY <2>4, <2>6 DEF Typed, Shape
  <2>11. \A u, v \in Worker : u # v => job'[u].for = NoRunner \/ job'[u].for # job'[v].for
    BY <2>4, <2>5 DEF Typed, Shape, IdleJob
  <2>12. sw'.active # NoRunner => run'[sw'.active].pc # "idle"
    BY <2>1, <2>3, <2>7 DEF Typed, Shape
  <2> QED BY <1>1, <2>3, <2>8, <2>9, <2>10, <2>11, <2>12 DEF Shape
<1> QED BY <1>2, <1>3

LEMMA ProbeStepTyped ==
    ASSUME Typed, NEW w \in Worker, StoreProbe(w) \/ FinishProbe(w)
    PROVE  Typed'
<1>1. CASE StoreProbe(w)
  BY <1>1, WrittenTyped DEF StoreProbe, Typed, TypeOK, Shape, CyclePc, ProbePc, Job, JobPc
<1>2. CASE FinishProbe(w)
  <2> DEFINE decision == job[w].evidence.state
  <2>1. job[w].cycle \in Cycle /\ job[w].for \in Runner \cup {NoRunner}
    BY <1>2 DEF FinishProbe, Typed, TypeOK, Shape, CyclePc, ProbePc, Job
  <2>2. stage' \in [Cycle -> Stage]
    BY <1>2, <2>1, StageTyped DEF FinishProbe, Typed, MidCycle, Ended
  <2>3. sw' \in Globals /\ sw'.active = sw.active
    BY <1>2, <2>1 DEF FinishProbe, PastProbe, Typed, TypeOK, Globals
  <2>4. CASE job[w].for = NoRunner
    <3>1. run' = run
      BY <1>2, <2>4 DEF FinishProbe, ProbeAnswered
    <3> QED BY <1>2, <2>2, <2>3, <2>4, <3>1, AnswerTyped DEF FinishProbe, Typed, TypeOK, tables
  <2>5. CASE job[w].for # NoRunner
    <3>1. run[job[w].for] \in Run /\ run[job[w].for].cycle = job[w].cycle
      BY <2>1, <2>5 DEF Typed, TypeOK, Shape
    <3>2. PICK d : run' = [run EXCEPT ![job[w].for] =
                           IF run[job[w].for].pc = "probing" THEN AfterProbe(run[job[w].for], d)
                           ELSE [run[job[w].for] EXCEPT !.pc = "finish"]]
      BY <1>2, <2>5 DEF FinishProbe, ProbeAnswered
    <3>3. \E q \in Run : /\ run' = [run EXCEPT ![job[w].for] = q]
                         /\ q.pc # "idle" /\ q.cycle = job[w].cycle
      <4> DEFINE q == run[job[w].for]
      <4>1. q \in Run /\ q.cycle = job[w].cycle
        BY <3>1
      <4> HIDE DEF q
      <4>2. AfterProbe(q, d) \in Run /\ AfterProbe(q, d).pc # "idle"
            /\ AfterProbe(q, d).cycle = job[w].cycle
        BY <4>1, AfterProbeTyped
      <4>3. [q EXCEPT !.pc = "finish"] \in Run /\ [q EXCEPT !.pc = "finish"].pc # "idle"
            /\ [q EXCEPT !.pc = "finish"].cycle = job[w].cycle
        BY <4>1 DEF Run, RunPc
      <4>4. run' = [run EXCEPT ![job[w].for] = IF q.pc = "probing" THEN AfterProbe(q, d)
                                               ELSE [q EXCEPT !.pc = "finish"]]
        BY <3>2 DEF q
      <4> QED BY <4>2, <4>3, <4>4
    <3> QED BY <1>2, <2>2, <2>3, <2>5, <3>3, AnswerTyped DEF FinishProbe, Typed, TypeOK, tables
  <2> QED BY <2>4, <2>5
<1> QED BY <1>1, <1>2

\* A job that takes its next step, and touches no run.
LEMMA MoveOnTyped ==
    ASSUME Typed, NEW w \in Worker, NEW j \in Job,
           job' = [job EXCEPT ![w] = j], UNCHANGED <<run, sw>>,
           j = IdleJob \/ j.pc # "idle",
           j.for = NoRunner \/ (j.for = job[w].for /\ j.pc \in CyclePc /\ j.cycle = job[w].cycle),
           j.pc \in CyclePc => j.cycle \in Cycle,
           j.pc = "move" => j.target # "none"
    PROVE  job' \in [Worker -> Job] /\ Shape'
<1>1. job' \in [Worker -> Job] /\ job'[w] = j /\ \A v \in Worker \ {w} : job'[v] = job[v]
  BY DEF Typed, TypeOK
<1>2. \A v \in Worker : /\ job'[v].pc = "idle" => job'[v] = IdleJob
                        /\ job'[v].pc \in CyclePc => job'[v].cycle \in Cycle
                        /\ job'[v].pc = "move" => job'[v].target # "none"
  BY <1>1 DEF Typed, Shape
<1>3. \A v \in Worker : job'[v].for # NoRunner =>
           /\ job'[v].pc \in CyclePc
           /\ run[job'[v].for].pc \in Waiting
           /\ run[job'[v].for].cycle = job'[v].cycle
  BY <1>1 DEF Typed, Shape
<1>4. \A u, v \in Worker : u # v => job'[u].for = NoRunner \/ job'[u].for # job'[v].for
  BY <1>1 DEF Typed, Shape
<1> QED BY <1>1, <1>2, <1>3, <1>4 DEF Shape, Typed

LEMMA ExtractStepTyped ==
    ASSUME Typed, NEW w \in Worker,
           \/ MarkExtracting(w) \/ ApplyExtraction(w) \/ RefuseExtraction(w)
           \/ BreakExtraction(w) \/ StoreFailure(w) \/ PublishSnapshot(w)
           \/ StoreExtractEvidence(w)
    PROVE  Typed'
<1>0. job[w] \in Job /\ account \in AccountRow /\ now \in Nat /\ session \in StoredEvidence
  BY LimitAssumption DEF Typed, TypeOK
<1>1. CASE MarkExtracting(w)
  <2> DEFINE j == [job[w] EXCEPT !.pc = "apply", !.items = account.items]
  <2>1. j \in Job /\ job[w].cycle \in Cycle
    BY <1>0, <1>1 DEF MarkExtracting, Typed, Shape, CyclePc, Job, JobPc, AccountRow
  <2>2. job' = [job EXCEPT ![w] = j]
    BY <1>0, <1>1 DEF MarkExtracting, Typed, TypeOK
  <2>3. stage' \in [Cycle -> Stage]
    BY <1>1, <2>1, StageTyped DEF MarkExtracting, Typed, MidCycle
  <2>4. job' \in [Worker -> Job] /\ Shape'
    BY <1>0, <1>1, <2>1, <2>2, MoveOnTyped DEF MarkExtracting, CyclePc, Job
  <2> QED BY <1>1, <2>3, <2>4 DEF MarkExtracting, Typed, TypeOK, tables
<1>2. CASE ApplyExtraction(w)
  <2> DEFINE j == [job[w] EXCEPT !.pc = "snapshot"]
  <2>1. j \in Job /\ job[w].cycle \in Cycle
    BY <1>0, <1>2 DEF ApplyExtraction, Typed, Shape, CyclePc, Job, JobPc, AccountRow
  <2>2. job' = [job EXCEPT ![w] = j]
    BY <1>0, <1>2 DEF ApplyExtraction, Typed, TypeOK
  <2>3. account' \in AccountRow /\ stored' \subseteq Cycle
    BY <1>0, <1>2, <2>1 DEF ApplyExtraction, Typed, TypeOK, AccountRow
  <2>4. job' \in [Worker -> Job] /\ Shape'
    BY <1>0, <1>2, <2>1, <2>2, MoveOnTyped DEF ApplyExtraction, CyclePc, Job
  <2> QED BY <1>2, <2>3, <2>4 DEF ApplyExtraction, Typed, TypeOK
<1>3. CASE RefuseExtraction(w)
  <2> DEFINE j == [job[w] EXCEPT !.pc = "refused", !.items = account.items]
  <2>1. j \in Job /\ job[w].cycle \in Cycle
    BY <1>0, <1>3 DEF RefuseExtraction, Typed, Shape, CyclePc, Job, JobPc, AccountRow
  <2>2. job' = [job EXCEPT ![w] = j]
    BY <1>0, <1>3 DEF RefuseExtraction, Typed, TypeOK
  <2>3. job' \in [Worker -> Job] /\ Shape'
    BY <1>0, <1>3, <2>1, <2>2, MoveOnTyped DEF RefuseExtraction, CyclePc, Job
  <2> QED BY <1>3, <2>3 DEF RefuseExtraction, Typed, TypeOK, tables
<1>4. CASE StoreFailure(w)
  <2> DEFINE j == [job[w] EXCEPT !.pc = "extract_failed"]
  <2>1. j \in Job /\ job[w].cycle \in Cycle
    BY <1>0, <1>4 DEF StoreFailure, Typed, Shape, CyclePc, Job, JobPc, AccountRow
  <2>2. job' = [job EXCEPT ![w] = j]
    BY <1>0, <1>4 DEF StoreFailure, Typed, TypeOK
  <2>3. account' \in AccountRow
    BY <1>0, <1>4 DEF StoreFailure, Job, AccountRow
  <2>4. job' \in [Worker -> Job] /\ Shape'
    BY <1>0, <1>4, <2>1, <2>2, MoveOnTyped DEF StoreFailure, CyclePc, Job
  <2> QED BY <1>4, <2>3, <2>4 DEF StoreFailure, Typed, TypeOK
<1>5. CASE PublishSnapshot(w)
  <2> DEFINE e == Report("connected", "session_verified_extract", now)
             j == WithEvidence([job[w] EXCEPT !.pc = "extract_store"], e)
  <2>1. e \in StoredEvidence
    BY <1>0, ReportTyped DEF StoredEvidence, EvidenceType
  <2> HIDE DEF e
  <2>2. j \in Job /\ job[w].cycle \in Cycle
    BY <1>0, <1>5, <2>1 DEF PublishSnapshot, WithEvidence, Typed, Shape, CyclePc, Job, JobPc
  <2>3. job' = [job EXCEPT ![w] = j]
    BY <1>0, <1>5 DEF PublishSnapshot, Typed, TypeOK, e
  <2>4. job' \in [Worker -> Job] /\ Shape'
    BY <1>0, <1>5, <2>2, <2>3, MoveOnTyped DEF PublishSnapshot, WithEvidence, CyclePc, Job
  <2>5. snapshots' \subseteq Cycle
    BY <1>5, <2>2 DEF PublishSnapshot, Typed, TypeOK
  <2> QED BY <1>5, <2>4, <2>5 DEF PublishSnapshot, Typed, TypeOK
<1>6. CASE StoreExtractEvidence(w)
  <2> DEFINE j == [job[w] EXCEPT !.pc = "extract_done"]
  <2>1. j \in Job /\ job[w].cycle \in Cycle
    BY <1>0, <1>6 DEF StoreExtractEvidence, Typed, Shape, CyclePc, Job, JobPc
  <2>2. job' = [job EXCEPT ![w] = j]
    BY <1>0, <1>6 DEF StoreExtractEvidence, Typed, TypeOK
  <2>3. job' \in [Worker -> Job] /\ Shape'
    BY <1>0, <1>6, <2>1, <2>2, MoveOnTyped DEF StoreExtractEvidence, CyclePc, Job
  <2> QED BY <1>6, <2>3, WrittenTyped DEF StoreExtractEvidence, Typed, TypeOK
<1>7. CASE BreakExtraction(w)
  <2> DEFINE j == [job[w] EXCEPT !.pc = "refused", !.items = account.items]
  <2>1. j \in Job /\ job[w].cycle \in Cycle
    BY <1>0, <1>7 DEF BreakExtraction, Typed, Shape, CyclePc, Job, JobPc, AccountRow
  <2>2. job' = [job EXCEPT ![w] = j]
    BY <1>0, <1>7 DEF BreakExtraction, Typed, TypeOK
  <2>3. job' \in [Worker -> Job] /\ Shape'
    BY <1>0, <1>7, <2>1, <2>2, MoveOnTyped DEF BreakExtraction, CyclePc, Job
  <2>4. snapshots' \subseteq Cycle
    BY <1>7, <2>1 DEF BreakExtraction, Typed, TypeOK
  <2> QED BY <1>7, <2>3, <2>4 DEF BreakExtraction, Typed, TypeOK
<1> QED BY <1>1, <1>2, <1>3, <1>4, <1>5, <1>6, <1>7

LEMMA ExtractEndTyped ==
    ASSUME Typed, NEW w \in Worker, FailExtraction(w) \/ CompleteExtraction(w)
    PROVE  Typed'
<1>1. job[w].cycle \in Cycle /\ job[w].for \in Runner \cup {NoRunner} /\ sw' = sw
      /\ Free(w) /\ UNCHANGED <<tables, now, faults>>
  BY DEF FailExtraction, CompleteExtraction, Typed, TypeOK, Shape, CyclePc, Job
<1>2. stage' \in [Cycle -> Stage]
  BY <1>1, StageTyped DEF FailExtraction, CompleteExtraction, Typed, Ended
<1>3. sw' \in Globals /\ sw'.active = sw.active
  BY <1>1 DEF Typed, TypeOK
<1>4. CASE job[w].for = NoRunner
  <2>1. run' = run
    BY <1>4 DEF FailExtraction, CompleteExtraction, ExtractAnswered
  <2> QED BY <1>1, <1>2, <1>3, <1>4, <2>1, AnswerTyped DEF Typed, TypeOK, tables
<1>5. CASE job[w].for # NoRunner
  <2> DEFINE q == run[job[w].for]
  <2>1. q \in Run /\ q.cycle = job[w].cycle
    BY <1>1, <1>5 DEF Typed, TypeOK, Shape
  <2>2. PICK pc \in {"finish", "complete"} : run' = [run EXCEPT ![job[w].for].pc = pc]
    BY <1>5 DEF FailExtraction, CompleteExtraction, ExtractAnswered
  <2>3. run' = [run EXCEPT ![job[w].for] = [q EXCEPT !.pc = pc]]
    BY <1>1, <1>5, <2>2 DEF Typed, TypeOK
  <2> HIDE DEF q
  <2>4. [q EXCEPT !.pc = pc] \in Run /\ [q EXCEPT !.pc = pc].pc # "idle"
        /\ [q EXCEPT !.pc = pc].cycle = job[w].cycle
    BY <2>1 DEF Run, RunPc
  <2> QED BY <1>1, <1>2, <1>3, <1>5, <2>3, <2>4, AnswerTyped DEF Typed, TypeOK, tables
<1> QED BY <1>4, <1>5

LEMMA ConnectionStepTyped ==
    ASSUME Typed, NEW w \in Worker,
           Move(w) \/ MarkPending(w) \/ StoreReport(w)
    PROVE  Typed'
<1>0. job[w] \in Job /\ account \in AccountRow /\ now \in Nat /\ session \in StoredEvidence
  BY LimitAssumption DEF Typed, TypeOK
<1>1. \A s \in {"connected", "signed_out"}, t \in EvidenceType :
          Report(s, t, now) \in StoredEvidence
  BY <1>0, ReportTyped DEF StoredEvidence
<1>2. CASE Move(w)
  <2>0. job[w].for = NoRunner
    BY <1>2 DEF Move, Typed, Shape, CyclePc, ProbePc
  <2>1. account' \in AccountRow
    BY <1>0, <1>2 DEF Move, AccountRow, Job
  <2>2. CASE job[w].target = "needs_login"
    <3> DEFINE e == Report("signed_out", "login_required", now)
               j == WithEvidence([job[w] EXCEPT !.pc = "report_store", !.items = NoCycle,
                                                !.took = "needs_login"], e)
    <3>1. e \in StoredEvidence
      BY <1>1 DEF EvidenceType
    <3>2. job' = [job EXCEPT ![w] = j]
      BY <1>2, <2>2 DEF Move, Typed, TypeOK
    <3> HIDE DEF e
    <3>3. j \in Job /\ j.pc = "report_store" /\ j.for = NoRunner
      BY <1>0, <2>0, <3>1 DEF WithEvidence, Job, JobPc, Connection
    <3> HIDE DEF j
    <3>4. job' \in [Worker -> Job] /\ Shape'
      BY <1>2, <3>2, <3>3, MoveOnTyped DEF Move, CyclePc, ProbePc
    <3> QED BY <1>2, <2>1, <3>4 DEF Move, Typed, TypeOK
  <2>3. CASE job[w].target = "connected"
    <3> DEFINE j == [job[w] EXCEPT !.pc = "pending", !.took = "connected"]
    <3>2. job' = [job EXCEPT ![w] = j]
      BY <1>2, <2>3 DEF Move, Typed, TypeOK
    <3>3. j \in Job /\ j.pc = "pending" /\ j.for = NoRunner
      BY <1>0, <2>0 DEF Job, JobPc, Connection
    <3> HIDE DEF j
    <3>4. job' \in [Worker -> Job] /\ Shape'
      BY <1>2, <3>2, <3>3, MoveOnTyped DEF Move, CyclePc, ProbePc
    <3> QED BY <1>2, <2>1, <3>4 DEF Move, Typed, TypeOK
  <2>4. CASE job[w].target \notin {"needs_login", "connected"}
    <3>1. job' = [job EXCEPT ![w] = IdleJob]
      BY <1>2, <2>4 DEF Move, Typed, TypeOK
    <3>2. job' \in [Worker -> Job] /\ Shape'
      BY <1>2, <3>1, MoveOnTyped, IdleTyped DEF Move, CyclePc, ProbePc, IdleJob
    <3> QED BY <1>2, <2>1, <3>2 DEF Move, Typed, TypeOK
  <2> QED BY <2>2, <2>3, <2>4
<1>3. CASE MarkPending(w)
  <2> DEFINE e == Report("connected", "session_verified", now)
             j == WithEvidence([job[w] EXCEPT !.pc = "report_store", !.items = NoCycle], e)
  <2>0. job[w].for = NoRunner
    BY <1>3 DEF MarkPending, Typed, Shape, CyclePc, ProbePc
  <2>1. account' \in AccountRow
    BY <1>0, <1>3 DEF MarkPending, AccountRow, NoCycle
  <2>2. job' = [job EXCEPT ![w] = j]
    BY <1>3 DEF MarkPending, Typed, TypeOK
  <2>3. e \in StoredEvidence
    BY <1>1 DEF EvidenceType
  <2> HIDE DEF e
  <2>4. j \in Job /\ j.pc = "report_store" /\ j.for = NoRunner
    BY <1>0, <2>0, <2>3 DEF WithEvidence, Job, JobPc
  <2> HIDE DEF j
  <2>5. job' \in [Worker -> Job] /\ Shape'
    BY <1>3, <2>2, <2>4, MoveOnTyped DEF MarkPending, CyclePc, ProbePc
  <2> QED BY <1>3, <2>1, <2>5 DEF MarkPending, Typed, TypeOK
<1>4. CASE StoreReport(w)
  <2>1. job' = [job EXCEPT ![w] = IdleJob]
    BY <1>4 DEF StoreReport, Free
  <2>2. job' \in [Worker -> Job] /\ Shape'
    BY <1>4, <2>1, MoveOnTyped, IdleTyped DEF StoreReport, CyclePc, ProbePc, IdleJob
  <2> QED BY <1>4, <2>2, WrittenTyped DEF StoreReport, Typed, TypeOK
<1> QED BY <1>2, <1>3, <1>4

-----------------------------------------------------------------------------
\* A run that takes its next step while no request of it is served.
LEMMA RunOnTyped ==
    ASSUME Typed, NEW r \in Runner, NEW q \in Run,
           run' = [run EXCEPT ![r] = q], job' = job, sw' \in Globals,
           run[r].pc \notin Waiting \/ Serving(r) = {},
           IF q.pc = "idle" THEN q = IdleRun /\ sw'.active = NoRunner ELSE q.cycle \in Cycle,
           sw'.active \in {sw.active, NoRunner, r}
    PROVE  run' \in [Runner -> Run] /\ Shape'
<1>1. run' \in [Runner -> Run] /\ run'[r] = q /\ \A x \in Runner \ {r} : run'[x] = run[x]
  BY DEF Typed, TypeOK
<1>2. \A w \in Worker : job[w].for # r
  BY RunnerAssumption DEF Typed, Shape, Serving
<1>3. \A w \in Worker : job[w].for \in Runner \cup {NoRunner}
  BY DEF Typed, TypeOK, Job
<1>4. \A x \in Runner : IF run'[x].pc = "idle" THEN run'[x] = IdleRun
                        ELSE run'[x].cycle \in Cycle
  BY <1>1 DEF Typed, Shape
<1>5. \A w \in Worker : job'[w].for # NoRunner =>
          /\ job'[w].pc \in CyclePc
          /\ run'[job'[w].for].pc \in Waiting
          /\ run'[job'[w].for].cycle = job'[w].cycle
  BY <1>1, <1>2, <1>3 DEF Typed, Shape
<1>6. sw'.active # NoRunner => run'[sw'.active].pc # "idle"
  BY <1>1 DEF Typed, Shape, TypeOK, Globals
<1> QED BY <1>1, <1>4, <1>5, <1>6 DEF Shape, Typed

\* A run that posts a request a thread accepts.
LEMMA PostTyped ==
    ASSUME Typed, NEW r \in Runner, NEW w \in Worker, NEW q \in Run, NEW j \in Job,
           run' = [run EXCEPT ![r] = q], job' = [job EXCEPT ![w] = j], sw' = sw,
           run[r].pc \notin Waiting, q.pc \in Waiting, q.cycle \in Cycle,
           job[w].pc = "idle", j.pc \in CyclePc, j.for = r, j.cycle = q.cycle
    PROVE  run' \in [Runner -> Run] /\ job' \in [Worker -> Job] /\ Shape'
<1>1. run' \in [Runner -> Run] /\ run'[r] = q /\ \A x \in Runner \ {r} : run'[x] = run[x]
  BY DEF Typed, TypeOK
<1>2. job' \in [Worker -> Job] /\ job'[w] = j /\ \A v \in Worker \ {w} : job'[v] = job[v]
  BY DEF Typed, TypeOK
<1>3. \A v \in Worker : job[v].for # r
  BY RunnerAssumption DEF Typed, Shape
<1>4. \A v \in Worker : job[v].for \in Runner \cup {NoRunner}
  BY DEF Typed, TypeOK, Job
<1>5. q.pc # "idle" /\ j.pc # "idle" /\ j.pc # "move"
  BY DEF Waiting, CyclePc, ProbePc
<1>6. \A x \in Runner : IF run'[x].pc = "idle" THEN run'[x] = IdleRun
                        ELSE run'[x].cycle \in Cycle
  BY <1>1, <1>5 DEF Typed, Shape
<1>7. \A v \in Worker : /\ job'[v].pc = "idle" => job'[v] = IdleJob
                        /\ job'[v].pc \in CyclePc => job'[v].cycle \in Cycle
                        /\ job'[v].pc = "move" => job'[v].target # "none"
  BY <1>2, <1>5 DEF Typed, Shape
<1>8. \A v \in Worker : job'[v].for # NoRunner =>
          /\ job'[v].pc \in CyclePc
          /\ run'[job'[v].for].pc \in Waiting
          /\ run'[job'[v].for].cycle = job'[v].cycle
  BY <1>1, <1>2, <1>3, <1>4 DEF Typed, Shape
<1>9. \A u, v \in Worker : u # v => job'[u].for = NoRunner \/ job'[u].for # job'[v].for
  BY <1>2, <1>3 DEF Typed, Shape
<1>10. sw'.active # NoRunner => run'[sw'.active].pc # "idle"
  BY <1>1, <1>5 DEF Typed, Shape, TypeOK, Globals
<1> QED BY <1>1, <1>2, <1>6, <1>7, <1>8, <1>9, <1>10 DEF Shape

LEMMA ClearedTyped == Typed => Cleared(sw) \in Globals /\ Cleared(sw).active = NoRunner
BY DEF Typed, TypeOK, Globals, Cleared

LEMMA PollTyped ==
    ASSUME Typed, NEW r \in Runner, NEW c \in Cycle, Poll(r, c) PROVE Typed'
<1> DEFINE q == [IdleRun EXCEPT !.pc = "claim", !.cycle = c]
<1>1. q \in Run /\ q.pc = "claim" /\ q.cycle = c
  BY IdleTyped DEF Run, RunPc
<1>2. run' = [run EXCEPT ![r] = q] /\ run[r].pc \notin Waiting
  BY DEF Poll, Waiting
<1>3. sw' \in Globals /\ sw'.active = r
  BY DEF Poll, Typed, TypeOK, Globals
<1> HIDE DEF q
<1>4. run' \in [Runner -> Run] /\ Shape'
  BY <1>1, <1>2, <1>3, RunOnTyped DEF Poll
<1> QED BY <1>3, <1>4 DEF Poll, Typed, TypeOK, tables

\* The steps that move a run's counter, and perhaps the cycle, and nothing else.
LEMMA PlainStepTyped ==
    ASSUME Typed, NEW r \in Runner, NEW pc \in RunPc \ {"idle"},
           NEW v \in {"failed", "timed_out", "no_data"}, NEW p \in Page,
           run' = [run EXCEPT ![r] = [run[r] EXCEPT !.pc = pc, !.verdict = v, !.page = p]],
           run[r].pc # "idle", run[r].pc \notin Waiting,
           sw' \in Globals, sw'.active = sw.active, stage' \in [Cycle -> Stage],
           faults' \in 0 .. MaxFault, UNCHANGED <<tables, now, job>>
    PROVE  Typed'
<1> DEFINE q == [run[r] EXCEPT !.pc = pc, !.verdict = v, !.page = p]
<1>1. run[r] \in Run /\ run[r].cycle \in Cycle
  BY DEF Typed, TypeOK, Shape
<1>2. q \in Run /\ q.pc = pc /\ q.cycle \in Cycle
  BY <1>1 DEF Run
<1>3. run' = [run EXCEPT ![r] = q]
  OBVIOUS
<1> HIDE DEF q
<1>4. run' \in [Runner -> Run] /\ Shape'
  BY <1>2, <1>3, RunOnTyped
<1> QED BY <1>4 DEF Typed, TypeOK, tables

LEMMA FaultTyped == Typed /\ Fault => faults' \in 0 .. MaxFault
BY LimitAssumption DEF Fault, Typed, TypeOK

LEMMA PlainStepsTyped ==
    ASSUME Typed, NEW r \in Runner,
           \/ Claim(r) \/ ClaimLost(r) \/ Duplicate(r) \/ Start(r) \/ Advance(r)
           \/ AdvanceLost(r) \/ ExtractorFails(r) \/ NoAccountData(r)
           \/ NoAccountDataLost(r) \/ Complete(r) \/ CompleteLost(r)
           \/ \E v \in {"failed", "timed_out"} : GiveUp(r, v)
           \/ \E p \in PageSeen \cup {ErrorPage} : PostProbeLost(r, p)
    PROVE  Typed'
<1>1. run[r] \in Run /\ run[r].pc # "idle" /\ run[r].pc \notin Waiting
  BY DEF Claim, ClaimLost, Duplicate, Start, Advance, AdvanceLost, ExtractorFails, NoAccountData,
         NoAccountDataLost, Complete, CompleteLost, Verdict, GiveUp, PostProbeLost, Waiting,
         Typed, TypeOK
<1>2. run[r].cycle \in Cycle
  BY <1>1 DEF Typed, Shape
<1>3. \E pc \in RunPc \ {"idle"}, v \in {"failed", "timed_out", "no_data"}, p \in Page :
          run' = [run EXCEPT ![r] = [run[r] EXCEPT !.pc = pc, !.verdict = v, !.page = p]]
  <2> DEFINE G(pc, v, p) ==
          run' = [run EXCEPT ![r] = [run[r] EXCEPT !.pc = pc, !.verdict = v, !.page = p]]
  <2>0. run[r].verdict \in {"failed", "timed_out", "no_data"} /\ run[r].page \in Page
    BY <1>1 DEF Run
  <2>1. ASSUME NEW pc \in RunPc \ {"idle"}, Step(r, pc)
        PROVE  G(pc, run[r].verdict, run[r].page)
    BY <1>1, <2>1 DEF Step, Run, Typed, TypeOK
  <2>2. ASSUME NEW pc \in RunPc \ {"idle"}, NEW v \in {"failed", "timed_out", "no_data"},
               run' = [run EXCEPT ![r].pc = pc, ![r].verdict = v]
        PROVE  G(pc, v, run[r].page)
    BY <1>1, <2>2 DEF Run, Typed, TypeOK
  <2>3. ASSUME NEW pc \in RunPc \ {"idle"}, NEW p \in Page,
               run' = [run EXCEPT ![r].pc = pc, ![r].page = p]
        PROVE  G(pc, run[r].verdict, p)
    BY <1>1, <2>3 DEF Run, Typed, TypeOK
  <2> HIDE DEF G
  <2>4. CASE \E pc \in RunPc \ {"idle"} : Step(r, pc)
    BY <2>0, <2>1, <2>4 DEF G
  <2>5. CASE \E pc \in RunPc \ {"idle"}, v \in {"failed", "timed_out", "no_data"} :
                 run' = [run EXCEPT ![r].pc = pc, ![r].verdict = v]
    BY <2>0, <2>2, <2>5 DEF G
  <2>6. CASE \E p \in PageSeen \cup {ErrorPage} : PostProbeLost(r, p)
    <3>1. PICK p \in PageSeen \cup {ErrorPage} :
              run' = [run EXCEPT ![r].pc = "probing", ![r].page = p]
      BY <2>6 DEF PostProbeLost
    <3>2. p \in Page /\ "probing" \in RunPc \ {"idle"}
      BY PageAssumption, PageTyped DEF RunPc, Waiting
    <3>3. G("probing", run[r].verdict, p)
      BY <2>3, <3>1, <3>2
    <3> QED BY <2>0, <3>2, <3>3 DEF G
  <2>7. CASE NoAccountData(r)
    <3>1. CASE stage[run[r].cycle] \in Active \ {"requested"}
      BY <2>4, <2>7, <3>1 DEF NoAccountData, RunPc
    <3>2. CASE stage[run[r].cycle] \notin Active \ {"requested"}
      <4>1. \E pc \in {"finish", "complete"} :
                run' = [run EXCEPT ![r].pc = pc, ![r].verdict = "no_data"]
        BY <2>7, <3>2 DEF NoAccountData
      <4> QED BY <2>5, <4>1 DEF RunPc
    <3> QED BY <3>1, <3>2
  <2>8. CASE \E v \in {"failed", "timed_out"} : GiveUp(r, v)
    BY <2>5, <2>8 DEF GiveUp, RunPc
  <2> QED BY <2>4, <2>5, <2>6, <2>7, <2>8
       DEF Claim, ClaimLost, Duplicate, Start, Advance, AdvanceLost, ExtractorFails,
           NoAccountDataLost, Complete, CompleteLost, Verdict, RunPc
<1>4. sw' \in Globals /\ sw'.active = sw.active
  BY <1>2 DEF Claim, ClaimLost, Duplicate, Start, Advance, AdvanceLost, ExtractorFails,
         NoAccountData, NoAccountDataLost, Complete, CompleteLost, Verdict, GiveUp, PostProbeLost,
         Typed, TypeOK, Globals
<1>5. stage' \in [Cycle -> Stage]
  <2>1. stage \in [Cycle -> Stage] /\ run[r].verdict \in Ended
    BY <1>1 DEF Typed, TypeOK, Run, Ended
  <2>2. CASE NoAccountData(r)
    BY <1>2, <2>1, <2>2, StageTyped DEF NoAccountData, Typed, Ended
  <2>3. CASE ~NoAccountData(r)
    BY <1>2, <2>1, <2>3, StageTyped
    DEF Claim, ClaimLost, Duplicate, Start, Advance, AdvanceLost, ExtractorFails,
         NoAccountDataLost, Complete, CompleteLost, Verdict, GiveUp, PostProbeLost,
         Typed, MidCycle
  <2> QED BY <2>2, <2>3
<1>6. faults' \in 0 .. MaxFault
  BY FaultTyped DEF Claim, ClaimLost, Duplicate, Start, Advance, AdvanceLost, ExtractorFails,
         NoAccountData, NoAccountDataLost, Complete, CompleteLost, Verdict, GiveUp, PostProbeLost,
         Typed, TypeOK
<1>7. UNCHANGED <<tables, now, job>>
  BY DEF Claim, ClaimLost, Duplicate, Start, Advance, AdvanceLost, ExtractorFails,
         NoAccountData, NoAccountDataLost, Complete, CompleteLost, Verdict, GiveUp, PostProbeLost
<1> QED BY <1>1, <1>3, <1>4, <1>5, <1>6, <1>7, PlainStepTyped

LEMMA FetchFailsTyped ==
    ASSUME Typed, NEW r \in Runner, FetchFails(r) PROVE Typed'
<1> DEFINE q == CASE run[r].pc = "probing" -> AfterProbe(run[r], "none")
                  [] run[r].pc = "reporting" -> [run[r] EXCEPT !.pc = "finish"]
                  [] OTHER -> [run[r] EXCEPT !.pc = "complete"]
<1>1. run[r] \in Run /\ run[r].cycle \in Cycle
  BY DEF FetchFails, Waiting, Typed, TypeOK, Shape
<1>2. run' = [run EXCEPT ![r] = q]
  BY DEF FetchFails, WithoutAnswer
<1>3. q \in Run /\ q.pc # "idle" /\ q.cycle \in Cycle
  <2>1. CASE run[r].pc = "probing"
    BY <1>1, <2>1, AfterProbeTyped
  <2>2. CASE run[r].pc # "probing"
    BY <1>1, <2>2 DEF Run, RunPc
  <2> QED BY <2>1, <2>2
<1>4. sw' \in Globals /\ sw'.active = sw.active
  BY <1>1 DEF FetchFails, Unanswered, PastProbe, Typed, TypeOK, Globals
<1> HIDE DEF q
<1>5. run' \in [Runner -> Run] /\ Shape'
  BY <1>2, <1>3, <1>4, RunOnTyped DEF FetchFails
<1> QED BY <1>4, <1>5 DEF FetchFails, Typed, TypeOK, tables

\* The same for a request that is being served, whose answer nobody awaits then.
LEMMA FetchAbortedTyped ==
    ASSUME Typed, NEW r \in Runner, FetchAborted(r) PROVE Typed'
<1> DEFINE q == CASE run[r].pc = "probing" -> AfterProbe(run[r], "none")
                  [] run[r].pc = "reporting" -> [run[r] EXCEPT !.pc = "finish"]
                  [] OTHER -> [run[r] EXCEPT !.pc = "complete"]
<1>1. run[r] \in Run /\ run[r].cycle \in Cycle
  BY DEF FetchAborted, Waiting, Typed, TypeOK, Shape
<1>2. run' = [run EXCEPT ![r] = q]
  BY DEF FetchAborted, WithoutAnswer
<1>3. q \in Run /\ q.pc # "idle" /\ q.cycle \in Cycle
  <2>1. CASE run[r].pc = "probing"
    BY <1>1, <2>1, AfterProbeTyped
  <2>2. CASE run[r].pc # "probing"
    BY <1>1, <2>2 DEF Run, RunPc
  <2> QED BY <2>1, <2>2
<1>4. sw' \in Globals /\ sw'.active = sw.active
  BY <1>1 DEF FetchAborted, Unanswered, PastProbe, Typed, TypeOK, Globals
<1> HIDE DEF q
<1>5. run' \in [Runner -> Run] /\ run'[r] = q /\ \A x \in Runner \ {r} : run'[x] = run[x]
  BY <1>2, <1>3 DEF Typed, TypeOK
<1>6. /\ job' \in [Worker -> Job]
      /\ \A w \in Worker : IF job[w].for = r THEN job'[w] = [job[w] EXCEPT !.for = NoRunner]
                           ELSE job'[w] = job[w]
  BY DEF FetchAborted, Serving, Typed, TypeOK, Job
<1>7. \A w \in Worker : /\ job'[w].for # r /\ job'[w].for \in {job[w].for, NoRunner}
                        /\ job[w].for \in Runner \cup {NoRunner}
                        /\ job'[w].pc = job[w].pc /\ job'[w].cycle = job[w].cycle
                        /\ job'[w].target = job[w].target
                        /\ job[w].pc = "idle" => job'[w] = job[w]
  BY <1>6, RunnerAssumption DEF Typed, TypeOK, Job, Shape, IdleJob
<1>8. \A x \in Runner : IF run'[x].pc = "idle" THEN run'[x] = IdleRun
                        ELSE run'[x].cycle \in Cycle
  BY <1>3, <1>5 DEF Typed, Shape
<1>9. \A w \in Worker : /\ job'[w].pc = "idle" => job'[w] = IdleJob
                        /\ job'[w].pc \in CyclePc => job'[w].cycle \in Cycle
                        /\ job'[w].pc = "move" => job'[w].target # "none"
  BY <1>7 DEF Typed, Shape
<1>10. \A w \in Worker : job'[w].for # NoRunner =>
          /\ job'[w].pc \in CyclePc
          /\ run'[job'[w].for].pc \in Waiting
          /\ run'[job'[w].for].cycle = job'[w].cycle
  BY <1>5, <1>7 DEF Typed, Shape
<1>11. \A u, v \in Worker : u # v => job'[u].for = NoRunner \/ job'[u].for # job'[v].for
  BY <1>7 DEF Typed, Shape
<1>12. sw'.active # NoRunner => run'[sw'.active].pc # "idle"
  BY <1>3, <1>4, <1>5 DEF Typed, Shape, TypeOK, Globals
<1>13. Shape'
  BY <1>8, <1>9, <1>10, <1>11, <1>12 DEF Shape
<1> QED BY <1>4, <1>5, <1>6, <1>13, FaultTyped DEF FetchAborted, Typed, TypeOK, tables

LEMMA EndOfRunTyped ==
    ASSUME Typed, NEW r \in Runner, Finish(r) \/ TabClosed(r) PROVE Typed'
<1>1. CASE Finish(r)
  <2>1. sw' \in Globals /\ sw'.active = NoRunner
    BY <1>1, ClearedTyped DEF Finish
  <2>2. run' \in [Runner -> Run] /\ Shape'
    BY <1>1, <2>1, IdleTyped, RunOnTyped DEF Finish, Waiting, IdleRun
  <2> QED BY <1>1, <2>1, <2>2 DEF Finish, Typed, TypeOK, tables
<1>2. CASE TabClosed(r)
  <2>1. run[r] \in Run /\ run[r].cycle \in Cycle /\ run[r].pc # "idle"
    BY <1>2 DEF TabClosed, Typed, TypeOK, Shape
  <2>2. sw' \in Globals /\ sw'.active = NoRunner
    BY <1>2, <2>1 DEF TabClosed, Cleared, Typed, TypeOK, Globals
  <2>3. run' \in [Runner -> Run] /\ run'[r] = [run[r] EXCEPT !.tab = FALSE]
        /\ \A x \in Runner \ {r} : run'[x] = run[x]
    BY <1>2, <2>1 DEF TabClosed, Typed, TypeOK, Run
  <2>4. \A x \in Runner : /\ run'[x].pc = run[x].pc /\ run'[x].cycle = run[x].cycle
                          /\ run[x].pc = "idle" => run'[x] = run[x]
    BY <2>1, <2>3 DEF Run
  <2>5. \A w \in Worker : job[w].for \in Runner \cup {NoRunner}
    BY DEF Typed, TypeOK, Job
  <2>6. Shape'
    BY <1>2, <2>2, <2>4, <2>5 DEF TabClosed, Typed, Shape
  <2> QED BY <1>2, <2>2, <2>3, <2>6 DEF TabClosed, Typed, TypeOK, tables
<1> QED BY <1>1, <1>2

LEMMA PostStepTyped ==
    ASSUME Typed, NEW r \in Runner, NEW w \in Worker,
           \/ PostExtract(r, w)
           \/ \E p \in PageSeen \cup {ErrorPage}, pc \in {"probing", "reporting"} :
                 PostProbe(r, w, p, pc)
    PROVE  Typed'
<1>0. run[r] \in Run /\ run[r].pc # "idle" /\ run[r].pc \notin Waiting /\ job[w].pc = "idle"
      /\ stage' = stage /\ UNCHANGED <<tables, now, sw, faults>>
  BY DEF PostExtract, PostProbe, Waiting, Typed, TypeOK
<1>1. run[r].cycle \in Cycle
  BY <1>0 DEF Typed, Shape
<1>2. now \in Nat /\ session \in StoredEvidence
  BY LimitAssumption DEF Typed, TypeOK
<1>3. CASE PostExtract(r, w)
  <2>1. CASE Accepts(run[r].cycle)
    <3> DEFINE j == ExtractJob(run[r].cycle, r)
               q == [run[r] EXCEPT !.pc = "extracting"]
    <3>1. j \in Job /\ j.pc = "mark" /\ j.for = r /\ j.cycle = run[r].cycle
      BY <1>1, IdleTyped DEF ExtractJob, Job, JobPc
    <3>2. q \in Run /\ q.pc = "extracting" /\ q.cycle = run[r].cycle
      BY <1>0 DEF Run, RunPc, Waiting
    <3>3. job' = [job EXCEPT ![w] = j] /\ run' = [run EXCEPT ![r] = q]
      BY <1>3, <2>1 DEF PostExtract, Step, Typed, TypeOK
    <3> HIDE DEF j, q
    <3>4. run' \in [Runner -> Run] /\ job' \in [Worker -> Job] /\ Shape'
      BY <1>0, <1>1, <3>1, <3>2, <3>3, PostTyped DEF CyclePc, Waiting
    <3> QED BY <1>0, <3>4 DEF Typed, TypeOK, tables
  <2>2. CASE ~Accepts(run[r].cycle)
    <3> DEFINE q == [run[r] EXCEPT !.pc = "complete"]
    <3>1. q \in Run /\ q.pc = "complete" /\ q.cycle = run[r].cycle
      BY <1>0 DEF Run, RunPc
    <3>2. job' = job /\ run' = [run EXCEPT ![r] = q]
      BY <1>3, <2>2 DEF PostExtract, Step, Typed, TypeOK
    <3>3. sw' = sw /\ sw' \in Globals
      BY <1>0 DEF Typed, TypeOK
    <3> HIDE DEF q
    <3>4. run' \in [Runner -> Run] /\ Shape'
      BY <1>0, <1>1, <3>1, <3>2, <3>3, RunOnTyped
    <3> QED BY <1>0, <3>2, <3>4 DEF Typed, TypeOK, tables
  <2> QED BY <2>1, <2>2
<1>4. CASE \E p \in PageSeen \cup {ErrorPage}, pc \in {"probing", "reporting"} :
               PostProbe(r, w, p, pc)
  <2>1. PICK p \in PageSeen \cup {ErrorPage}, pc \in {"probing", "reporting"} :
               PostProbe(r, w, p, pc)
    BY <1>4
  <2> DEFINE j == ProbeJob(r, p)
             q == [run[r] EXCEPT !.pc = pc, !.page = p]
             i == [IdleJob EXCEPT !.cycle = run[r].cycle, !.for = r]
  <2>2. i \in Job /\ i.for = r /\ i.cycle = run[r].cycle
    BY <1>1, IdleTyped DEF Job
  <2>3. Decision(Probe(p)) # "inconclusive" => EvidenceOf(Probe(p), now) \in StoredEvidence
    BY <1>2, EvidenceTyped DEF StoredEvidence
  <2> HIDE DEF i
  <2>4. j \in Job /\ j.pc \in ProbePc /\ j.for = r /\ j.cycle = run[r].cycle
    <3>1. CASE Decision(Probe(p)) = "inconclusive"
      <4>1. j = [i EXCEPT !.pc = "probe_finish"]
        BY <3>1 DEF ProbeJob, i
      <4> QED BY <2>2, <4>1 DEF Job, JobPc, ProbePc
    <3>2. CASE Decision(Probe(p)) # "inconclusive"
      <4> DEFINE e == EvidenceOf(Probe(p), now)
      <4>1. j = [[i EXCEPT !.pc = "probe_store"] EXCEPT !.evidence = e, !.seen = session]
        BY <3>2 DEF ProbeJob, i, WithEvidence
      <4>2. e \in StoredEvidence
        BY <2>3, <3>2
      <4> HIDE DEF e, j
      <4> QED BY <1>2, <2>2, <4>1, <4>2 DEF Job, JobPc, ProbePc
    <3> QED BY <3>1, <3>2
  <2>5. q \in Run /\ q.pc \in Waiting /\ q.cycle = run[r].cycle
    BY <1>0, PageAssumption, PageTyped DEF Run, RunPc, Waiting
  <2>6. job' = [job EXCEPT ![w] = j] /\ run' = [run EXCEPT ![r] = q]
    BY <2>1 DEF PostProbe, Typed, TypeOK
  <2> HIDE DEF j, q
  <2>7. run' \in [Runner -> Run] /\ job' \in [Worker -> Job] /\ Shape'
    BY <1>0, <1>1, <2>4, <2>5, <2>6, PostTyped DEF CyclePc
  <2> QED BY <1>0, <2>7 DEF Typed, TypeOK, tables
<1> QED BY <1>3, <1>4

\* What starts a request that no run waits for.
LEMMA BeginTyped ==
    ASSUME Typed, NEW w \in Worker,
           ContentPush(w) \/ \E t \in ReportKind : BeginMove(w, t)
    PROVE  Typed'
<1>1. CASE ContentPush(w)
  <2> DEFINE j == ExtractJob(run[sw.active].cycle, NoRunner)
  <2>1. run[sw.active].cycle \in Cycle
    BY <1>1 DEF ContentPush, Typed, TypeOK, Globals, Shape
  <2>2. j \in Job /\ j.pc = "mark" /\ j.for = NoRunner /\ j.cycle \in Cycle
    BY <2>1, IdleTyped DEF ExtractJob, Job, JobPc
  <2> HIDE DEF j
  <2>3. job' \in [Worker -> Job] /\ Shape'
    BY <1>1, <2>2, MoveOnTyped DEF ContentPush, j
  <2> QED BY <1>1, <2>3 DEF ContentPush, Typed, TypeOK, tables
<1>2. ASSUME NEW t \in ReportKind, BeginMove(w, t) PROVE Typed'
  <2> DEFINE j == [IdleJob EXCEPT !.pc = "move", !.target = t, !.items = account.items]
  <2>1. j \in Job /\ j.pc = "move" /\ j.for = NoRunner /\ j.target # "none"
    BY IdleTyped, ReportAssumption
       DEF Job, JobPc, IdleJob, Connection, Typed, TypeOK, AccountRow
  <2>2. job' = [job EXCEPT ![w] = j]
    BY <1>2 DEF BeginMove
  <2>3. UNCHANGED <<stage, tables, now, sw, run, faults>>
    BY <1>2 DEF BeginMove
  <2> HIDE DEF j
  <2>4. job' \in [Worker -> Job] /\ Shape'
    BY <2>1, <2>2, <2>3, MoveOnTyped DEF CyclePc, ProbePc
  <2> QED BY <2>3, <2>4 DEF Typed, TypeOK, tables
<1> QED BY <1>1, <1>2

LEMMA OutsideStepTyped ==
    ASSUME Typed,
           \/ \E c \in Cycle : OpenCycle(c) \/ Expire(c) \/ CancelPosted(c) \/ CancelLost(c)
           \/ Stopped \/ Reloaded \/ ServerCrash \/ Tick
    PROVE  Typed'
<1>1. ASSUME NEW c \in Cycle, OpenCycle(c) \/ Expire(c) \/ CancelPosted(c) \/ CancelLost(c)
      PROVE  Typed'
  <2>1. stage' \in [Cycle -> Stage]
    <3>1. [stage EXCEPT ![c] = "requested"] \in [Cycle -> Stage]
      BY DEF Typed, TypeOK, Stage, Active, Claimable
    <3> QED BY <1>1, <3>1, StageTyped
         DEF OpenCycle, Expire, CancelPosted, CancelLost, Cancel, Ended, Typed, TypeOK
  <2>2. sw' \in Globals /\ sw'.active = sw.active
    BY <1>1 DEF OpenCycle, Expire, CancelPosted, CancelLost, Cancel, Typed, TypeOK, Globals
  <2>3. faults' \in 0 .. MaxFault
    BY <1>1, FaultTyped DEF OpenCycle, Expire, CancelPosted, CancelLost, Cancel, Typed, TypeOK
  <2>4. UNCHANGED <<tables, now, run, job>>
    BY <1>1 DEF OpenCycle, Expire, CancelPosted, CancelLost, Cancel
  <2>5. Shape'
    BY <2>2, <2>4 DEF Typed, Shape
  <2> QED BY <2>1, <2>2, <2>3, <2>4, <2>5 DEF Typed, TypeOK, tables
<1>2. CASE Stopped \/ Reloaded
  <2>1. stage' \in [Cycle -> Stage]
    BY <1>2 DEF Stopped, Reloaded, WorkerStops, Typed, TypeOK, Stage, Ended
  <2>2. run' = [r \in Runner |-> IdleRun] /\ sw' = IdleWorker
        /\ job' = [w \in Worker |-> [job[w] EXCEPT !.for = NoRunner]]
    BY <1>2 DEF Stopped, Reloaded, WorkerStops, NobodyWaits
  <2>3. run' \in [Runner -> Run] /\ sw' \in Globals /\ sw'.active = NoRunner
    BY <2>2, IdleTyped DEF IdleWorker
  <2>4. job' \in [Worker -> Job]
    BY <2>2 DEF Typed, TypeOK, Job
  <2>5. \A w \in Worker : /\ job'[w].for = NoRunner
                          /\ job'[w].pc = job[w].pc /\ job'[w].cycle = job[w].cycle
                          /\ job'[w].target = job[w].target
                          /\ job[w].pc = "idle" => job'[w] = job[w]
    BY <2>2 DEF Typed, TypeOK, Job, Shape, IdleJob
  <2>6. \A r \in Runner : run'[r] = IdleRun /\ run'[r].pc = "idle"
    BY <2>2 DEF IdleRun
  <2>7. Shape'
    BY <2>3, <2>5, <2>6 DEF Typed, Shape
  <2>8. faults' \in 0 .. MaxFault /\ UNCHANGED <<tables, now>>
    BY <1>2, FaultTyped DEF Stopped, Reloaded, WorkerStops
  <2> QED BY <2>1, <2>3, <2>4, <2>7, <2>8 DEF Typed, TypeOK, tables
<1>3. CASE ServerCrash
  <2>1. job' \in [Worker -> Job] /\ \A w \in Worker : job'[w] = IdleJob
    BY <1>3, IdleTyped DEF ServerCrash
  <2>2. Shape'
    BY <1>3, <2>1 DEF ServerCrash, Typed, Shape, IdleJob, CyclePc, ProbePc
  <2> QED BY <1>3, <2>1, <2>2, FaultTyped DEF ServerCrash, Typed, TypeOK, tables
<1>4. CASE Tick
  BY <1>4, LimitAssumption DEF Tick, Typed, TypeOK, tables, Shape
<1> QED BY <1>1, <1>2, <1>3, <1>4

LEMMA TypedStep == Typed /\ [Next]_vars => Typed'
<1> SUFFICES ASSUME Typed, [Next]_vars PROVE Typed'
  OBVIOUS
<1>1. CASE UNCHANGED vars
  BY <1>1 DEF vars, Typed, TypeOK, Shape
<1>2. ASSUME NEW w \in Worker, JobStep(w) PROVE Typed'
  BY <1>2, ProbeStepTyped, ExtractStepTyped, ExtractEndTyped, ConnectionStepTyped DEF JobStep
<1>3. ASSUME NEW r \in Runner, RunStep(r) PROVE Typed'
  BY <1>3, PlainStepsTyped, FetchFailsTyped, EndOfRunTyped, PostStepTyped DEF RunStep
<1>4. ASSUME NEW r \in Runner, RunFault(r) PROVE Typed'
  BY <1>4, PlainStepsTyped, FetchAbortedTyped DEF RunFault
<1> QED BY <1>1, <1>2, <1>3, <1>4, PollTyped, EndOfRunTyped, BeginTyped, OutsideStepTyped DEF Next

\* Every variable keeps its type, in histories of any length.
THEOREM TypeCorrect == Spec => []TypeOK
<1>1. Typed => TypeOK
  BY DEF Typed
<1> QED BY InitTyped, TypedStep, <1>1, PTL DEF Spec

-----------------------------------------------------------------------------
(* What the tables say of each other.  Data adds to the properties what a job that    *)
(* is under way already knows; all of it outlives the other steps, because a cycle    *)
(* only moves forward and items stay committed.                                       *)

ExtractedPc == {"snapshot", "extract_store", "extract_done"}
Taken == {"absent"} \cup Claimable

JobData(j, s, t) ==
    /\ j.pc \in ExtractedPc => j.cycle \in t
    /\ j.pc = "mark" => s[j.cycle] # "absent"
    /\ j.pc = "apply" => s[j.cycle] \notin Taken
    /\ j.pc = "move" => j.evidence = NoEvidence
    /\ j.pc = "pending" => j.took = "connected"
    /\ j.evidence.source = "extension_amex" => Caused(j, t)

Data ==
    /\ SuccessHasExtraction
    /\ StoredNotClaimable
    /\ \A w \in Worker : JobData(job[w], stage, stored)

LEMMA InitData == Init => Data
BY DEF Init, Data, SuccessHasExtraction, StoredNotClaimable, JobData, IdleJob, NoEvidence,
       ExtractedPc

\* One guarded UPDATE moves a cycle forward.
LEMMA ForwardOps ==
    ASSUME Typed, NEW c \in Cycle, NEW d \in Cycle
    PROVE  /\ \A result \in Ended :
                 /\ stage[d] # "absent" => Closed(c, result)[d] # "absent"
                 /\ stage[d] \notin Taken => Closed(c, result)[d] \notin Taken
                 /\ Closed(c, result)[d] = "authenticated" =>
                        stage[d] = "authenticated" \/ (result = "authenticated" /\ d = c)
           /\ stage[d] # "absent" => Claimed(c)[d] # "absent"
           /\ stage[d] \notin Taken => Claimed(c)[d] \notin Taken
           /\ Claimed(c)[d] = "authenticated" => stage[d] = "authenticated"
           /\ \A to \in MidCycle :
                 /\ stage[d] # "absent" => Advanced(c, to)[d] # "absent"
                 /\ stage[d] \notin Taken => Advanced(c, to)[d] \notin Taken
                 /\ Advanced(c, to)[d] = "authenticated" => stage[d] = "authenticated"
BY DEF Typed, TypeOK, Closed, Claimed, Advanced, Ended, Taken, Claimable, MidCycle, Active

\* How a step changes the cycle table.
StageMove ==
    \/ stage' = stage
    \/ \E c \in Cycle, result \in Ended \ {"authenticated"} : stage' = Closed(c, result)
    \/ \E c \in Cycle : stage' = Claimed(c)
    \/ \E c \in Cycle, to \in MidCycle : stage' = Advanced(c, to)
    \/ /\ ActiveCycles = {}
       /\ \E c \in Cycle : stage[c] = "absent" /\ stage' = [stage EXCEPT ![c] = "requested"]
    \/ \E w \in Worker : CompleteExtraction(w)
    \/ Reloaded

LEMMA StageMoves == ASSUME Typed, [Next]_vars PROVE StageMove
<1>1. ASSUME NEW w \in Worker, JobStep(w) PROVE StageMove
  <2>1. CASE FinishProbe(w)
    <3>1. job[w].cycle \in Cycle
      BY <2>1 DEF FinishProbe, Typed, Shape, CyclePc, ProbePc
    <3>2. \/ stage' = Advanced(job[w].cycle, "session_verified")
          \/ stage' = Closed(job[w].cycle, "signed_out")
          \/ stage' = Closed(job[w].cycle, "failed")
      BY <2>1 DEF FinishProbe
    <3> QED BY <3>1, <3>2 DEF StageMove, Ended, MidCycle
  <2>2. CASE MarkExtracting(w)
    BY <2>2 DEF MarkExtracting, Typed, Shape, CyclePc, StageMove, MidCycle
  <2>3. CASE FailExtraction(w)
    BY <2>3 DEF FailExtraction, Typed, Shape, CyclePc, StageMove, Ended
  <2> QED BY <1>1, <2>1, <2>2, <2>3 DEF JobStep, StageMove, StoreProbe, ApplyExtraction,
        RefuseExtraction, BreakExtraction, StoreFailure, PublishSnapshot, StoreExtractEvidence,
        Move, MarkPending, StoreReport
<1>2. ASSUME NEW r \in Runner, RunStep(r) \/ RunFault(r) PROVE StageMove
  <2>1. run[r].pc # "idle" => run[r].cycle \in Cycle /\ run[r].verdict \in Ended \ {"authenticated"}
    BY DEF Typed, TypeOK, Shape, Run, Ended
  <2>2. CASE Claim(r) \/ Advance(r)
    BY <2>1, <2>2 DEF Claim, Advance, StageMove, MidCycle
  <2>3. CASE NoAccountData(r)
    BY <2>1, <2>3 DEF NoAccountData, StageMove, Ended
  <2>4. CASE Complete(r) \/ CompleteLost(r)
    BY <2>1, <2>4 DEF Complete, CompleteLost, Verdict, StageMove
  <2> QED BY <1>2, <2>2, <2>3, <2>4 DEF RunStep, RunFault, StageMove, Duplicate, Start,
        ExtractorFails, FetchFails, Finish, GiveUp, PostExtract, PostProbe, ClaimLost, AdvanceLost,
        NoAccountDataLost, FetchAborted, PostProbeLost
<1>3. ASSUME NEW c \in Cycle, OpenCycle(c) \/ Expire(c) \/ CancelPosted(c) \/ CancelLost(c)
      PROVE  StageMove
  BY <1>3 DEF OpenCycle, Expire, CancelPosted, CancelLost, Cancel, StageMove, Ended
<1>4. CASE UNCHANGED vars
  BY <1>4 DEF vars, StageMove
<1> QED BY <1>1, <1>2, <1>3, <1>4 DEF Next, StageMove, Poll, TabClosed, ContentPush, BeginMove,
      Stopped, WorkerStops, ServerCrash, Tick

LEMMA StageForward ==
    ASSUME Typed, [Next]_vars, NEW d \in Cycle
    PROVE  /\ stage[d] # "absent" => stage'[d] # "absent"
           /\ stage[d] \notin Taken => stage'[d] \notin Taken
           /\ stage'[d] = "authenticated" =>
                 \/ stage[d] = "authenticated"
                 \/ \E w \in Worker : job[w].pc = "extract_done" /\ job[w].cycle = d
<1>0. StageMove
  BY StageMoves
<1>1. CASE \E w \in Worker : CompleteExtraction(w)
  <2>1. PICK w \in Worker : CompleteExtraction(w)
    BY <1>1
  <2>2. job[w].cycle \in Cycle /\ job[w].pc = "extract_done"
        /\ stage' = Closed(job[w].cycle, "authenticated")
    BY <2>1 DEF CompleteExtraction, Typed, Shape, CyclePc
  <2> QED BY <2>2, ForwardOps DEF Ended
<1>2. CASE Reloaded
  BY <1>2 DEF Reloaded, WorkerStops, Taken, Claimable, Active
<1>3. CASE \E c \in Cycle : stage[c] = "absent" /\ stage' = [stage EXCEPT ![c] = "requested"]
  BY <1>3 DEF Typed, TypeOK, Taken, Claimable
<1> QED BY <1>0, <1>1, <1>2, <1>3, ForwardOps DEF StageMove

\* How a step changes the other tables.
LEMMA TablesForward ==
    ASSUME Typed, Data, [Next]_vars
    PROVE  /\ stored \subseteq stored'
           /\ \A c \in stored' \ stored : stage[c] \notin Taken
           /\ session' = session \/ \E w \in Worker : session' = job[w].evidence
<1>1. ASSUME NEW w \in Worker, JobStep(w)
      PROVE  /\ stored \subseteq stored'
             /\ \A c \in stored' \ stored : stage[c] \notin Taken
             /\ session' \in {session, job[w].evidence}
  <2>1. stored' = stored \/ (stored' = stored \cup {job[w].cycle} /\ job[w].pc = "apply")
    BY <1>1 DEF JobStep, StoreProbe, FinishProbe, MarkExtracting, ApplyExtraction,
       RefuseExtraction, BreakExtraction, StoreFailure, FailExtraction, PublishSnapshot,
       StoreExtractEvidence, CompleteExtraction, Move, MarkPending, StoreReport, tables
  <2>2. job[w].pc = "apply" => stage[job[w].cycle] \notin Taken
    BY DEF Data, JobData
  <2>3. session' \in {session, job[w].evidence}
    BY <1>1 DEF JobStep, StoreProbe, FinishProbe, MarkExtracting, ApplyExtraction,
       RefuseExtraction, BreakExtraction, StoreFailure, FailExtraction, PublishSnapshot,
       StoreExtractEvidence, CompleteExtraction, Move, MarkPending, StoreReport, tables, Written
  <2> QED BY <2>1, <2>2, <2>3
<1>2. CASE ~\E w \in Worker : JobStep(w)
  <2>1. UNCHANGED tables
    BY <1>2 DEF Next, OpenCycle, Expire, CancelPosted, CancelLost, Cancel, RunStep, RunFault,
       Claim, Duplicate, Start, Advance, ExtractorFails, NoAccountData, FetchFails, Complete,
       Verdict, Finish, GiveUp, PostExtract, PostProbe, ClaimLost, AdvanceLost,
       NoAccountDataLost, FetchAborted, CompleteLost, PostProbeLost, TabClosed, Poll,
       ContentPush, BeginMove, Stopped, Reloaded, WorkerStops, ServerCrash, Tick, vars, tables
  <2> QED BY <2>1 DEF tables
<1> QED BY <1>1, <1>2

\* What a job knew before a step of another it still knows.
LEMMA JobDataForward ==
    ASSUME Typed, Data, [Next]_vars, NEW j \in Job,
           JobData(j, stage, stored), j.pc \in CyclePc => j.cycle \in Cycle
    PROVE  JobData(j, stage', stored')
<1>1. \A c \in Cycle : /\ stage[c] # "absent" => stage'[c] # "absent"
                       /\ stage[c] \notin Taken => stage'[c] \notin Taken
  BY StageForward
<1>2. stored \subseteq stored'
  BY TablesForward
<1> QED BY <1>1, <1>2 DEF JobData, Caused, CyclePc

LEMMA IdleData == JobData(IdleJob, stage, stored) /\ JobData(IdleJob, stage', stored')
BY DEF JobData, IdleJob, NoEvidence, ExtractedPc

\* The types EvidenceOf gives are not those of a report.
LEMMA ProbeEvidence ==
    ASSUME NEW r, NEW at
    PROVE  /\ EvidenceOf(r, at).source = "provider_access_probe"
           /\ EvidenceOf(r, at).type # "session_verified_extract"
BY DEF EvidenceOf, DecidedType

Same(k, j) == k.evidence = j.evidence /\ k.cycle = j.cycle /\ k.took = j.took

\* What a job knows after a step of its own.
LEMMA JobDataStep ==
    ASSUME Typed, Data, [Next]_vars, NEW w \in Worker, JobStep(w)
    PROVE  JobData(job'[w], stage', stored')
<1>0. job[w] \in Job /\ JobData(job[w], stage, stored)
  /\ (job[w].pc \in CyclePc => job[w].cycle \in Cycle)
  BY DEF Typed, TypeOK, Data, Shape
<1>1. JobData(job[w], stage', stored')
  BY <1>0, JobDataForward
<1>2. CASE StoreProbe(w) \/ RefuseExtraction(w) \/ BreakExtraction(w) \/ StoreFailure(w)
  <2>1. job'[w].pc \in {"probe_finish", "refused", "extract_failed"} /\ Same(job'[w], job[w])
    BY <1>0, <1>2 DEF StoreProbe, RefuseExtraction, BreakExtraction, StoreFailure, Same, Typed,
       TypeOK, Job
  <2> QED BY <1>1, <2>1 DEF JobData, Same, Caused, ExtractedPc
<1>3. CASE MarkExtracting(w)
  <2>1. job'[w].pc = "apply" /\ Same(job'[w], job[w])
    BY <1>0, <1>3 DEF MarkExtracting, Same, Typed, TypeOK, Job
  <2>2. job[w].cycle \in Cycle /\ stage[job[w].cycle] # "absent"
    BY <1>0, <1>3 DEF MarkExtracting, JobData, CyclePc
  <2>3. stage'[job[w].cycle] \notin Taken
    BY <1>3, <2>2 DEF MarkExtracting, Advanced, Taken, Active, Claimable, MidCycle, Typed, TypeOK,
       Stage
  <2> QED BY <1>1, <2>1, <2>3 DEF JobData, Same, Caused, ExtractedPc
<1>4. CASE ApplyExtraction(w)
  <2>1. job'[w].pc = "snapshot" /\ Same(job'[w], job[w])
    BY <1>0, <1>4 DEF ApplyExtraction, Same, Typed, TypeOK, Job
  <2>2. job[w].cycle \in stored'
    BY <1>4 DEF ApplyExtraction
  <2> QED BY <1>1, <2>1, <2>2 DEF JobData, Same, Caused, ExtractedPc
<1>5. CASE PublishSnapshot(w)
  <2>1. /\ job'[w].pc = "extract_store" /\ job'[w].cycle = job[w].cycle
        /\ job'[w].evidence.type = "session_verified_extract"
    BY <1>0, <1>5 DEF PublishSnapshot, WithEvidence, Report, Typed, TypeOK, Job
  <2>2. job[w].cycle \in stored'
    BY <1>0, <1>5 DEF PublishSnapshot, JobData, ExtractedPc
  <2> QED BY <2>1, <2>2 DEF JobData, Caused, ExtractedPc
<1>6. CASE StoreExtractEvidence(w)
  <2>1. job'[w].pc = "extract_done" /\ Same(job'[w], job[w])
    BY <1>0, <1>6 DEF StoreExtractEvidence, Same, Typed, TypeOK, Job
  <2>2. job[w].cycle \in stored'
    BY <1>0, <1>6 DEF StoreExtractEvidence, JobData, ExtractedPc
  <2> QED BY <1>1, <2>1, <2>2 DEF JobData, Same, Caused, ExtractedPc
<1>7. CASE Move(w)
  <2>2. CASE job[w].target = "needs_login"
    <3>1. job'[w] = WithEvidence([job[w] EXCEPT !.pc = "report_store", !.items = NoCycle,
                                                !.took = "needs_login"],
                                 Report("signed_out", "login_required", now))
      BY <1>7, <2>2 DEF Move, Typed, TypeOK
    <3>2. /\ job'[w].pc = "report_store" /\ job'[w].took = "needs_login"
          /\ job'[w].evidence.type = "login_required"
      BY <1>0, <3>1 DEF WithEvidence, Report, Job
    <3> QED BY <3>2 DEF JobData, Caused, ExtractedPc
  <2>3. CASE job[w].target = "connected"
    <3>1. /\ job'[w].pc = "pending" /\ job'[w].took = "connected"
          /\ job'[w].evidence = NoEvidence
      BY <1>0, <1>7, <2>3 DEF Move, JobData, Typed, TypeOK, Job
    <3> QED BY <3>1 DEF JobData, NoEvidence, ExtractedPc
  <2>4. CASE job[w].target \notin {"needs_login", "connected"}
    BY <1>7, <2>4, IdleData DEF Move, Typed, TypeOK
  <2> QED BY <2>2, <2>3, <2>4
<1>8. CASE MarkPending(w)
  <2>1. job'[w] = WithEvidence([job[w] EXCEPT !.pc = "report_store", !.items = NoCycle],
                               Report("connected", "session_verified", now))
    BY <1>8 DEF MarkPending, Typed, TypeOK
  <2>2. /\ job'[w].pc = "report_store" /\ job'[w].took = job[w].took
        /\ job'[w].evidence.type = "session_verified"
    BY <1>0, <2>1 DEF WithEvidence, Report, Job
  <2>3. job[w].took = "connected"
    BY <1>0, <1>8 DEF MarkPending, JobData
  <2> QED BY <2>2, <2>3 DEF JobData, Caused, ExtractedPc
<1>9. CASE FinishProbe(w) \/ FailExtraction(w) \/ CompleteExtraction(w) \/ StoreReport(w)
  BY <1>9, IdleData DEF FinishProbe, FailExtraction, CompleteExtraction, StoreReport, Free, Typed,
     TypeOK
<1> QED BY <1>2, <1>3, <1>4, <1>5, <1>6, <1>7, <1>8, <1>9 DEF JobStep

LEMMA JobDataBegun ==
    ASSUME Typed, NEW w \in Worker,
           \/ ContentPush(w) \/ \E t \in ReportKind : BeginMove(w, t)
           \/ \E r \in Runner : PostExtract(r, w)
           \/ \E r \in Runner, p \in PageSeen \cup {ErrorPage},
                 pc \in {"probing", "reporting"} : PostProbe(r, w, p, pc)
    PROVE  /\ JobData(job'[w], stage', stored')
           /\ \A v \in Worker \ {w} : job'[v] = job[v]
<1>1. CASE ContentPush(w)
  <2>1. job'[w] = ExtractJob(run[sw.active].cycle, NoRunner) /\ stage' = stage
        /\ stage[run[sw.active].cycle] \in MidCycle /\ \A v \in Worker \ {w} : job'[v] = job[v]
    BY <1>1 DEF ContentPush, Accepts, Typed, TypeOK
  <2> QED BY <2>1 DEF ExtractJob, IdleJob, NoEvidence, JobData, ExtractedPc, MidCycle
<1>2. ASSUME NEW t \in ReportKind, BeginMove(w, t)
      PROVE  JobData(job'[w], stage', stored') /\ \A v \in Worker \ {w} : job'[v] = job[v]
  BY <1>2 DEF BeginMove, IdleJob, NoEvidence, JobData, ExtractedPc, Typed, TypeOK
<1>3. ASSUME NEW r \in Runner, PostExtract(r, w)
      PROVE  JobData(job'[w], stage', stored') /\ \A v \in Worker \ {w} : job'[v] = job[v]
  <2>1. CASE Accepts(run[r].cycle)
    <3>1. job'[w] = ExtractJob(run[r].cycle, r) /\ stage' = stage
          /\ stage[run[r].cycle] \in MidCycle /\ \A v \in Worker \ {w} : job'[v] = job[v]
      BY <1>3, <2>1 DEF PostExtract, Accepts, Typed, TypeOK
    <3> QED BY <3>1 DEF ExtractJob, IdleJob, NoEvidence, JobData, ExtractedPc, MidCycle
  <2>2. CASE ~Accepts(run[r].cycle)
    <3>1. job' = job /\ job'[w] = IdleJob
      BY <1>3, <2>2 DEF PostExtract, Typed, Shape
    <3> QED BY <3>1, IdleData
  <2> QED BY <2>1, <2>2
<1>4. ASSUME NEW r \in Runner, NEW p \in PageSeen \cup {ErrorPage},
             NEW pc \in {"probing", "reporting"}, PostProbe(r, w, p, pc)
      PROVE  JobData(job'[w], stage', stored') /\ \A v \in Worker \ {w} : job'[v] = job[v]
  <2> DEFINE i == [IdleJob EXCEPT !.cycle = run[r].cycle, !.for = r]
  <2>0. i \in Job /\ i.evidence = NoEvidence
    BY <1>4, IdleTyped DEF PostProbe, Typed, TypeOK, Run, Job, IdleJob
  <2> HIDE DEF i
  <2>1. job'[w] = ProbeJob(r, p) /\ \A v \in Worker \ {w} : job'[v] = job[v]
    BY <1>4 DEF PostProbe, Typed, TypeOK
  <2>2. CASE Decision(Probe(p)) = "inconclusive"
    <3>1. job'[w] = [i EXCEPT !.pc = "probe_finish"]
      BY <2>1, <2>2 DEF ProbeJob, i
    <3>2. job'[w].pc = "probe_finish" /\ job'[w].evidence = NoEvidence
      BY <2>0, <3>1 DEF Job
    <3> QED BY <2>1, <3>2 DEF NoEvidence, JobData, ExtractedPc
  <2>3. CASE Decision(Probe(p)) # "inconclusive"
    <3> DEFINE e == EvidenceOf(Probe(p), now)
    <3>1. job'[w] = [[i EXCEPT !.pc = "probe_store"] EXCEPT !.evidence = e, !.seen = session]
      BY <2>1, <2>3 DEF ProbeJob, i, WithEvidence
    <3>2. e.source = "provider_access_probe" /\ e.type # "session_verified_extract"
      BY ProbeEvidence
    <3> HIDE DEF e
    <3>3. job'[w].pc = "probe_store" /\ job'[w].evidence = e
      BY <2>0, <3>1 DEF Job
    <3> QED BY <2>1, <3>2, <3>3 DEF JobData, ExtractedPc
  <2> QED BY <2>1, <2>2, <2>3
<1> QED BY <1>1, <1>2, <1>3, <1>4

\* The other steps leave a job alone, abandon it or take its client away.
LEMMA OtherJobs ==
    ASSUME Typed, [Next]_vars, NEW v \in Worker,
           ~JobStep(v), ~ContentPush(v), ~\E t \in ReportKind : BeginMove(v, t),
           ~\E r \in Runner : PostExtract(r, v),
           ~\E r \in Runner, p \in PageSeen \cup {ErrorPage},
               pc \in {"probing", "reporting"} : PostProbe(r, v, p, pc)
    PROVE  job'[v] \in {job[v], [job[v] EXCEPT !.for = NoRunner], IdleJob}
<1>1. ASSUME NEW w \in Worker, JobStep(w) PROVE job'[v] = job[v]
  <2>1. w # v /\ job \in [Worker -> Job]
    BY <1>1 DEF Typed, TypeOK
  <2>2. CASE \/ StoreProbe(w) \/ FinishProbe(w) \/ MarkExtracting(w) \/ ApplyExtraction(w)
             \/ RefuseExtraction(w) \/ BreakExtraction(w) \/ StoreFailure(w) \/ FailExtraction(w)
    BY <2>1, <2>2 DEF StoreProbe, FinishProbe, MarkExtracting, ApplyExtraction,
       RefuseExtraction, BreakExtraction, StoreFailure, FailExtraction, Free
  <2>3. CASE \/ PublishSnapshot(w) \/ StoreExtractEvidence(w) \/ CompleteExtraction(w)
             \/ MarkPending(w) \/ StoreReport(w)
    BY <2>1, <2>3 DEF PublishSnapshot, StoreExtractEvidence, CompleteExtraction, MarkPending,
       StoreReport, Free
  <2>4. CASE Move(w)
    BY <2>1, <2>4 DEF Move
  <2> QED BY <1>1, <2>2, <2>3, <2>4 DEF JobStep
<1>2. ASSUME NEW w \in Worker,
             \/ ContentPush(w) \/ \E t \in ReportKind : BeginMove(w, t)
             \/ \E r \in Runner : PostExtract(r, w)
             \/ \E r \in Runner, p \in PageSeen \cup {ErrorPage},
                   pc \in {"probing", "reporting"} : PostProbe(r, w, p, pc)
      PROVE  job'[v] = job[v]
  BY <1>2, JobDataBegun
<1>3. ASSUME NEW r \in Runner, FetchAborted(r)
      PROVE  job'[v] \in {job[v], [job[v] EXCEPT !.for = NoRunner]}
  BY <1>3 DEF FetchAborted
<1>4. CASE Stopped \/ Reloaded \/ ServerCrash
  BY <1>4 DEF Stopped, Reloaded, WorkerStops, NobodyWaits, ServerCrash
<1>5. ASSUME NEW r \in Runner,
             \/ Claim(r) \/ Duplicate(r) \/ Start(r) \/ Advance(r) \/ ExtractorFails(r)
             \/ NoAccountData(r) \/ FetchFails(r) \/ Complete(r) \/ Finish(r) \/ TabClosed(r)
             \/ ClaimLost(r) \/ AdvanceLost(r) \/ NoAccountDataLost(r) \/ CompleteLost(r)
             \/ \E c \in Cycle : Poll(r, c)
             \/ \E x \in {"failed", "timed_out"} : GiveUp(r, x)
             \/ \E p \in PageSeen \cup {ErrorPage} : PostProbeLost(r, p)
      PROVE  job' = job
  BY <1>5 DEF Claim, Duplicate, Start, Advance, ExtractorFails, NoAccountData, FetchFails, Complete,
     Verdict, Finish, TabClosed, ClaimLost, AdvanceLost, NoAccountDataLost, CompleteLost, Poll,
     GiveUp, PostProbeLost
<1>6. ASSUME NEW c \in Cycle, OpenCycle(c) \/ Expire(c) \/ CancelPosted(c) \/ CancelLost(c)
      PROVE  job' = job
  BY <1>6 DEF OpenCycle, Expire, CancelPosted, CancelLost, Cancel
<1>7. Tick \/ UNCHANGED vars => job' = job
  BY DEF Tick, vars
<1> QED BY <1>1, <1>2, <1>3, <1>4, <1>5, <1>6, <1>7 DEF Next, RunStep, RunFault

LEMMA DataStep == Typed /\ Data /\ [Next]_vars => Data'
<1> SUFFICES ASSUME Typed, Data, [Next]_vars PROVE Data'
  OBVIOUS
<1>1. ASSUME NEW w \in Worker PROVE JobData(job'[w], stage', stored')
  <2>0. job[w] \in Job /\ JobData(job[w], stage, stored)
  /\ (job[w].pc \in CyclePc => job[w].cycle \in Cycle)
    BY DEF Typed, TypeOK, Data, Shape
  <2>1. JobData(job[w], stage', stored')
    BY <2>0, JobDataForward
  <2>2. JobData([job[w] EXCEPT !.for = NoRunner], stage', stored')
    <3> DEFINE j == [job[w] EXCEPT !.for = NoRunner]
    <3>1. j.pc = job[w].pc /\ Same(j, job[w])
      BY <2>0 DEF Job, Same
    <3> HIDE DEF j
    <3>2. JobData(j, stage', stored')
      <4>1. JobData(j, stage, stored)
        BY <2>0, <3>1 DEF JobData, Same, Caused
      <4>2. j \in Job
        BY <2>0 DEF j, Job
      <4> QED BY <2>0, <3>1, <4>1, <4>2, JobDataForward DEF Same
    <3> QED BY <3>2 DEF j
  <2> QED BY <2>1, <2>2, IdleData, JobDataStep, JobDataBegun, OtherJobs
<1>2. SuccessHasExtraction'
  <2> SUFFICES ASSUME NEW c \in Cycle, stage'[c] = "authenticated" PROVE c \in stored'
    BY DEF SuccessHasExtraction
  <2>1. stage[c] = "authenticated" \/ \E w \in Worker : job[w].pc = "extract_done" /\ job[w].cycle = c
    BY StageForward
  <2>2. c \in stored
    BY <2>1 DEF Data, SuccessHasExtraction, JobData, ExtractedPc
  <2> QED BY <2>2, TablesForward
<1>3. StoredNotClaimable'
  <2> SUFFICES ASSUME NEW c \in stored' PROVE stage'[c] \notin Taken
    BY DEF StoredNotClaimable, Taken
  <2>0. c \in Cycle
    BY TypedStep DEF Typed, TypeOK
  <2>1. stage[c] \notin Taken
    BY TablesForward DEF Data, StoredNotClaimable, Taken
  <2> QED BY <2>0, <2>1, StageForward
<1> QED BY <1>1, <1>2, <1>3 DEF Data

LEMMA DataHolds == Spec => [](Typed /\ Data)
BY InitTyped, TypedStep, InitData, DataStep, PTL DEF Spec

\* A cycle that ended as authenticated has had its items committed (the extract
\* endpoint completes the cycle last).
THEOREM SuccessHasExtractionHolds == Spec => []SuccessHasExtraction
<1>1. Data => SuccessHasExtraction
  BY DEF Data
<1> QED BY DataHolds, <1>1, PTL

\* A cycle whose data was committed is never offered to the extension again.
THEOREM StoredNotClaimableHolds == Spec => []StoredNotClaimable
<1>1. Data => StoredNotClaimable
  BY DEF Data
<1> QED BY DataHolds, <1>1, PTL

\* A published snapshot is of items that were committed to the account row first
\* (create_account_snapshot_from_extraction), also when its cycle was lost since.
THEOREM SnapshotsExtracted == Spec => [](snapshots \subseteq stored)
<1>1. ASSUME Typed, Data, [Next]_vars, snapshots \subseteq stored
      PROVE  snapshots' \subseteq stored'
  <2>1. stored \subseteq stored'
    BY <1>1, TablesForward
  <2>2. CASE \E w \in Worker : PublishSnapshot(w) \/ BreakExtraction(w)
    BY <1>1, <2>1, <2>2 DEF PublishSnapshot, BreakExtraction, Data, JobData, ExtractedPc
  <2>3. CASE ~\E w \in Worker : PublishSnapshot(w) \/ BreakExtraction(w)
    <3>1. snapshots' = snapshots
      BY <1>1, <2>3 DEF Next, JobStep, StoreProbe, FinishProbe, MarkExtracting, ApplyExtraction,
       RefuseExtraction, StoreFailure, FailExtraction, StoreExtractEvidence, CompleteExtraction,
       Move, MarkPending, StoreReport, OpenCycle, Expire, CancelPosted, CancelLost, Cancel, RunStep,
       RunFault, Claim, Duplicate, Start, Advance, ExtractorFails, NoAccountData, FetchFails,
       Complete, Verdict, Finish, GiveUp, PostExtract, PostProbe, ClaimLost, AdvanceLost,
       NoAccountDataLost, FetchAborted, CompleteLost, PostProbeLost, TabClosed, Poll,
       ContentPush, BeginMove, Stopped, Reloaded, WorkerStops, ServerCrash, Tick, vars, tables
    <3> QED BY <1>1, <2>1, <3>1
  <2> QED BY <2>2, <2>3
<1>2. Init => snapshots \subseteq stored
  BY DEF Init
<1>3. (Typed /\ Data) /\ snapshots \subseteq stored /\ [Next]_vars => (snapshots \subseteq stored)'
  BY <1>1
<1> QED BY <1>2, <1>3, DataHolds, PTL DEF Spec

\* What the extension says of the session is stored for a cause: a report by the
\* request whose status the connection machine took (a 409 stores nothing), and the
\* evidence of an extraction by the request that committed its own cycle's items.
THEOREM EvidenceHasCauseHolds == Spec => EvidenceHasCause
<1>1. ASSUME Typed, Data, [Next]_vars, session' # session, session'.source = "extension_amex"
      PROVE  \E w \in Worker : job[w].evidence = session' /\ Caused(job[w], stored)
  <2>1. PICK w \in Worker : session' = job[w].evidence
    BY <1>1, TablesForward
  <2>2. Caused(job[w], stored)
    BY <1>1, <2>1 DEF Data, JobData
  <2> QED BY <2>1, <2>2
<1>2. Typed /\ Data /\ [Next]_vars =>
        [session'.source = "extension_amex" =>
            \E w \in Worker : job[w].evidence = session' /\ Caused(job[w], stored)]_session
  BY <1>1
<1> QED BY DataHolds, <1>2, PTL DEF Spec, EvidenceHasCause

-----------------------------------------------------------------------------
(* One extraction per cycle.  A run that extracts has put its cycle into the set of   *)
(* started ones, which nothing but the end of all runs clears.                        *)

ExtractingPc == {"advance", "extractor", "extracting"}

Once ==
    /\ \A r \in Runner : run[r].pc \in ExtractingPc => run[r].cycle \in sw.started
    /\ OneExtractionPerCycle

\* A run gets to extract in one place only, and no other step changes its cycle.
LEMMA ExtractingSteps ==
    ASSUME Typed, [Next]_vars, ~Stopped, ~Reloaded
    PROVE  /\ sw.started \subseteq sw'.started
           /\ \A r \in Runner : run'[r].pc \in ExtractingPc =>
                 \/ run[r].pc \in ExtractingPc /\ run'[r].cycle = run[r].cycle
                 \/ Start(r)
<1>0. run \in [Runner -> Run] /\ sw \in Globals
  BY DEF Typed, TypeOK
<1>1. ASSUME NEW x \in Runner, RunStep(x) \/ RunFault(x) \/ TabClosed(x) \/ \E c \in Cycle : Poll(x, c)
      PROVE  /\ sw.started \subseteq sw'.started
             /\ \A r \in Runner : run'[r].pc \in ExtractingPc =>
                   \/ run[r].pc \in ExtractingPc /\ run'[r].cycle = run[r].cycle
                   \/ Start(r)
  <2>1. \A r \in Runner \ {x} : run'[r] = run[r]
    <3>1. CASE FetchFails(x) \/ FetchAborted(x)
      <4>1. WithoutAnswer(x)
        BY <3>1 DEF FetchFails, FetchAborted
      <4> QED BY <1>0, <4>1 DEF WithoutAnswer
    <3>2. CASE \/ Claim(x) \/ ClaimLost(x) \/ Duplicate(x) \/ Start(x) \/ Advance(x)
               \/ AdvanceLost(x) \/ ExtractorFails(x) \/ Complete(x) \/ CompleteLost(x)
               \/ \E w \in Worker : PostExtract(x, w)
      <4>1. run' = run \/ \E pc \in RunPc : Step(x, pc)
        BY <3>2 DEF Claim, ClaimLost, Duplicate, Start, Advance, AdvanceLost, ExtractorFails,
           Complete, CompleteLost, Verdict, PostExtract, RunPc, Waiting
      <4> QED BY <1>0, <4>1 DEF Step
    <3>3. CASE NoAccountData(x)
      BY <1>0, <3>3 DEF NoAccountData, Step
    <3> QED BY <1>0, <1>1, <3>1, <3>2, <3>3 DEF RunStep, RunFault, TabClosed, Poll, Finish, GiveUp,
          PostProbe, NoAccountDataLost, PostProbeLost
  <2>2. sw.started \subseteq sw'.started
    <3>1. CASE \/ Claim(x) \/ ClaimLost(x) \/ Duplicate(x) \/ Advance(x)
               \/ AdvanceLost(x) \/ ExtractorFails(x)
               \/ NoAccountData(x) \/ NoAccountDataLost(x)
      BY <3>1 DEF Claim, ClaimLost, Duplicate, Advance, AdvanceLost, ExtractorFails,
         NoAccountData, NoAccountDataLost
    <3>2. CASE \/ \E v \in {"failed", "timed_out"} : GiveUp(x, v)
               \/ \E w \in Worker : PostExtract(x, w)
               \/ \E w \in Worker, p \in PageSeen \cup {ErrorPage},
                     pc \in {"probing", "reporting"} : PostProbe(x, w, p, pc)
               \/ \E p \in PageSeen \cup {ErrorPage} : PostProbeLost(x, p)
      BY <3>2 DEF GiveUp, PostExtract, PostProbe, PostProbeLost
    <3>3. CASE Start(x)
      BY <1>0, <3>3 DEF Start, Globals
    <3>4. CASE Finish(x) \/ TabClosed(x)
      BY <1>0, <3>4 DEF Finish, TabClosed, Cleared, Globals
    <3>5. CASE \E c \in Cycle : Poll(x, c)
      BY <1>0, <3>5 DEF Poll, Globals
    <3>6. CASE Complete(x) \/ CompleteLost(x)
      BY <1>0, <3>6 DEF Complete, CompleteLost, Verdict, Globals
    <3>7. CASE FetchFails(x) \/ FetchAborted(x)
      BY <1>0, <3>7 DEF FetchFails, FetchAborted, Unanswered, PastProbe, Globals
    <3> QED BY <1>1, <3>1, <3>2, <3>3, <3>4, <3>5, <3>6, <3>7 DEF RunStep, RunFault
  <2>3. run[x] \in Run
    BY <1>0
  <2>4. run'[x].pc \in ExtractingPc =>
            \/ run[x].pc \in ExtractingPc /\ run'[x].cycle = run[x].cycle
            \/ Start(x)
    <3>1. CASE \/ FetchFails(x) \/ FetchAborted(x)
      <4>1. run'[x].pc \in {"finish", "start", "complete"}
        <5>1. CASE run[x].pc = "probing"
          <6>1. run'[x] = AfterProbe(run[x], "none")
            BY <1>0, <3>1, <5>1 DEF FetchFails, FetchAborted, WithoutAnswer
          <6> QED BY <2>3, <6>1, AfterProbeTyped
        <5>2. CASE run[x].pc # "probing"
          BY <1>0, <2>3, <3>1, <5>2 DEF FetchFails, FetchAborted, WithoutAnswer, Run
        <5> QED BY <5>1, <5>2
      <4> QED BY <4>1 DEF ExtractingPc
    <3>2. CASE TabClosed(x)
      <4>1. run'[x].pc = run[x].pc /\ run'[x].cycle = run[x].cycle
        BY <1>0, <2>3, <3>2 DEF TabClosed, Run
      <4> QED BY <4>1
    <3>3. CASE Advance(x) \/ AdvanceLost(x)
      BY <1>0, <2>3, <3>3 DEF Advance, AdvanceLost, Step, ExtractingPc, Run
    <3>4. CASE \E w \in Worker : PostExtract(x, w)
      <4>1. run[x].pc = "extractor" /\ \E pc \in {"extracting", "complete"} : Step(x, pc)
        BY <3>4 DEF PostExtract
      <4> QED BY <1>0, <2>3, <4>1 DEF Step, ExtractingPc, Run
    <3>5. CASE Finish(x) \/ \E c \in Cycle : Poll(x, c)
      <4>1. run'[x] = IdleRun \/ \E c \in Cycle :
                run'[x] = [IdleRun EXCEPT !.pc = "claim", !.cycle = c]
        BY <1>0, <3>5 DEF Finish, Poll
      <4>2. run'[x].pc \in {"idle", "claim"}
        <5>1. IdleRun.pc = "idle"
          BY DEF IdleRun
        <5> QED BY <4>1, <5>1, IdleTyped DEF Run
      <4> QED BY <4>2 DEF ExtractingPc
    <3>6. CASE \/ Claim(x) \/ ClaimLost(x) \/ Duplicate(x) \/ ExtractorFails(x)
               \/ NoAccountData(x) \/ NoAccountDataLost(x) \/ Complete(x) \/ CompleteLost(x)
               \/ \E v \in {"failed", "timed_out"} : GiveUp(x, v)
               \/ \E p \in PageSeen \cup {ErrorPage} : PostProbeLost(x, p)
               \/ \E w \in Worker, p \in PageSeen \cup {ErrorPage},
                     pc \in {"probing", "reporting"} : PostProbe(x, w, p, pc)
      <4>1. run'[x].pc \in {"navigate", "finish", "complete", "abandon", "probing", "reporting"}
        BY <1>0, <2>3, <3>6 DEF Claim, ClaimLost, Duplicate, ExtractorFails, NoAccountData,
           NoAccountDataLost, Complete, CompleteLost, Verdict, GiveUp, PostProbeLost, PostProbe,
           Step, Run
      <4> QED BY <4>1 DEF ExtractingPc
    <3> QED BY <1>1, <3>1, <3>2, <3>3, <3>4, <3>5, <3>6 DEF RunStep, RunFault
  <2> QED BY <2>1, <2>2, <2>4
<1>2. ASSUME NEW w \in Worker, JobStep(w)
      PROVE  /\ sw.started \subseteq sw'.started
             /\ \A r \in Runner : run'[r].pc \in ExtractingPc =>
                   run[r].pc \in ExtractingPc /\ run'[r].cycle = run[r].cycle
  <2>1. CASE FinishProbe(w)
    <3>1. CASE job[w].for = NoRunner
      BY <2>1, <3>1 DEF FinishProbe, ProbeAnswered
    <3>2. CASE job[w].for # NoRunner
      <4> DEFINE x == job[w].for
      <4>1. x \in Runner /\ run[x] \in Run
        BY <1>0, <3>2 DEF Typed, TypeOK, Job
      <4>2. \A r \in Runner \ {x} : run'[r] = run[r]
        BY <1>0, <2>1, <3>2 DEF FinishProbe, ProbeAnswered
      <4>3. PICK d : run'[x] = IF run[x].pc = "probing" THEN AfterProbe(run[x], d)
                               ELSE [run[x] EXCEPT !.pc = "finish"]
        BY <1>0, <2>1, <3>2, <4>1 DEF FinishProbe, ProbeAnswered
      <4> HIDE DEF x
      <4>4. run'[x].pc \in {"finish", "start", "complete"}
        BY <4>1, <4>3, AfterProbeTyped DEF Run
      <4>5. sw'.started = sw.started
        BY <1>0, <2>1 DEF FinishProbe, PastProbe, Globals
      <4> QED BY <4>2, <4>4, <4>5 DEF ExtractingPc
    <3>3. sw'.started = sw.started
      BY <1>0, <2>1 DEF FinishProbe, PastProbe, Globals
    <3> QED BY <3>1, <3>2, <3>3
  <2>2. CASE FailExtraction(w) \/ CompleteExtraction(w)
    <3>1. sw' = sw
      BY <2>2 DEF FailExtraction, CompleteExtraction
    <3>2. ASSUME NEW r \in Runner
          PROVE  run'[r] = run[r] \/ run'[r].pc \in {"finish", "complete"}
      BY <1>0, <2>2, <3>2 DEF FailExtraction, CompleteExtraction, ExtractAnswered, Run
    <3> QED BY <3>1, <3>2 DEF ExtractingPc
  <2> QED BY <1>2, <2>1, <2>2 DEF JobStep, StoreProbe, MarkExtracting, ApplyExtraction,
        RefuseExtraction, BreakExtraction, StoreFailure, PublishSnapshot, StoreExtractEvidence,
        Move, MarkPending, StoreReport
<1>3. ASSUME NEW c \in Cycle, OpenCycle(c) \/ Expire(c) \/ CancelPosted(c) \/ CancelLost(c)
      PROVE  run' = run /\ sw'.started = sw.started
  BY <1>0, <1>3 DEF OpenCycle, Expire, CancelPosted, CancelLost, Cancel, Globals
<1>4. ASSUME \/ \E w \in Worker : ContentPush(w) \/ \E t \in ReportKind : BeginMove(w, t)
             \/ ServerCrash \/ Tick \/ UNCHANGED vars
      PROVE  run' = run /\ sw' = sw
  BY <1>4 DEF ContentPush, BeginMove, ServerCrash, Tick, vars
<1> QED BY <1>1, <1>2, <1>3, <1>4 DEF Next

LEMMA OnceStep == Typed /\ Once /\ [Next]_vars => Once'
<1> SUFFICES ASSUME Typed, Once, [Next]_vars PROVE Once'
  OBVIOUS
<1>1. CASE Stopped \/ Reloaded
  BY <1>1 DEF Stopped, Reloaded, WorkerStops, IdleRun, Once, OneExtractionPerCycle, ExtractingPc
<1>2. CASE ~Stopped /\ ~Reloaded
  <2>1. \A r \in Runner : Start(r) =>
          /\ run[r].cycle \notin sw.started /\ run'[r].cycle = run[r].cycle
          /\ run[r].cycle \in sw'.started
          /\ \A q \in Runner \ {r} : run'[q] = run[q]
    BY DEF Start, Step, Typed, TypeOK, Globals, Run
  <2>2. \A r \in Runner : run'[r].pc \in ExtractingPc => run'[r].cycle \in sw'.started
    BY <1>2, <2>1, ExtractingSteps DEF Once
  <2>3. ASSUME NEW r \in Runner, NEW q \in Runner, r # q, run'[r].cycle = run'[q].cycle,
               run'[r].pc \in ExtractingPc, run'[q].pc \in ExtractingPc
        PROVE  FALSE
    <3>1. CASE Start(r) \/ Start(q)
      BY <1>2, <2>1, <2>3, <3>1 DEF Once
    <3>2. CASE ~Start(r) /\ ~Start(q)
      BY <1>2, <2>3, <3>2, ExtractingSteps DEF Once, OneExtractionPerCycle, ExtractingPc
    <3> QED BY <3>1, <3>2
  <2> QED BY <2>2, <2>3 DEF Once, OneExtractionPerCycle, ExtractingPc
<1> QED BY <1>1, <1>2

\* Overlapping runs never extract the same cycle (_amexExtractionCyclesStarted).
THEOREM OneExtractionPerCycleHolds == Spec => []OneExtractionPerCycle
<1>1. Init => Once
  BY DEF Init, Once, OneExtractionPerCycle, IdleRun, ExtractingPc
<1>2. Once => OneExtractionPerCycle
  BY DEF Once
<1> QED BY InitTyped, TypedStep, OnceStep, <1>1, <1>2, PTL DEF Spec

-----------------------------------------------------------------------------
(* No cycle is stranded while nothing fails.  Besides the property: a run that waits  *)
(* is served; the probe a thread handles is that of a run that waits for it, and is   *)
(* inconclusive when the run only reports an error; and a cycle that was started is   *)
(* in the hands of a run that extracts or gives its verdict.                          *)

Begun == Active \ {"requested"}
EndingPc == ExtractingPc \cup {"complete"}

Attended ==
    /\ \A w \in Worker : job[w].pc \notin CyclePc => job[w].cycle = NoCycle
    /\ \A r \in Runner : run[r].pc # "idle" => stage[run[r].cycle] # "absent"
    /\ \A c \in sw.started : stage[c] # "absent"
    /\ \A r \in Runner : run[r].pc \in Waiting => \E w \in Worker : job[w].for = r
    /\ \A w \in Worker : job[w].pc \in ProbePc =>
          /\ job[w].for # NoRunner
          /\ run[job[w].for].pc \in {"probing", "reporting"}
          /\ run[job[w].for].pc = "reporting" => job[w].evidence.state = "none"
    /\ \A c \in sw.started : stage[c] \in Active =>
          \E q \in Runner : run[q].cycle = c /\ run[q].pc \in EndingPc
    /\ NotStranded

\* A job that takes a step and keeps its cycle and its client.
LEMMA JobAttended ==
    ASSUME Typed, Attended, faults = 0, faults' = 0, UNCHANGED <<run, sw>>,
           NEW w \in Worker, NEW j \in Job, job' = [job EXCEPT ![w] = j],
           j.cycle = job[w].cycle, j.for = job[w].for,
           j.pc \notin CyclePc => j.cycle = NoCycle,
           j.pc \in ProbePc => job[w].pc \in ProbePc /\ j.evidence = job[w].evidence,
           \A c \in Cycle : /\ stage[c] # "absent" => stage'[c] # "absent"
                            /\ stage'[c] \in Active => stage[c] \in Active
                            /\ stage'[c] \in Begun => stage[c] \in Begun \/ c = job[w].cycle
    PROVE  Attended'
<1>1. job'[w] = j /\ \A v \in Worker \ {w} : job'[v] = job[v]
  BY DEF Typed, TypeOK
<1>2. \A v \in Worker : job'[v].cycle = job[v].cycle /\ job'[v].for = job[v].for
  BY <1>1
<1>3. sw.started \subseteq Cycle /\ \A r \in Runner : run[r].pc # "idle" => run[r].cycle \in Cycle
  BY DEF Typed, TypeOK, Globals, Shape
<1>4. NotStranded'
  BY <1>2 DEF NotStranded, Attended, Begun
<1>5. \A v \in Worker : job'[v].pc \notin CyclePc => job'[v].cycle = NoCycle
  BY <1>1 DEF Attended
<1>6. \A v \in Worker : job'[v].pc \in ProbePc => job[v].pc \in ProbePc /\ job'[v].evidence = job[v].evidence
  BY <1>1
<1>7. \A r \in Runner : run[r].pc \in Waiting => \E v \in Worker : job'[v].for = r
  BY <1>2 DEF Attended
<1>8. \A v \in Worker : job'[v].pc \in ProbePc =>
          /\ job'[v].for # NoRunner
          /\ run[job'[v].for].pc \in {"probing", "reporting"}
          /\ run[job'[v].for].pc = "reporting" => job'[v].evidence.state = "none"
  BY <1>2, <1>6 DEF Attended
<1> QED BY <1>3, <1>4, <1>5, <1>7, <1>8 DEF Attended

\* A run that moves without a request.
LEMMA RunAttended ==
    ASSUME Typed, Attended, faults = 0, faults' = 0, job' = job,
           NEW r \in Runner, NEW q \in Run, run' = [run EXCEPT ![r] = q],
           run[r].pc \notin Waiting \cup {"idle"}, q.pc \notin Waiting \cup {"idle"},
           q.cycle = run[r].cycle,
           sw'.cancelling = sw.cancelling,
           sw'.started = sw.started
              \/ (sw'.started = sw.started \cup {q.cycle} /\ q.pc \in EndingPc),
           \A c \in Cycle : /\ stage[c] # "absent" => stage'[c] # "absent"
                            /\ stage'[c] \in Active => stage[c] \in Active
                            /\ stage'[c] \in Begun => stage[c] \in Begun \/ c = q.cycle,
           run[r].pc \in EndingPc => q.pc \in EndingPc \/ stage'[q.cycle] \notin Active,
           q.pc = "finish" =>
              \/ stage'[q.cycle] \notin Begun
              \/ \E x \in Runner \ {r} : run[x].cycle = q.cycle /\ run[x].pc # "finish"
    PROVE  Attended'
<1>1. run'[r] = q /\ \A x \in Runner \ {r} : run'[x] = run[x]
  BY DEF Typed, TypeOK
<1>2. q.cycle \in Cycle /\ stage'[q.cycle] # "absent" /\ sw.started \subseteq Cycle
      /\ \A x \in Runner : run[x].pc # "idle" => run[x].cycle \in Cycle
  BY DEF Typed, TypeOK, Globals, Shape, Attended
<1>3. \A w \in Worker : job[w].for # r /\ job[w].for \in Runner \cup {NoRunner}
  BY RunnerAssumption DEF Typed, TypeOK, Shape, Job
<1>4. ASSUME NEW c \in Cycle, stage'[c] \in Begun
      PROVE  \/ \E x \in Runner : run'[x].cycle = c /\ run'[x].pc # "finish"
             \/ \E w \in Worker : job[w].cycle = c
             \/ c \in sw.cancelling
  <2>1. CASE c = q.cycle
    BY <1>1, <1>4, <2>1
  <2>2. CASE c # q.cycle
    <3>1. stage[c] \in Begun
      BY <1>4, <2>2
    <3>2. \/ \E x \in Runner \ {r} : run[x].cycle = c /\ run[x].pc # "finish"
          \/ \E w \in Worker : job[w].cycle = c
          \/ c \in sw.cancelling
      BY <2>2, <3>1 DEF Attended, NotStranded, Begun
    <3> QED BY <1>1, <3>2
  <2> QED BY <2>1, <2>2
<1>5. NotStranded'
  BY <1>4 DEF NotStranded, Begun
<1>6. \A x \in Runner : run'[x].pc \in Waiting => \E w \in Worker : job[w].for = x
  BY <1>1 DEF Attended
<1>7. \A w \in Worker : job[w].pc \in ProbePc =>
          /\ job[w].for # NoRunner
          /\ run'[job[w].for].pc \in {"probing", "reporting"}
          /\ run'[job[w].for].pc = "reporting" => job[w].evidence.state = "none"
  BY <1>1, <1>3 DEF Attended
<1>8. ASSUME NEW c \in sw'.started, stage'[c] \in Active
      PROVE  \E x \in Runner : run'[x].cycle = c /\ run'[x].pc \in EndingPc
  <2>1. CASE c = q.cycle /\ q.pc \in EndingPc
    BY <1>1, <2>1
  <2>2. CASE c \in sw.started /\ ~(c = q.cycle /\ q.pc \in EndingPc)
    <3>1. stage[c] \in Active
      BY <1>2, <1>8, <2>2
    <3>2. PICK x \in Runner : run[x].cycle = c /\ run[x].pc \in EndingPc
      BY <2>2, <3>1 DEF Attended
    <3>3. x # r
      BY <1>8, <2>2, <3>2
    <3> QED BY <1>1, <3>2, <3>3
  <2> QED BY <1>8, <2>1, <2>2
<1>9. /\ \A x \in Runner : run'[x].pc # "idle" => stage'[run'[x].cycle] # "absent"
      /\ \A c \in sw'.started : stage'[c] # "absent"
  BY <1>1, <1>2 DEF Attended
<1> QED BY <1>5, <1>6, <1>7, <1>8, <1>9 DEF Attended

\* A run that posts a request a thread accepts.
LEMMA PostAttended ==
    ASSUME Typed, Attended, faults = 0, faults' = 0, UNCHANGED <<stage, sw>>,
           NEW r \in Runner, NEW q \in Run, run' = [run EXCEPT ![r] = q],
           NEW w \in Worker, NEW j \in Job, job' = [job EXCEPT ![w] = j],
           run[r].pc \notin Waiting \cup {"idle"}, q.pc \in Waiting, q.cycle = run[r].cycle,
           job[w].pc = "idle", j.for = r, j.pc \in CyclePc,
           j.pc \in ProbePc => /\ q.pc \in {"probing", "reporting"}
                               /\ q.pc = "reporting" => j.evidence.state = "none",
           run[r].pc \in EndingPc => q.pc \in EndingPc
    PROVE  Attended'
<1>1. run'[r] = q /\ \A x \in Runner \ {r} : run'[x] = run[x]
  BY DEF Typed, TypeOK
<1>2. job'[w] = j /\ \A v \in Worker \ {w} : job'[v] = job[v]
  BY DEF Typed, TypeOK
<1>3. \A v \in Worker : job[v].for # r /\ job[v].for \in Runner \cup {NoRunner}
  BY RunnerAssumption DEF Typed, TypeOK, Shape, Job
<1>4. job[w].for = NoRunner /\ job[w].cycle = NoCycle
  BY DEF Typed, Shape, IdleJob
<1>5. r # NoRunner
  BY RunnerAssumption
<1>6. \A x \in Runner : /\ run'[x].cycle = run[x].cycle
                        /\ run[x].pc # "finish" => run'[x].pc # "finish"
  BY <1>1 DEF Waiting
<1>7. NotStranded'
  <2> SUFFICES ASSUME NEW c \in Cycle, stage[c] \in Begun
               PROVE  \/ \E x \in Runner : run'[x].cycle = c /\ run'[x].pc # "finish"
                      \/ \E v \in Worker : job'[v].cycle = c
                      \/ c \in sw.cancelling
    BY DEF NotStranded, Begun
  <2>1. \/ \E x \in Runner : run[x].cycle = c /\ run[x].pc # "finish"
        \/ \E v \in Worker : job[v].cycle = c
        \/ c \in sw.cancelling
    BY DEF Attended, NotStranded, Begun
  <2> QED BY <1>2, <1>4, <1>6, <2>1 DEF Cycle, NoCycle
<1>8. \A x \in Runner : run'[x].pc \in Waiting => \E v \in Worker : job'[v].for = x
  BY <1>1, <1>2, <1>4, RunnerAssumption DEF Attended
<1>9. \A v \in Worker : job'[v].pc \in ProbePc =>
          /\ job'[v].for # NoRunner
          /\ run'[job'[v].for].pc \in {"probing", "reporting"}
          /\ run'[job'[v].for].pc = "reporting" => job'[v].evidence.state = "none"
  BY <1>1, <1>2, <1>3, <1>5 DEF Attended
<1>10. ASSUME NEW c \in sw.started, stage[c] \in Active
       PROVE  \E x \in Runner : run'[x].cycle = c /\ run'[x].pc \in EndingPc
  <2>1. PICK x \in Runner : run[x].cycle = c /\ run[x].pc \in EndingPc
    BY <1>10 DEF Attended
  <2> QED BY <1>1, <1>6, <2>1
<1>11. /\ \A x \in Runner : run'[x].pc # "idle" => stage[run'[x].cycle] # "absent"
       /\ \A v \in Worker : job'[v].pc \notin CyclePc => job'[v].cycle = NoCycle
  BY <1>1, <1>2, <1>6 DEF Attended
<1> QED BY <1>7, <1>8, <1>9, <1>10, <1>11 DEF Attended

\* A job that ends: its cycle has ended too, or the run it answers goes on with it.
LEMMA AnswerAttended ==
    ASSUME Typed, Attended, faults = 0, faults' = 0,
           sw'.started = sw.started, sw'.cancelling = sw.cancelling,
           NEW w \in Worker, Free(w), job[w].cycle \in Cycle,
           \/ job[w].for = NoRunner /\ run' = run /\ stage'[job[w].cycle] \notin Active
           \/ /\ job[w].for # NoRunner
              /\ \E q \in Run :
                    /\ run' = [run EXCEPT ![job[w].for] = q]
                    /\ q.pc \notin Waiting \cup {"idle"} /\ q.cycle = job[w].cycle
                    /\ \/ stage'[job[w].cycle] \notin Active
                       \/ q.pc # "finish" /\ run[job[w].for].pc \notin EndingPc,
           \A c \in Cycle : /\ stage[c] # "absent" => stage'[c] # "absent"
                            /\ stage'[c] \in Active => stage[c] \in Active
                            /\ stage'[c] \in Begun => stage[c] \in Begun \/ c = job[w].cycle
    PROVE  Attended'
<1>1. job'[w] = IdleJob /\ \A v \in Worker \ {w} : job'[v] = job[v]
  BY DEF Free, Typed, TypeOK
<1>2. sw.started \subseteq Cycle /\ \A x \in Runner : run[x].pc # "idle" => run[x].cycle \in Cycle
  BY DEF Typed, TypeOK, Globals, Shape
<1>3. IdleJob.pc = "idle" /\ IdleJob.cycle = NoCycle /\ IdleJob.for = NoRunner
      /\ "idle" \notin CyclePc /\ "idle" \notin ProbePc
  BY DEF IdleJob, CyclePc, ProbePc
<1>4. \A v \in Worker : job[v].for \in Runner \cup {NoRunner}
  BY DEF Typed, TypeOK, Job
<1>5. \A v \in Worker : job'[v].pc \notin CyclePc => job'[v].cycle = NoCycle
  BY <1>1, <1>3 DEF Attended
<1>6. CASE job[w].for = NoRunner
  <2>1. run' = run /\ stage'[job[w].cycle] \notin Active
    BY <1>6
  <2>2. NotStranded'
    <3> SUFFICES ASSUME NEW c \in Cycle, stage'[c] \in Begun
                 PROVE  \/ \E x \in Runner : run'[x].cycle = c /\ run'[x].pc # "finish"
                        \/ \E v \in Worker : job'[v].cycle = c
                        \/ c \in sw'.cancelling
      BY DEF NotStranded, Begun
    <3>1. stage[c] \in Begun /\ c # job[w].cycle
      BY <2>1 DEF Begun
    <3> QED BY <1>1, <2>1, <3>1 DEF Attended, NotStranded, Begun
  <2>3. \A x \in Runner : run'[x].pc \in Waiting => \E v \in Worker : job'[v].for = x
    BY <1>1, <1>6, <2>1, RunnerAssumption DEF Attended
  <2>4. \A v \in Worker : job'[v].pc \in ProbePc =>
          /\ job'[v].for # NoRunner
          /\ run'[job'[v].for].pc \in {"probing", "reporting"}
          /\ run'[job'[v].for].pc = "reporting" => job'[v].evidence.state = "none"
    BY <1>1, <1>3, <2>1 DEF Attended
  <2> QED BY <1>2, <1>5, <2>1, <2>2, <2>3, <2>4 DEF Attended
<1>7. CASE job[w].for # NoRunner
  <2> DEFINE r == job[w].for
  <2>1. PICK q \in Run :
                    /\ run' = [run EXCEPT ![r] = q]
                    /\ q.pc \notin Waiting \cup {"idle"} /\ q.cycle = job[w].cycle
                    /\ \/ stage'[job[w].cycle] \notin Active
                       \/ q.pc # "finish" /\ run[r].pc \notin EndingPc
    BY <1>7
  <2>2. r \in Runner /\ run[r].cycle = job[w].cycle /\ run[r].pc # "idle"
        /\ \A v \in Worker \ {w} : job[v].for # r
    BY <1>4, <1>7 DEF Typed, Shape, Waiting
  <2> HIDE DEF r
  <2>3. run'[r] = q /\ \A x \in Runner \ {r} : run'[x] = run[x]
    BY <2>1, <2>2 DEF Typed, TypeOK
  <2>4. NotStranded'
    <3> SUFFICES ASSUME NEW c \in Cycle, stage'[c] \in Begun
                 PROVE  \/ \E x \in Runner : run'[x].cycle = c /\ run'[x].pc # "finish"
                        \/ \E v \in Worker : job'[v].cycle = c
                        \/ c \in sw'.cancelling
      BY DEF NotStranded, Begun
    <3>1. CASE c = job[w].cycle
      <4>1. q.pc # "finish"
        BY <2>1, <3>1 DEF Begun
      <4> QED BY <2>1, <2>2, <2>3, <3>1, <4>1
    <3>2. CASE c # job[w].cycle
      <4>1. \/ \E x \in Runner \ {r} : run[x].cycle = c /\ run[x].pc # "finish"
            \/ \E v \in Worker \ {w} : job[v].cycle = c
            \/ c \in sw.cancelling
        BY <2>2, <3>2 DEF Attended, NotStranded, Begun
      <4> QED BY <1>1, <2>3, <4>1
    <3> QED BY <3>1, <3>2
  <2>5. \A x \in Runner : run'[x].pc \in Waiting => \E v \in Worker : job'[v].for = x
    <3> SUFFICES ASSUME NEW x \in Runner, run'[x].pc \in Waiting
                 PROVE  \E v \in Worker : job'[v].for = x
      OBVIOUS
    <3>1. x # r /\ run[x].pc \in Waiting
      BY <2>1, <2>3
    <3>2. PICK v \in Worker : job[v].for = x
      BY <3>1 DEF Attended
    <3>3. v # w
      BY <3>1, <3>2 DEF r
    <3> QED BY <1>1, <3>2, <3>3
  <2>6. \A v \in Worker : job'[v].pc \in ProbePc =>
          /\ job'[v].for # NoRunner
          /\ run'[job'[v].for].pc \in {"probing", "reporting"}
          /\ run'[job'[v].for].pc = "reporting" => job'[v].evidence.state = "none"
    BY <1>1, <1>3, <1>4, <2>2, <2>3 DEF Attended
  <2>7. ASSUME NEW c \in sw.started, stage'[c] \in Active
        PROVE  \E x \in Runner : run'[x].cycle = c /\ run'[x].pc \in EndingPc
    <3>1. PICK x \in Runner : run[x].cycle = c /\ run[x].pc \in EndingPc
      BY <1>2, <2>7 DEF Attended
    <3>2. x # r
      BY <2>1, <2>2, <2>7, <3>1
    <3> QED BY <2>3, <3>1, <3>2
  <2>8. /\ \A x \in Runner : run'[x].pc # "idle" => stage'[run'[x].cycle] # "absent"
        /\ \A c \in sw'.started : stage'[c] # "absent"
    <3>1. stage[job[w].cycle] # "absent"
      BY <2>2 DEF Attended
    <3> QED BY <1>2, <2>1, <2>3, <3>1 DEF Attended
  <2> QED BY <1>5, <2>4, <2>5, <2>6, <2>7, <2>8 DEF Attended
<1> QED BY <1>6, <1>7

\* What a guarded UPDATE does to the cycles that are open.
LEMMA ActiveOps ==
    ASSUME Typed, NEW c \in Cycle, NEW d \in Cycle
    PROVE  /\ \A result \in Ended :
                 /\ Closed(c, result)[c] \notin Active
                 /\ stage[d] # "absent" => Closed(c, result)[d] # "absent"
                 /\ Closed(c, result)[d] \in Active => stage[d] \in Active
                 /\ Closed(c, result)[d] \in Begun => stage[d] \in Begun
           /\ stage[d] # "absent" => Claimed(c)[d] # "absent"
           /\ Claimed(c)[d] \in Active => stage[d] \in Active
           /\ Claimed(c)[d] \in Begun => stage[d] \in Begun \/ d = c
           /\ \A to \in MidCycle :
                 /\ stage[d] # "absent" => Advanced(c, to)[d] # "absent"
                 /\ Advanced(c, to)[d] \in Active => stage[d] \in Active
                 /\ Advanced(c, to)[d] \in Begun => stage[d] \in Begun \/ d = c
BY DEF Typed, TypeOK, Closed, Claimed, Advanced, Ended, Begun, Claimable, MidCycle, Active

\* An error page decides nothing.
LEMMA ErrorInconclusive == Decision(Probe(ErrorPage)) = "inconclusive"
<1>1. Probe(ErrorPage).error
  BY DEF Probe, ErrorPage
<1>2. Unusable(Probe(ErrorPage))
  BY <1>1 DEF Unusable
<1> QED BY <1>2 DEF Decision, Connected, SignedOut

LEMMA JobStepAttended ==
    ASSUME Typed, Attended, faults = 0, faults' = 0, NEW w \in Worker, JobStep(w)
    PROVE  Attended'
<1>0. job[w] \in Job /\ (job[w].pc \in CyclePc => job[w].cycle \in Cycle)
  BY DEF Typed, TypeOK, Shape
<1>1. Typed'
  BY TypedStep DEF Next
<1>2. CASE \/ StoreProbe(w) \/ MarkExtracting(w) \/ ApplyExtraction(w) \/ RefuseExtraction(w)
           \/ BreakExtraction(w) \/ StoreFailure(w) \/ PublishSnapshot(w)
           \/ StoreExtractEvidence(w)
  <2> DEFINE j == job'[w]
  <2>1. job' = [job EXCEPT ![w] = j] /\ j \in Job
    <3>1. job' \in [Worker -> Job]
      BY <1>1 DEF Typed, TypeOK
    <3>2. \A v \in Worker \ {w} : job'[v] = job[v]
      BY <1>2 DEF StoreProbe, MarkExtracting, ApplyExtraction, RefuseExtraction,
         BreakExtraction, StoreFailure, PublishSnapshot, StoreExtractEvidence, Typed, TypeOK
    <3> QED BY <3>1, <3>2 DEF Typed, TypeOK
  <2>2. /\ job[w].pc \in CyclePc /\ j.cycle = job[w].cycle /\ j.for = job[w].for
        /\ j.pc \in CyclePc
        /\ j.pc \in ProbePc => job[w].pc \in ProbePc /\ j.evidence = job[w].evidence
        /\ UNCHANGED <<run, sw>>
    <3>1. CASE StoreProbe(w)
      BY <1>0, <3>1 DEF StoreProbe, WithEvidence, Typed, TypeOK, Job, CyclePc, ProbePc
    <3>2. CASE MarkExtracting(w)
      BY <1>0, <3>2 DEF MarkExtracting, WithEvidence, Typed, TypeOK, Job, CyclePc, ProbePc
    <3>3. CASE ApplyExtraction(w)
      BY <1>0, <3>3 DEF ApplyExtraction, WithEvidence, Typed, TypeOK, Job, CyclePc, ProbePc
    <3>4. CASE RefuseExtraction(w)
      BY <1>0, <3>4 DEF RefuseExtraction, WithEvidence, Typed, TypeOK, Job, CyclePc, ProbePc
    <3>5. CASE StoreFailure(w)
      BY <1>0, <3>5 DEF StoreFailure, WithEvidence, Typed, TypeOK, Job, CyclePc, ProbePc
    <3>6. CASE PublishSnapshot(w)
      BY <1>0, <3>6 DEF PublishSnapshot, WithEvidence, Typed, TypeOK, Job, CyclePc, ProbePc
    <3>7. CASE StoreExtractEvidence(w)
      BY <1>0, <3>7 DEF StoreExtractEvidence, WithEvidence, Typed, TypeOK, Job, CyclePc, ProbePc
    <3>8. CASE BreakExtraction(w)
      BY <1>0, <3>8 DEF BreakExtraction, WithEvidence, Typed, TypeOK, Job, CyclePc, ProbePc
    <3> QED BY <1>2, <3>1, <3>2, <3>3, <3>4, <3>5, <3>6, <3>7, <3>8
  <2>3. stage' = stage \/ stage' = Advanced(job[w].cycle, "extracting")
    BY <1>2 DEF StoreProbe, MarkExtracting, ApplyExtraction, RefuseExtraction,
       BreakExtraction, StoreFailure, PublishSnapshot, StoreExtractEvidence
  <2> HIDE DEF j
  <2>4. \A c \in Cycle : /\ stage[c] # "absent" => stage'[c] # "absent"
                         /\ stage'[c] \in Active => stage[c] \in Active
                         /\ stage'[c] \in Begun => stage[c] \in Begun \/ c = job[w].cycle
    BY <1>0, <2>2, <2>3, ActiveOps DEF MidCycle
  <2> QED BY <2>1, <2>2, <2>4, JobAttended
<1>3. CASE Move(w) \/ MarkPending(w) \/ StoreReport(w)
  <2> DEFINE j == job'[w]
  <2>1. job' = [job EXCEPT ![w] = j] /\ j \in Job
    <3>1. job' \in [Worker -> Job]
      BY <1>1 DEF Typed, TypeOK
    <3>2. \A v \in Worker \ {w} : job'[v] = job[v]
      BY <1>3 DEF Move, MarkPending, StoreReport, Free, Typed, TypeOK
    <3> QED BY <3>1, <3>2 DEF Typed, TypeOK
  <2>2. job[w].pc \notin CyclePc /\ UNCHANGED <<stage, run, sw>>
    BY <1>3 DEF Move, MarkPending, StoreReport, CyclePc, ProbePc
  <2>3. job[w].cycle = NoCycle /\ job[w].for = NoRunner
    BY <2>2 DEF Attended, Typed, Shape
  <2>4. j.pc \notin CyclePc /\ j.cycle = NoCycle /\ j.for = NoRunner
    <3>1. IdleJob.pc = "idle" /\ IdleJob.cycle = NoCycle /\ IdleJob.for = NoRunner
      BY DEF IdleJob
    <3>2. CASE Move(w)
      BY <1>0, <2>3, <3>1, <3>2 DEF Move, WithEvidence, Typed, TypeOK, Job, CyclePc, ProbePc
    <3>3. CASE MarkPending(w)
      BY <1>0, <2>3, <3>3 DEF MarkPending, WithEvidence, Typed, TypeOK, Job, CyclePc, ProbePc
    <3>4. CASE StoreReport(w)
      BY <3>1, <3>4 DEF StoreReport, Free, Typed, TypeOK, CyclePc, ProbePc
    <3> QED BY <1>3, <3>2, <3>3, <3>4
  <2> HIDE DEF j
  <2>5. j.pc \notin ProbePc
    BY <2>4 DEF CyclePc
  <2> QED BY <2>1, <2>2, <2>3, <2>4, <2>5, JobAttended
<1>4. CASE FinishProbe(w)
  <2>1. job[w].cycle \in Cycle /\ job[w].pc \in ProbePc
    BY <1>0, <1>4 DEF FinishProbe, CyclePc, ProbePc
  <2>2. job[w].for \in Runner /\ run[job[w].for].pc \in {"probing", "reporting"}
        /\ (run[job[w].for].pc = "reporting" => job[w].evidence.state = "none")
    BY <1>0, <2>1 DEF Attended, Job
  <2> DEFINE r == job[w].for
             d == job[w].evidence.state
  <2>3. run[r] \in Run /\ run[r].cycle = job[w].cycle /\ r # NoRunner
    BY <2>2, RunnerAssumption DEF Typed, TypeOK, Shape
  <2>4. sw'.started = sw.started /\ sw'.cancelling = sw.cancelling
    BY <1>4 DEF FinishProbe, PastProbe, Typed, TypeOK, Globals
  <2>5. CASE d = "connected"
    <3>1. run' = [run EXCEPT ![r] = AfterProbe(run[r], "connected")]
      BY <1>4, <2>2, <2>3, <2>5 DEF FinishProbe, ProbeAnswered, Typed, TypeOK
    <3>2. AfterProbe(run[r], "connected").pc \in {"start", "complete"}
      BY <2>3 DEF AfterProbe, Run
    <3>3. stage' = Advanced(job[w].cycle, "session_verified")
      BY <1>4, <2>5 DEF FinishProbe
    <3>4. AfterProbe(run[r], "connected") \in Run
          /\ AfterProbe(run[r], "connected").cycle = job[w].cycle
      BY <2>3, AfterProbeTyped
    <3>5. /\ AfterProbe(run[r], "connected").pc \notin Waiting \cup {"idle"}
          /\ AfterProbe(run[r], "connected").pc # "finish" /\ run[r].pc \notin EndingPc
      BY <2>2, <3>2 DEF Waiting, EndingPc, ExtractingPc
    <3>6. \A c \in Cycle : /\ stage[c] # "absent" => stage'[c] # "absent"
                           /\ stage'[c] \in Active => stage[c] \in Active
                           /\ stage'[c] \in Begun => stage[c] \in Begun \/ c = job[w].cycle
      BY <2>1, <3>3, ActiveOps DEF MidCycle
    <3>7. \E q \in Run :
                    /\ run' = [run EXCEPT ![r] = q]
                    /\ q.pc \notin Waiting \cup {"idle"} /\ q.cycle = job[w].cycle
                    /\ q.pc # "finish" /\ run[r].pc \notin EndingPc
      BY <3>1, <3>4, <3>5
    <3>8. Free(w)
      BY <1>4 DEF FinishProbe
    <3> QED BY <2>1, <2>3, <2>4, <3>6, <3>7, <3>8, AnswerAttended
  <2>6. CASE d # "connected"
    <3>1. stage' = Closed(job[w].cycle, "signed_out") \/ stage' = Closed(job[w].cycle, "failed")
      BY <1>4, <2>6 DEF FinishProbe
    <3>2. stage'[job[w].cycle] \notin Active /\
          \A c \in Cycle : /\ stage[c] # "absent" => stage'[c] # "absent"
                           /\ stage'[c] \in Active => stage[c] \in Active
                           /\ stage'[c] \in Begun => stage[c] \in Begun \/ c = job[w].cycle
      BY <2>1, <3>1, ActiveOps DEF Ended
    <3>3. PICK x : run' = [run EXCEPT ![r] =
                     IF run[r].pc = "probing" THEN AfterProbe(run[r], x)
                     ELSE [run[r] EXCEPT !.pc = "finish"]]
      BY <1>4, <2>3 DEF FinishProbe, ProbeAnswered
    <3> DEFINE q == IF run[r].pc = "probing" THEN AfterProbe(run[r], x)
                    ELSE [run[r] EXCEPT !.pc = "finish"]
    <3> HIDE DEF r
    <3>4. AfterProbe(run[r], x) \in Run /\ AfterProbe(run[r], x).cycle = job[w].cycle
          /\ AfterProbe(run[r], x).pc \in {"finish", "start", "complete"}
      BY <2>3, AfterProbeTyped
    <3>5. [run[r] EXCEPT !.pc = "finish"] \in Run
          /\ [run[r] EXCEPT !.pc = "finish"].cycle = job[w].cycle
          /\ [run[r] EXCEPT !.pc = "finish"].pc = "finish"
      BY <2>3 DEF Run, RunPc
    <3>6. q \in Run /\ q.cycle = job[w].cycle /\ q.pc \notin Waiting \cup {"idle"}
      BY <3>4, <3>5 DEF Waiting
    <3>7. \E y \in Run :
                    /\ run' = [run EXCEPT ![r] = y]
                    /\ y.pc \notin Waiting \cup {"idle"} /\ y.cycle = job[w].cycle
      BY <3>3, <3>6
    <3>8. Free(w)
      BY <1>4 DEF FinishProbe
    <3> USE DEF r
    <3> QED BY <2>1, <2>3, <2>4, <3>2, <3>7, <3>8, AnswerAttended
  <2> QED BY <2>5, <2>6
<1>5. CASE FailExtraction(w) \/ CompleteExtraction(w)
  <2>1. job[w].cycle \in Cycle /\ sw' = sw /\ Free(w)
    BY <1>0, <1>5 DEF FailExtraction, CompleteExtraction, CyclePc
  <2>2. \E result \in Ended : stage' = Closed(job[w].cycle, result)
    BY <1>5 DEF FailExtraction, CompleteExtraction, Ended
  <2>3. stage'[job[w].cycle] \notin Active /\
        \A c \in Cycle : /\ stage[c] # "absent" => stage'[c] # "absent"
                         /\ stage'[c] \in Active => stage[c] \in Active
                         /\ stage'[c] \in Begun => stage[c] \in Begun \/ c = job[w].cycle
    BY <2>1, <2>2, ActiveOps
  <2>4. CASE job[w].for = NoRunner
    <3>1. run' = run
      BY <1>5, <2>4 DEF FailExtraction, CompleteExtraction, ExtractAnswered
    <3> QED BY <2>1, <2>3, <2>4, <3>1, AnswerAttended
  <2>5. CASE job[w].for # NoRunner
    <3> DEFINE r == job[w].for
    <3>1. run[r] \in Run /\ run[r].cycle = job[w].cycle /\ r \in Runner
      BY <1>0, <2>5 DEF Typed, TypeOK, Shape, Job
    <3>2. PICK pc \in {"finish", "complete"} : run' = [run EXCEPT ![r].pc = pc]
      BY <1>5, <2>5 DEF FailExtraction, CompleteExtraction, ExtractAnswered
    <3>3. run' = [run EXCEPT ![r] = [run[r] EXCEPT !.pc = pc]]
      BY <3>1, <3>2 DEF Typed, TypeOK
    <3> HIDE DEF r
    <3>4. [run[r] EXCEPT !.pc = pc] \in Run /\ [run[r] EXCEPT !.pc = pc].cycle = job[w].cycle
          /\ [run[r] EXCEPT !.pc = pc].pc \notin Waiting \cup {"idle"}
      BY <3>1 DEF Run, RunPc, Waiting
    <3>5. \E y \in Run :
                    /\ run' = [run EXCEPT ![r] = y]
                    /\ y.pc \notin Waiting \cup {"idle"} /\ y.cycle = job[w].cycle
      BY <3>3, <3>4
    <3> USE DEF r
    <3> QED BY <2>1, <2>3, <2>5, <3>5, AnswerAttended
  <2> QED BY <2>4, <2>5
<1> QED BY <1>2, <1>3, <1>4, <1>5 DEF JobStep

\* A run that keeps what it does, begins, or is over.
LEMMA QuietRunAttended ==
    ASSUME Typed, Attended, faults = 0, faults' = 0, UNCHANGED <<stage, job>>,
           NEW r \in Runner, NEW q \in Run, run' = [run EXCEPT ![r] = q],
           sw'.started = sw.started, sw.cancelling \subseteq sw'.cancelling,
           \/ q.pc = run[r].pc /\ q.cycle = run[r].cycle
           \/ run[r].pc \in {"idle", "finish"} /\ q.pc \in {"idle", "claim"},
           q.pc # "idle" => stage[q.cycle] # "absent"
    PROVE  Attended'
<1>1. run'[r] = q /\ \A x \in Runner \ {r} : run'[x] = run[x]
  BY DEF Typed, TypeOK
<1>2. run[r].pc = "idle" => run[r].cycle = NoCycle
  BY DEF Typed, Shape, IdleRun
<1>3. \A w \in Worker : job[w].for # NoRunner =>
         job[w].for \in Runner /\ run[job[w].for].pc \in Waiting
  BY DEF Typed, TypeOK, Shape, Job
<1>4. \A x \in Runner : run[x].pc \in Waiting \/ run'[x].pc \in Waiting
          => run'[x].pc = run[x].pc /\ run'[x].cycle = run[x].cycle
  BY <1>1 DEF Waiting
<1>5. \A x \in Runner : run[x].pc \in EndingPc
          => run'[x].pc = run[x].pc /\ run'[x].cycle = run[x].cycle
  BY <1>1 DEF EndingPc, ExtractingPc
<1>6. \A w \in Worker : job'[w].pc \in ProbePc =>
          /\ job'[w].for # NoRunner
          /\ run'[job'[w].for].pc \in {"probing", "reporting"}
          /\ run'[job'[w].for].pc = "reporting" => job'[w].evidence.state = "none"
  BY <1>3, <1>4 DEF Attended
<1>7. NotStranded'
  <2> SUFFICES ASSUME NEW c \in Cycle, stage[c] \in Begun
               PROVE  \/ \E x \in Runner : run'[x].cycle = c /\ run'[x].pc # "finish"
                      \/ \E v \in Worker : job[v].cycle = c
                      \/ c \in sw.cancelling
    BY DEF NotStranded, Begun
  <2>1. \/ \E x \in Runner : run[x].cycle = c /\ run[x].pc # "finish"
        \/ \E v \in Worker : job[v].cycle = c
        \/ c \in sw.cancelling
    BY DEF Attended, NotStranded, Begun
  <2> QED BY <1>1, <1>2, <2>1 DEF Cycle, NoCycle
<1>8. /\ \A x \in Runner : run'[x].pc # "idle" => stage'[run'[x].cycle] # "absent"
      /\ \A x \in Runner : run'[x].pc \in Waiting => \E w \in Worker : job'[w].for = x
      /\ \A c \in sw'.started : stage'[c] \in Active =>
            \E x \in Runner : run'[x].cycle = c /\ run'[x].pc \in EndingPc
  BY <1>1, <1>4, <1>5 DEF Attended
<1> QED BY <1>6, <1>7, <1>8 DEF Attended

\* A step of the cycle table alone, which may clear what was to be cancelled.
LEMMA TableAttended ==
    ASSUME Typed, Attended, faults = 0, faults' = 0, UNCHANGED <<run, job>>,
           sw'.started = sw.started,
           \A c \in sw.cancelling \ sw'.cancelling : stage'[c] \notin Begun,
           \A c \in Cycle : /\ stage[c] # "absent" => stage'[c] # "absent"
                            /\ stage'[c] \in Active => stage[c] \in Active \cup {"absent"}
                            /\ stage'[c] \in Begun => stage[c] \in Begun
    PROVE  Attended'
<1>1. sw.started \subseteq Cycle /\ \A r \in Runner : run[r].pc # "idle" => run[r].cycle \in Cycle
  BY DEF Typed, TypeOK, Globals, Shape
<1>2. NotStranded'
  BY DEF NotStranded, Attended, Begun
<1> QED BY <1>1, <1>2 DEF Attended

\* A request nobody waits for.
LEMMA BegunAttended ==
    ASSUME Typed, Attended, faults = 0, faults' = 0, UNCHANGED <<stage, run, sw>>,
           NEW w \in Worker, NEW j, job' = [job EXCEPT ![w] = j], job[w].pc = "idle",
           j.for = NoRunner, j.pc \notin ProbePc, j.pc \notin CyclePc => j.cycle = NoCycle
    PROVE  Attended'
<1>1. job'[w] = j /\ \A v \in Worker \ {w} : job'[v] = job[v]
  BY DEF Typed, TypeOK
<1>2. job[w].for = NoRunner /\ job[w].cycle = NoCycle
  BY DEF Typed, Shape, IdleJob
<1>3. NotStranded'
  BY <1>1, <1>2 DEF NotStranded, Attended, Cycle, NoCycle
<1>4. \A r \in Runner : run[r].pc \in Waiting => \E v \in Worker : job'[v].for = r
  BY <1>1, <1>2, RunnerAssumption DEF Attended
<1> QED BY <1>1, <1>3, <1>4 DEF Attended

LEMMA RunStepAttended ==
    ASSUME Typed, Attended, faults = 0, faults' = 0, NEW r \in Runner, RunStep(r)
    PROVE  Attended'
<1>0. /\ run[r] \in Run /\ run[r].pc # "idle" => run[r].cycle \in Cycle
      /\ run \in [Runner -> Run] /\ sw \in Globals
  BY DEF Typed, TypeOK, Shape
<1>1. \A pc \in RunPc : /\ [run[r] EXCEPT !.pc = pc] \in Run
                        /\ [run[r] EXCEPT !.pc = pc].pc = pc
                        /\ [run[r] EXCEPT !.pc = pc].cycle = run[r].cycle
  BY <1>0 DEF Run
<1>2. \A pc : Step(r, pc) => run' = [run EXCEPT ![r] = [run[r] EXCEPT !.pc = pc]]
  BY <1>0 DEF Step
<1>3. \A c \in Cycle : stage[c] \in Begun => stage[c] \in Active
  BY DEF Begun
<1>4. CASE Claim(r)
  <2> DEFINE q == [run[r] EXCEPT !.pc = "navigate"]
  <2>1. q \in Run /\ q.pc = "navigate" /\ q.cycle = run[r].cycle /\ run' = [run EXCEPT ![r] = q]
    BY <1>1, <1>2, <1>4 DEF Claim, RunPc
  <2> HIDE DEF q
  <2>2. run[r].cycle \in Cycle /\ run[r].pc = "claim" /\ UNCHANGED <<job, sw>>
        /\ stage' = Claimed(run[r].cycle)
    BY <1>0, <1>4 DEF Claim
  <2>3. \A c \in Cycle : /\ stage[c] # "absent" => stage'[c] # "absent"
                         /\ stage'[c] \in Active => stage[c] \in Active
                         /\ stage'[c] \in Begun => stage[c] \in Begun \/ c = q.cycle
    BY <2>1, <2>2, ActiveOps
  <2> QED BY <2>1, <2>2, <2>3, RunAttended DEF Waiting, EndingPc, ExtractingPc
<1>5. CASE Duplicate(r)
  <2> DEFINE q == [run[r] EXCEPT !.pc = "finish"]
  <2>1. q \in Run /\ q.pc = "finish" /\ q.cycle = run[r].cycle /\ run' = [run EXCEPT ![r] = q]
    BY <1>1, <1>2, <1>5 DEF Duplicate, RunPc
  <2> HIDE DEF q
  <2>2. run[r].cycle \in sw.started /\ run[r].pc = "start" /\ UNCHANGED <<stage, job, sw>>
    BY <1>5 DEF Duplicate
  <2>3. stage[q.cycle] \in Active =>
            \E x \in Runner \ {r} : run[x].cycle = q.cycle /\ run[x].pc # "finish"
    BY <2>1, <2>2 DEF Attended, EndingPc, ExtractingPc
  <2>4. run[r].cycle \in Cycle
    BY <1>0, <2>2
  <2> QED BY <1>3, <2>1, <2>2, <2>3, <2>4, RunAttended DEF Waiting, EndingPc, ExtractingPc
<1>6. CASE Start(r)
  <2> DEFINE q == [run[r] EXCEPT !.pc = "advance"]
  <2>1. q \in Run /\ q.pc = "advance" /\ q.cycle = run[r].cycle /\ run' = [run EXCEPT ![r] = q]
    BY <1>1, <1>2, <1>6 DEF Start, RunPc
  <2>2. /\ run[r].pc = "start" /\ UNCHANGED <<stage, job>>
        /\ sw'.cancelling = sw.cancelling /\ sw'.started = sw.started \cup {q.cycle}
    BY <1>0, <1>6, <2>1 DEF Start, Globals
  <2> HIDE DEF q
  <2> QED BY <2>1, <2>2, RunAttended DEF Waiting, EndingPc, ExtractingPc
<1>7. CASE Advance(r)
  <2> DEFINE q == [run[r] EXCEPT !.pc = "extractor"]
  <2>1. q \in Run /\ q.pc = "extractor" /\ q.cycle = run[r].cycle /\ run' = [run EXCEPT ![r] = q]
    BY <1>1, <1>2, <1>7 DEF Advance, RunPc
  <2> HIDE DEF q
  <2>2. run[r].cycle \in Cycle /\ run[r].pc = "advance" /\ UNCHANGED <<job, sw>>
        /\ stage' = Advanced(run[r].cycle, "extracting")
    BY <1>0, <1>7 DEF Advance
  <2>3. \A c \in Cycle : /\ stage[c] # "absent" => stage'[c] # "absent"
                         /\ stage'[c] \in Active => stage[c] \in Active
                         /\ stage'[c] \in Begun => stage[c] \in Begun \/ c = q.cycle
    BY <2>1, <2>2, ActiveOps DEF MidCycle
  <2> QED BY <2>1, <2>2, <2>3, RunAttended DEF Waiting, EndingPc, ExtractingPc
<1>8. ASSUME run[r].pc = "extractor", Step(r, "complete"), UNCHANGED <<stage, job, sw>>
      PROVE  Attended'
  <2> DEFINE q == [run[r] EXCEPT !.pc = "complete"]
  <2>1. q \in Run /\ q.pc = "complete" /\ q.cycle = run[r].cycle /\ run' = [run EXCEPT ![r] = q]
    BY <1>1, <1>2, <1>8 DEF RunPc
  <2> HIDE DEF q
  <2> QED BY <1>8, <2>1, RunAttended DEF Waiting, EndingPc, ExtractingPc
<1>9. CASE ExtractorFails(r)
  BY <1>8, <1>9 DEF ExtractorFails
<1>10. CASE NoAccountData(r)
  <2> DEFINE c == run[r].cycle
  <2>1. c \in Cycle /\ run[r].pc = "extractor" /\ UNCHANGED <<job, sw>>
    BY <1>0, <1>10 DEF NoAccountData
  <2>2. CASE stage[c] \in Active \ {"requested"}
    <3> DEFINE q == [run[r] EXCEPT !.pc = "finish"]
    <3>1. q \in Run /\ q.pc = "finish" /\ q.cycle = c /\ run' = [run EXCEPT ![r] = q]
          /\ stage' = Closed(c, "no_data")
      BY <1>1, <1>2, <1>10, <2>2 DEF NoAccountData, RunPc
    <3> HIDE DEF q, c
    <3>2. /\ stage'[c] \notin Active /\ stage'[c] \notin Begun
          /\ \A d \in Cycle : /\ stage[d] # "absent" => stage'[d] # "absent"
                              /\ stage'[d] \in Active => stage[d] \in Active
                              /\ stage'[d] \in Begun => stage[d] \in Begun
      BY <2>1, <3>1, ActiveOps DEF Ended, Begun
    <3> USE DEF c
    <3> QED BY <2>1, <3>1, <3>2, RunAttended DEF Waiting, EndingPc, ExtractingPc
  <2>3. CASE stage[c] \notin Active \ {"requested"}
    <3> DEFINE q == [run[r] EXCEPT !.pc = IF stage[c] = "no_data" THEN "finish" ELSE "complete",
                                   !.verdict = "no_data"]
    <3>1. run' = [run EXCEPT ![r] = q] /\ stage' = stage
      BY <1>0, <1>10, <2>3 DEF NoAccountData
    <3>2. q \in Run /\ q.cycle = c /\ (q.pc = "complete" \/ (q.pc = "finish" /\ stage[c] = "no_data"))
      BY <1>0 DEF Run, RunPc
    <3>3. stage[c] = "no_data" => stage[c] \notin Active /\ stage[c] \notin Begun
      BY DEF Active, Claimable, MidCycle, Begun
    <3> HIDE DEF q
    <3> QED BY <2>1, <3>1, <3>2, <3>3, RunAttended DEF Waiting, EndingPc, ExtractingPc
  <2> QED BY <2>2, <2>3
<1>11. CASE FetchFails(r)
  BY <1>11 DEF FetchFails, Serving, Attended
<1>12. CASE Complete(r)
  <2> DEFINE q == [run[r] EXCEPT !.pc = "finish"]
             c == run[r].cycle
  <2>1. q \in Run /\ q.pc = "finish" /\ q.cycle = c /\ run' = [run EXCEPT ![r] = q]
    BY <1>1, <1>2, <1>12 DEF Complete, Verdict, RunPc
  <2>2. /\ c \in Cycle /\ run[r].pc \in {"abandon", "complete"} /\ job' = job
        /\ run[r].verdict \in Ended /\ stage' = Closed(c, run[r].verdict)
        /\ sw'.started = sw.started /\ sw'.cancelling = sw.cancelling
    BY <1>0, <1>12 DEF Complete, Verdict, Globals, Run, Ended
  <2> HIDE DEF q, c
  <2>3. /\ stage'[c] \notin Active /\ stage'[c] \notin Begun
        /\ \A d \in Cycle : /\ stage[d] # "absent" => stage'[d] # "absent"
                            /\ stage'[d] \in Active => stage[d] \in Active
                            /\ stage'[d] \in Begun => stage[d] \in Begun
    BY <2>2, ActiveOps DEF Begun
  <2> USE DEF c
  <2> QED BY <2>1, <2>2, <2>3, RunAttended DEF Waiting, EndingPc, ExtractingPc
<1>13. CASE Finish(r)
  <2>1. sw'.started = sw.started /\ sw'.cancelling = sw.cancelling
    BY <1>0, <1>13 DEF Finish, Cleared, Globals
  <2>2. IdleRun \in Run /\ IdleRun.pc = "idle"
    BY IdleTyped DEF IdleRun
  <2> QED BY <1>13, <2>1, <2>2, QuietRunAttended DEF Finish
<1>14. ASSUME NEW v \in {"failed", "timed_out"}, GiveUp(r, v)
       PROVE  Attended'
  <2> DEFINE q == [run[r] EXCEPT !.pc = "abandon", !.verdict = v]
  <2>1. run' = [run EXCEPT ![r] = q] /\ UNCHANGED <<stage, job, sw>> /\ run[r].pc = "navigate"
    BY <1>0, <1>14 DEF GiveUp
  <2>2. q \in Run /\ q.pc = "abandon" /\ q.cycle = run[r].cycle
    BY <1>0 DEF Run, RunPc
  <2> HIDE DEF q
  <2> QED BY <2>1, <2>2, RunAttended DEF Waiting, EndingPc, ExtractingPc
<1>15. ASSUME NEW w \in Worker, PostExtract(r, w)
       PROVE  Attended'
  <2>1. CASE ~Accepts(run[r].cycle)
    BY <1>8, <1>15, <2>1 DEF PostExtract
  <2>2. CASE Accepts(run[r].cycle)
    <3> DEFINE q == [run[r] EXCEPT !.pc = "extracting"]
               j == ExtractJob(run[r].cycle, r)
    <3>1. q \in Run /\ q.pc = "extracting" /\ q.cycle = run[r].cycle /\ run' = [run EXCEPT ![r] = q]
      BY <1>1, <1>2, <1>15, <2>2 DEF PostExtract, RunPc, Waiting
    <3>2. run[r].pc = "extractor" /\ job[w].pc = "idle" /\ UNCHANGED <<stage, sw>>
          /\ job' = [job EXCEPT ![w] = j]
      BY <1>15, <2>2 DEF PostExtract
    <3>3. j \in Job /\ j.for = r /\ j.pc = "mark"
      BY <1>0, <3>2, IdleTyped DEF ExtractJob, Job, JobPc
    <3> HIDE DEF q, j
    <3> QED BY <3>1, <3>2, <3>3, PostAttended DEF Waiting, EndingPc, ExtractingPc, CyclePc, ProbePc
  <2> QED BY <2>1, <2>2
<1>16. ASSUME NEW w \in Worker, NEW p \in PageSeen \cup {ErrorPage},
              NEW pc \in {"probing", "reporting"}, PostProbe(r, w, p, pc)
       PROVE  Attended'
  <2> DEFINE q == [run[r] EXCEPT !.pc = pc, !.page = p]
             j == ProbeJob(r, p)
  <2>1. /\ run[r].pc = "navigate" /\ job[w].pc = "idle" /\ UNCHANGED <<stage, sw>>
        /\ run' = [run EXCEPT ![r] = q] /\ job' = [job EXCEPT ![w] = j]
        /\ pc = "reporting" => p = ErrorPage
    BY <1>0, <1>16 DEF PostProbe
  <2>2. q \in Run /\ q.pc = pc /\ q.cycle = run[r].cycle
    BY <1>0, PageAssumption, PageTyped DEF Run, RunPc, Waiting
  <2>3. j \in Job
    <3>1. job' \in [Worker -> Job]
      BY <1>16, TypedStep DEF Next, RunStep, Typed, TypeOK
    <3> QED BY <2>1, <3>1 DEF Typed, TypeOK
  <2>4. j.for = r /\ j.pc \in ProbePc
    BY DEF ProbeJob, IdleJob, WithEvidence, ProbePc
  <2>5. Decision(Probe(p)) = "inconclusive" => j.evidence.state = "none"
    BY DEF ProbeJob, IdleJob, NoEvidence
  <2> HIDE DEF q, j
  <2>6. q.pc = "reporting" => j.evidence.state = "none"
    BY <2>1, <2>2, <2>5, ErrorInconclusive
  <2> QED BY <2>1, <2>2, <2>3, <2>4, <2>6, PostAttended
          DEF Waiting, EndingPc, ExtractingPc, CyclePc
<1> QED BY <1>4, <1>5, <1>6, <1>7, <1>9, <1>10, <1>11, <1>12, <1>13, <1>14, <1>15, <1>16
        DEF RunStep

NoFaultAttended == faults = 0 => Attended

LEMMA AttendedStep == Typed /\ NoFaultAttended /\ [Next]_vars => NoFaultAttended'
<1> SUFFICES ASSUME Typed, faults = 0 => Attended, [Next]_vars, faults' = 0 PROVE Attended'
  BY DEF NoFaultAttended
<1>0. run \in [Runner -> Run] /\ sw \in Globals /\ faults \in Nat
      /\ job \in [Worker -> Job] /\ stage \in [Cycle -> Stage]
  BY LimitAssumption DEF Typed, TypeOK
<1>1. ~Fault
  BY <1>0 DEF Fault
<1>2. CASE UNCHANGED vars
  BY <1>2 DEF vars, Attended, NotStranded
<1>3. ASSUME NEW c \in Cycle, OpenCycle(c) \/ Expire(c) \/ CancelPosted(c) \/ CancelLost(c)
      PROVE  Attended'
  <2>1. CASE OpenCycle(c)
    <3>1. \A d \in Cycle : /\ stage[d] # "absent" => stage'[d] # "absent"
                           /\ stage'[d] \in Active => stage[d] \in Active \cup {"absent"}
                           /\ stage'[d] \in Begun => stage[d] \in Begun
      BY <1>0, <2>1 DEF OpenCycle, Begun
    <3> QED BY <2>1, <3>1, TableAttended DEF OpenCycle
  <2>2. CASE Expire(c)
    <3>1. stage' = Closed(c, "timed_out")
      BY <2>2 DEF Expire
    <3>2. \A d \in Cycle : /\ stage[d] # "absent" => stage'[d] # "absent"
                           /\ stage'[d] \in Active => stage[d] \in Active \cup {"absent"}
                           /\ stage'[d] \in Begun => stage[d] \in Begun
      BY <3>1, ActiveOps DEF Ended
    <3> QED BY <2>2, <3>2, TableAttended DEF Expire
  <2>3. CASE CancelPosted(c)
    <3>1. stage' = Closed(c, "failed") /\ sw'.started = sw.started
          /\ sw'.cancelling = sw.cancelling \ {c} /\ UNCHANGED <<run, job, faults>>
      BY <1>0, <2>3 DEF CancelPosted, Cancel, Globals
    <3>2. /\ stage'[c] \notin Begun
          /\ \A d \in Cycle : /\ stage[d] # "absent" => stage'[d] # "absent"
                              /\ stage'[d] \in Active => stage[d] \in Active \cup {"absent"}
                              /\ stage'[d] \in Begun => stage[d] \in Begun
      BY <3>1, ActiveOps DEF Ended, Begun
    <3> QED BY <3>1, <3>2, TableAttended
  <2>4. CASE CancelLost(c)
    BY <1>1, <2>4 DEF CancelLost
  <2> QED BY <1>3, <2>1, <2>2, <2>3, <2>4
<1>4. ASSUME NEW r \in Runner, RunStep(r) PROVE Attended'
  <2>1. faults = 0
    BY <1>1, <1>4 DEF RunStep, Claim, Duplicate, Start, Advance, ExtractorFails, NoAccountData,
       FetchFails, Complete, Finish, GiveUp, PostExtract, PostProbe
  <2> QED BY <1>4, <2>1, RunStepAttended
<1>5. ASSUME NEW r \in Runner, RunFault(r) PROVE Attended'
  BY <1>1, <1>5 DEF RunFault, ClaimLost, AdvanceLost, NoAccountDataLost, FetchAborted,
     CompleteLost, PostProbeLost
<1>6. ASSUME NEW r \in Runner, TabClosed(r) PROVE Attended'
  <2> DEFINE q == [run[r] EXCEPT !.tab = FALSE]
  <2>1. run' = [run EXCEPT ![r] = q] /\ UNCHANGED <<stage, job, faults>> /\ run[r].pc # "idle"
    BY <1>0, <1>6 DEF TabClosed
  <2>2. q \in Run /\ q.pc = run[r].pc /\ q.cycle = run[r].cycle
    BY <1>0 DEF Run
  <2>3. sw'.started = sw.started /\ sw.cancelling \subseteq sw'.cancelling
    BY <1>0, <1>6 DEF TabClosed, Cleared, Globals
  <2>4. Attended /\ stage[run[r].cycle] # "absent"
    BY <2>1 DEF Attended
  <2> HIDE DEF q
  <2> QED BY <2>1, <2>2, <2>3, <2>4, QuietRunAttended
<1>7. ASSUME NEW r \in Runner, NEW c \in Cycle, Poll(r, c) PROVE Attended'
  <2> DEFINE q == [IdleRun EXCEPT !.pc = "claim", !.cycle = c]
  <2>1. run' = [run EXCEPT ![r] = q] /\ UNCHANGED <<stage, job, faults>> /\ run[r].pc = "idle"
        /\ stage[c] # "absent"
    BY <1>7 DEF Poll, Claimable
  <2>2. q \in Run /\ q.pc = "claim" /\ q.cycle = c
    BY IdleTyped DEF Run, RunPc
  <2>3. sw'.started = sw.started /\ sw'.cancelling = sw.cancelling
    BY <1>0, <1>7 DEF Poll, Globals
  <2> HIDE DEF q
  <2> QED BY <2>1, <2>2, <2>3, QuietRunAttended
<1>8. ASSUME NEW w \in Worker, JobStep(w) PROVE Attended'
  <2>1. faults = 0
    BY <1>1, <1>8 DEF JobStep, StoreProbe, FinishProbe, MarkExtracting, ApplyExtraction,
       RefuseExtraction, BreakExtraction, StoreFailure, FailExtraction, PublishSnapshot,
       StoreExtractEvidence, CompleteExtraction, Move, MarkPending, StoreReport
  <2> QED BY <1>8, <2>1, JobStepAttended
<1>9. ASSUME NEW w \in Worker, ContentPush(w) PROVE Attended'
  <2> DEFINE j == ExtractJob(run[sw.active].cycle, NoRunner)
  <2>1. job' = [job EXCEPT ![w] = j] /\ UNCHANGED <<stage, run, sw, faults>> /\ job[w].pc = "idle"
    BY <1>9 DEF ContentPush
  <2>2. j.for = NoRunner /\ j.pc = "mark"
    BY DEF ExtractJob, IdleJob
  <2> HIDE DEF j
  <2> QED BY <2>1, <2>2, BegunAttended DEF CyclePc, ProbePc
<1>10. ASSUME NEW w \in Worker, NEW t \in ReportKind, BeginMove(w, t) PROVE Attended'
  <2> DEFINE j == [IdleJob EXCEPT !.pc = "move", !.target = t, !.items = account.items]
  <2>1. job' = [job EXCEPT ![w] = j] /\ UNCHANGED <<stage, run, sw, faults>> /\ job[w].pc = "idle"
    BY <1>10 DEF BeginMove
  <2>2. j.for = NoRunner /\ j.pc = "move" /\ j.cycle = NoCycle
    BY DEF IdleJob
  <2> HIDE DEF j
  <2> QED BY <2>1, <2>2, BegunAttended DEF CyclePc, ProbePc
<1>11. CASE Stopped \/ Reloaded \/ ServerCrash
  BY <1>1, <1>11 DEF Stopped, Reloaded, WorkerStops, ServerCrash
<1>12. CASE Tick
  BY <1>12 DEF Tick, Attended, NotStranded
<1> QED BY <1>2, <1>3, <1>4, <1>5, <1>6, <1>7, <1>8, <1>9, <1>10, <1>11, <1>12 DEF Next

\* While nothing fails no claimed cycle is left to the maintenance sweep ("Never leave a
\* claimed row active"): some run, request or cancellation still ends it.
THEOREM NotStrandedHolds == Spec => []NotStranded
<1>1. Init => Attended
  BY DEF Init, Attended, NotStranded, IdleWorker, IdleRun, IdleJob, NoCycle, Waiting,
     ProbePc, Active, Claimable, MidCycle
<1>2. NoFaultAttended => NotStranded
  BY DEF NoFaultAttended, Attended, NotStranded
<1>3. Init => NoFaultAttended
  BY <1>1 DEF NoFaultAttended
<1> QED BY InitTyped, TypedStep, AttendedStep, <1>2, <1>3, PTL DEF Spec

-----------------------------------------------------------------------------
(* The refinement.  At most one cycle is active, because one is opened only when none *)
(* is; so an extension that is reloaded closes at most one, and every guarded UPDATE  *)
(* is one operation of the abstract table, or none when the stage keeps its meaning.  *)

OneActive == \A c, d \in Cycle : stage[c] \in Active /\ stage[d] \in Active => c = d

LEMMA StagesOf ==
    /\ StageOf("absent") = "none" /\ StageOf("requested") = "pending"
    /\ \A s \in Claimable : StageOf(s) = "pending"
    /\ \A s \in MidCycle : StageOf(s) = "verified"
    /\ \A s \in Ended : StageOf(s) = "closed" /\ ResultOf(s) = s
    /\ \A s \in Stage \ Ended : ResultOf(s) = "open"
    /\ \A s \in Stage : StageOf(s) \in {"pending", "verified"} <=> s \in Active
BY DEF StageOf, ResultOf, Stage, Active, Claimable, MidCycle, Ended

LEMMA TableInit == Init => Table!CycleInit /\ OneActive
BY StagesOf DEF Init, Table!CycleInit, OneActive, Active, Claimable, MidCycle, ResultOf, Ended

LEMMA TableOpens ==
    ASSUME Typed, ActiveCycles = {}, NEW c \in Cycle, stage[c] = "absent",
           stage' = [stage EXCEPT ![c] = "requested"]
    PROVE  Table!CycleNext /\ OneActive'
<1>1. stage'[c] = "requested" /\ \A d \in Cycle \ {c} : stage'[d] = stage[d]
  BY DEF Typed, TypeOK
<1>2. \A d \in Cycle : stage[d] \in Stage /\ stage[d] \notin Active
  BY DEF Typed, TypeOK, ActiveCycles
<1>3. \A d \in Cycle : ResultOf(stage'[d]) = ResultOf(stage[d])
  BY <1>1 DEF ResultOf, Ended
<1>4. \A d \in Cycle : StageOf(stage[d]) \notin {"pending", "verified"}
  BY <1>2, StagesOf
<1>5. StageOf(stage[c]) = "none" /\ StageOf(stage'[c]) = "pending"
  BY <1>1, StagesOf
<1>6. Table!OpenCycle(c, "user")
  <2>1. Table!LiveOf("user") = {}
    BY <1>4 DEF Table!LiveOf, Table!Live
  <2>2. \A d \in Cycle : StageOf(stage'[d]) = IF d = c THEN "pending" ELSE StageOf(stage[d])
    BY <1>1, <1>5
  <2>3. \A d \in Cycle : (stage'[d] = "absent") <=> (d # c /\ stage[d] = "absent")
    BY <1>1
  <2> QED BY <1>3, <1>5, <2>1, <2>2, <2>3 DEF Table!OpenCycle
<1>7. Table!CycleNext
  BY <1>6 DEF Table!CycleNext
<1> QED BY <1>1, <1>2, <1>7 DEF OneActive

\* The cycle that is active ends.
LEMMA TableCloses ==
    ASSUME Typed, OneActive, NEW c \in Cycle, stage[c] \in Active, NEW r \in Ended,
           stage' \in [Cycle -> Stage], stage'[c] = r,
           \A d \in Cycle \ {c} : stage'[d] = stage[d]
    PROVE  Table!CycleNext /\ OneActive'
<1>1. stage[c] # "absent" /\ r # "absent" /\ r \notin Active
  BY DEF Active, Claimable, MidCycle, Ended
<1>2. StageOf(stage[c]) \in {"pending", "verified"}
  BY StagesOf DEF Typed, TypeOK
<1>3. Table!CloseCycles({c}, r)
  BY <1>1, <1>2, StagesOf DEF Table!CloseCycles, Table!Live
<1> QED BY <1>1, <1>3 DEF Table!CycleNext, OneActive

\* The cycle moves on without ending.
LEMMA TableMoves ==
    ASSUME Typed, OneActive, NEW c \in Cycle, stage[c] \in Active, NEW s \in Active,
           stage[c] \in MidCycle => s \in MidCycle,
           stage'[c] = s, \A d \in Cycle \ {c} : stage'[d] = stage[d]
    PROVE  [Table!CycleNext]_(Table!cycleVars) /\ OneActive'
<1>1. s # "absent" /\ stage[c] # "absent" /\ s \notin Ended /\ stage[c] \notin Ended
  BY DEF Active, Claimable, MidCycle, Ended
<1>2. ResultOf(s) = "open" /\ ResultOf(stage[c]) = "open"
  BY <1>1 DEF ResultOf
<1>3. CASE stage[c] \in Claimable /\ s \in MidCycle
  <2>0. StageOf(stage[c]) = "pending" /\ StageOf(s) = "verified"
    BY <1>3, StagesOf
  <2>1. Table!VerifyCycle(c)
    BY <1>1, <1>2, <2>0 DEF Table!VerifyCycle
  <2> QED BY <2>1 DEF Table!CycleNext, OneActive
<1>4. CASE StageOf(s) = StageOf(stage[c])
  BY <1>1, <1>2, <1>4 DEF Table!cycleVars, OneActive
<1> QED BY <1>3, <1>4, StagesOf DEF Active

LEMMA TableStutters == ASSUME OneActive, stage' = stage
                       PROVE  [Table!CycleNext]_(Table!cycleVars) /\ OneActive'
BY DEF Table!cycleVars, OneActive

LEMMA TableStep ==
    ASSUME Typed, Typed', OneActive, [Next]_vars
    PROVE  [Table!CycleNext]_(Table!cycleVars) /\ OneActive'
<1>0. StageMove /\ stage \in [Cycle -> Stage] /\ stage' \in [Cycle -> Stage]
  BY StageMoves DEF Typed, TypeOK
<1>1. ASSUME NEW c \in Cycle, NEW r \in Ended, stage' = Closed(c, r)
      PROVE  [Table!CycleNext]_(Table!cycleVars) /\ OneActive'
  <2>1. CASE stage[c] \in Active
    <3>1. stage'[c] = r /\ \A d \in Cycle \ {c} : stage'[d] = stage[d]
      BY <1>0, <1>1, <2>1 DEF Closed
    <3> QED BY <1>0, <2>1, <3>1, TableCloses
  <2>2. CASE stage[c] \notin Active
    BY <1>1, <2>2, TableStutters DEF Closed
  <2> QED BY <2>1, <2>2
<1>2. ASSUME NEW c \in Cycle, stage' = Claimed(c)
      PROVE  [Table!CycleNext]_(Table!cycleVars) /\ OneActive'
  <2>1. CASE stage[c] \in Claimable
    <3>1. stage'[c] = "running" /\ \A d \in Cycle \ {c} : stage'[d] = stage[d]
      BY <1>0, <1>2, <2>1 DEF Claimed
    <3> QED BY <2>1, <3>1, TableMoves DEF Claimable, MidCycle, Active
  <2>2. CASE stage[c] \notin Claimable
    BY <1>2, <2>2, TableStutters DEF Claimed
  <2> QED BY <2>1, <2>2
<1>3. ASSUME NEW c \in Cycle, NEW to \in MidCycle, stage' = Advanced(c, to)
      PROVE  [Table!CycleNext]_(Table!cycleVars) /\ OneActive'
  <2>1. CASE stage' = stage
    BY <2>1, TableStutters
  <2>2. CASE stage' # stage
    <3>1. /\ stage[c] \in Active /\ stage'[c] = to
          /\ \A d \in Cycle \ {c} : stage'[d] = stage[d]
      BY <1>0, <1>3, <2>2 DEF Advanced, Active, MidCycle
    <3> QED BY <3>1, TableMoves DEF Active
  <2> QED BY <2>1, <2>2
<1>4. ASSUME NEW w \in Worker, CompleteExtraction(w)
      PROVE  [Table!CycleNext]_(Table!cycleVars) /\ OneActive'
  <2>1. job[w].cycle \in Cycle /\ stage' = Closed(job[w].cycle, "authenticated")
    BY <1>4 DEF CompleteExtraction, Typed, Shape, CyclePc
  <2> QED BY <1>1, <2>1 DEF Ended
<1>5. CASE Reloaded
  <2>1. stage' = [c \in Cycle |-> IF stage[c] \in Active THEN "failed" ELSE stage[c]]
    BY <1>5 DEF Reloaded, WorkerStops
  <2>2. CASE \E c \in Cycle : stage[c] \in Active
    <3>1. PICK c \in Cycle : stage[c] \in Active
      BY <2>2
    <3>2. stage'[c] = "failed" /\ \A d \in Cycle \ {c} : stage'[d] = stage[d]
      BY <2>1, <3>1 DEF OneActive
    <3> QED BY <1>0, <3>1, <3>2, TableCloses DEF Ended
  <2>3. CASE ~\E c \in Cycle : stage[c] \in Active
    BY <1>0, <2>1, <2>3, TableStutters
  <2> QED BY <2>2, <2>3
<1>6. ASSUME ActiveCycles = {}, NEW c \in Cycle, stage[c] = "absent",
             stage' = [stage EXCEPT ![c] = "requested"]
      PROVE  [Table!CycleNext]_(Table!cycleVars) /\ OneActive'
  BY <1>6, TableOpens
<1> QED BY <1>0, <1>1, <1>2, <1>3, <1>4, <1>5, <1>6, TableStutters DEF StageMove

\* The extension, the endpoints and their faults together implement the abstract
\* table: every cycle is opened beside no other, verified at most once while it is
\* live, and closed once with a result that stays.
THEOREM KeepsCyclePromisesHolds == Spec => KeepsCyclePromises
<1>1. Init => Typed /\ OneActive /\ Table!CycleInit
  BY InitTyped, TableInit
<1>2. Typed /\ OneActive /\ [Next]_vars
      => (Typed /\ OneActive)' /\ [Table!CycleNext]_(Table!cycleVars)
  BY TypedStep, TableStep
<1> QED BY <1>1, <1>2, PTL DEF Spec, KeepsCyclePromises, Table!CycleSpec

-----------------------------------------------------------------------------
(* Requests that do not overlap.  Upserts of the session state and writes of the      *)
(* account row decide on, or rewrite, a row read earlier.  When at most one request   *)
(* stands between its read and its write, what was read is what is there: overlap is  *)
(* the only way to lose newer evidence or extracted items.                            *)

StorePc  == {"probe_store", "extract_store", "report_store"}
WriterPc == {"apply", "refused", "move", "pending"}
ReadPc   == WriterPc \ {"apply"}

OneUpsert == \A v, w \in Worker : job[v].pc \in StorePc /\ job[w].pc \in StorePc => v = w

OneAccountWriter ==
    \A v, w \in Worker : job[v].pc \in WriterPc /\ job[w].pc \in WriterPc => v = w

SeenIsThere == \A w \in Worker : job[w].pc \in StorePc => job[w].seen = session
ReadIsThere == \A w \in Worker : job[w].pc \in ReadPc => job[w].items = account.items

\* A job that is to write has just read, or has what it had.
ReadsOf(j, k) ==
    /\ k.pc \in StorePc => \/ j.pc \in StorePc /\ k.seen = j.seen
                           \/ k.seen = session /\ session' = session
    /\ k.pc \in ReadPc  => \/ j.pc \in ReadPc /\ k.items = j.items
                           \/ k.items = account.items /\ account' = account

LEMMA ReadsStep ==
    ASSUME Typed, NEW w \in Worker, JobStep(w)
    PROVE  ReadsOf(job[w], job'[w])
<1>0. job[w] \in Job /\ job \in [Worker -> Job]
  BY DEF Typed, TypeOK
<1>1. CASE \/ FinishProbe(w) \/ FailExtraction(w) \/ CompleteExtraction(w) \/ StoreReport(w)
  <2>1. Free(w)
    BY <1>1 DEF FinishProbe, FailExtraction, CompleteExtraction, StoreReport
  <2>2. job'[w].pc = "idle"
    BY <1>0, <2>1 DEF Free, IdleJob
  <2> QED BY <2>2 DEF ReadsOf, StorePc, ReadPc, WriterPc
<1>2. CASE \/ StoreProbe(w) \/ MarkExtracting(w) \/ ApplyExtraction(w) \/ StoreFailure(w)
           \/ StoreExtractEvidence(w)
  <2>1. job'[w].pc \in {"probe_finish", "apply", "snapshot", "extract_failed", "extract_done"}
    BY <1>0, <1>2 DEF StoreProbe, MarkExtracting, ApplyExtraction, StoreFailure,
       StoreExtractEvidence, Job
  <2> QED BY <2>1 DEF ReadsOf, StorePc, ReadPc, WriterPc
<1>3. CASE RefuseExtraction(w) \/ BreakExtraction(w)
  <2>1. job'[w].pc = "refused" /\ job'[w].items = account.items /\ account' = account
    BY <1>0, <1>3 DEF RefuseExtraction, BreakExtraction, Job, tables
  <2> QED BY <2>1 DEF ReadsOf, StorePc
<1>4. CASE PublishSnapshot(w)
  <2>1. job'[w].pc = "extract_store" /\ job'[w].seen = session /\ session' = session
    BY <1>0, <1>4 DEF PublishSnapshot, WithEvidence, Job
  <2> QED BY <2>1 DEF ReadsOf, ReadPc, WriterPc
<1>5. CASE MarkPending(w)
  <2>1. job'[w] = WithEvidence([job[w] EXCEPT !.pc = "report_store", !.items = NoCycle],
                               Report("connected", "session_verified", now))
    BY <1>0, <1>5 DEF MarkPending
  <2>2. job'[w].pc = "report_store" /\ job'[w].seen = session /\ session' = session
    BY <1>0, <1>5, <2>1 DEF MarkPending, WithEvidence, Job
  <2> QED BY <2>2 DEF ReadsOf, ReadPc, WriterPc
<1>6. CASE Move(w)
  <2>1. CASE job[w].target = "needs_login"
    <3>1. job'[w] = WithEvidence([job[w] EXCEPT !.pc = "report_store", !.items = NoCycle,
                                                !.took = "needs_login"],
                                 Report("signed_out", "login_required", now))
      BY <1>0, <1>6, <2>1 DEF Move
    <3>2. job'[w].pc = "report_store" /\ job'[w].seen = session /\ session' = session
      BY <1>0, <1>6, <3>1 DEF Move, WithEvidence, Job
    <3> QED BY <3>2 DEF ReadsOf, ReadPc, WriterPc
  <2>2. CASE job[w].target = "connected"
    <3>1. job[w].pc = "move" /\ job'[w].pc = "pending" /\ job'[w].items = job[w].items
      BY <1>0, <1>6, <2>2 DEF Move, Job
    <3> QED BY <3>1 DEF ReadsOf, ReadPc, WriterPc, StorePc
  <2>3. CASE job[w].target \notin {"needs_login", "connected"}
    <3>1. job'[w].pc = "idle"
      BY <1>0, <1>6, <2>3 DEF Move, IdleJob
    <3> QED BY <3>1 DEF ReadsOf, ReadPc, WriterPc, StorePc
  <2> QED BY <2>1, <2>2, <2>3
<1> QED BY <1>1, <1>2, <1>3, <1>4, <1>5, <1>6 DEF JobStep

LEMMA ReadsBegun ==
    ASSUME Typed, NEW w \in Worker,
           \/ ContentPush(w) \/ \E t \in ReportKind : BeginMove(w, t)
           \/ \E r \in Runner : PostExtract(r, w)
           \/ \E r \in Runner, p \in PageSeen \cup {ErrorPage},
                 pc \in {"probing", "reporting"} : PostProbe(r, w, p, pc)
    PROVE  ReadsOf(job[w], job'[w])
<1>0. job \in [Worker -> Job] /\ job[w] \in Job /\ (job[w].pc = "idle" => job[w] = IdleJob)
  BY DEF Typed, TypeOK, Shape
<1>1. CASE ContentPush(w)
  <2>1. job'[w].pc = "mark"
    BY <1>0, <1>1 DEF ContentPush, ExtractJob, IdleJob
  <2> QED BY <2>1 DEF ReadsOf, ReadPc, WriterPc, StorePc
<1>2. ASSUME NEW t \in ReportKind, BeginMove(w, t) PROVE ReadsOf(job[w], job'[w])
  <2>1. job'[w].pc = "move" /\ job'[w].items = account.items /\ account' = account
    BY <1>0, <1>2 DEF BeginMove, IdleJob, tables
  <2> QED BY <2>1 DEF ReadsOf, StorePc
<1>3. ASSUME NEW r \in Runner, PostExtract(r, w) PROVE ReadsOf(job[w], job'[w])
  <2>1. job'[w].pc \in {"idle", "mark"}
    BY <1>0, <1>3 DEF PostExtract, ExtractJob, IdleJob
  <2> QED BY <2>1 DEF ReadsOf, ReadPc, WriterPc, StorePc
<1>4. ASSUME NEW r \in Runner, NEW p \in PageSeen \cup {ErrorPage},
             NEW pc \in {"probing", "reporting"}, PostProbe(r, w, p, pc)
      PROVE  ReadsOf(job[w], job'[w])
  <2> DEFINE i == [IdleJob EXCEPT !.cycle = run[r].cycle, !.for = r]
             e == EvidenceOf(Probe(p), now)
  <2>0. i \in Job
    BY <1>4, IdleTyped DEF PostProbe, Typed, TypeOK, Run, Job
  <2>1. job'[w] = ProbeJob(r, p)
    BY <1>0, <1>4 DEF PostProbe
  <2>2. \/ job'[w] = [i EXCEPT !.pc = "probe_finish"]
        \/ job'[w] = [[i EXCEPT !.pc = "probe_store"] EXCEPT !.evidence = e, !.seen = session]
    BY <2>1 DEF ProbeJob, WithEvidence
  <2> HIDE DEF i, e
  <2>3. \/ job'[w].pc = "probe_finish"
        \/ job'[w].pc = "probe_store" /\ job'[w].seen = session
    BY <2>0, <2>2 DEF Job
  <2>4. session' = session
    BY <1>4 DEF PostProbe, tables
  <2> QED BY <2>3, <2>4 DEF ReadsOf, ReadPc, WriterPc, StorePc
<1> QED BY <1>1, <1>2, <1>3, <1>4

LEMMA Reads ==
    ASSUME Typed, [Next]_vars, NEW w \in Worker
    PROVE  ReadsOf(job[w], job'[w])
<1>0. job[w] \in Job
  BY DEF Typed, TypeOK
<1>1. CASE job'[w] \in {job[w], [job[w] EXCEPT !.for = NoRunner], IdleJob}
  <2>1. \/ job'[w].pc = "idle"
        \/ /\ job'[w].pc = job[w].pc
           /\ job'[w].seen = job[w].seen /\ job'[w].items = job[w].items
    BY <1>0, <1>1 DEF Job, IdleJob
  <2> QED BY <2>1 DEF ReadsOf, ReadPc, WriterPc, StorePc
<1> QED BY <1>1, ReadsStep, ReadsBegun, OtherJobs

\* Which steps write a row.
LEMMA RowWriters ==
    ASSUME [Next]_vars
    PROVE  \/ session' = session /\ account' = account
           \/ \E w \in Worker :
                 \/ StoreProbe(w) \/ StoreExtractEvidence(w) \/ StoreReport(w)
                 \/ Move(w) \/ MarkPending(w) \/ StoreFailure(w) \/ ApplyExtraction(w)
<1>1. ASSUME \/ ~\E w \in Worker : JobStep(w)
             \/ \E w \in Worker : FinishProbe(w) \/ MarkExtracting(w) \/ RefuseExtraction(w)
                  \/ BreakExtraction(w) \/ FailExtraction(w) \/ PublishSnapshot(w)
                  \/ CompleteExtraction(w)
      PROVE  session' = session /\ account' = account
  BY <1>1 DEF Next, OpenCycle, Expire, CancelPosted, CancelLost, Cancel, RunStep, RunFault,
       Claim, Duplicate, Start, Advance, ExtractorFails, NoAccountData, FetchFails, Complete,
       Verdict, Finish, GiveUp, PostExtract, PostProbe, ClaimLost, AdvanceLost,
       NoAccountDataLost, FetchAborted, CompleteLost, PostProbeLost, TabClosed, Poll,
       ContentPush, BeginMove, Stopped, Reloaded, WorkerStops, ServerCrash, Tick, vars, tables,
       FinishProbe, MarkExtracting, RefuseExtraction, BreakExtraction, FailExtraction,
       PublishSnapshot, CompleteExtraction
<1> QED BY <1>1 DEF JobStep

\* Which job writes a row.
LEMMA RowWrites ==
    ASSUME Typed, [Next]_vars
    PROVE  /\ \/ session' = session
              \/ \E w \in Worker : /\ job[w].pc \in StorePc /\ job'[w].pc \notin StorePc
                                   /\ session' = Written(w)
           /\ \/ account' = account
              \/ \E w \in Worker :
                    /\ job[w].pc \in WriterPc /\ session' = session
                    /\ ApplyExtraction(w) \/ (/\ job[w].pc \in ReadPc
                                              /\ account'.items \in {account.items, job[w].items})
<1>0. job \in [Worker -> Job] /\ account \in AccountRow
  BY DEF Typed, TypeOK
<1>1. ASSUME NEW w \in Worker, StoreProbe(w) \/ StoreExtractEvidence(w) \/ StoreReport(w)
      PROVE  /\ job[w].pc \in StorePc /\ job'[w].pc \notin StorePc /\ session' = Written(w)
             /\ account' = account
  BY <1>0, <1>1 DEF StoreProbe, StoreExtractEvidence, StoreReport, Free, IdleJob, StorePc, Job
<1>2. ASSUME NEW w \in Worker,
             Move(w) \/ MarkPending(w) \/ StoreFailure(w) \/ ApplyExtraction(w)
      PROVE  /\ job[w].pc \in WriterPc /\ session' = session
             /\ ApplyExtraction(w) \/ (/\ job[w].pc \in ReadPc
                                       /\ account'.items \in {account.items, job[w].items})
  <2>1. CASE Move(w)
    BY <2>1 DEF Move, WriterPc, ReadPc
  <2>2. CASE MarkPending(w) \/ StoreFailure(w)
    <3>1. job[w].pc \in {"pending", "refused"} /\ session' = session
          /\ account'.items \in {account.items, job[w].items}
      BY <1>0, <2>2 DEF MarkPending, StoreFailure, AccountRow
    <3> QED BY <3>1 DEF WriterPc, ReadPc
  <2>3. CASE ApplyExtraction(w)
    BY <2>3 DEF ApplyExtraction, WriterPc
  <2> QED BY <1>2, <2>1, <2>2, <2>3
<1> QED BY <1>1, <1>2, RowWriters

LEMMA UpsertStep ==
    ASSUME Typed, SeenIsThere, OneUpsert, [Next]_vars
    PROVE  SeenIsThere' /\ [Supersedes(session', session)]_session
<1>1. CASE session' = session
  BY <1>1, Reads DEF SeenIsThere, ReadsOf
<1>2. CASE session' # session
  <2>1. PICK w \in Worker : /\ job[w].pc \in StorePc /\ job'[w].pc \notin StorePc
                            /\ session' = Written(w)
    BY <1>2, RowWrites
  <2>2. Supersedes(session', session)
    BY <1>2, <2>1 DEF Written, SeenIsThere
  <2>3. ASSUME NEW v \in Worker, v # w PROVE job'[v].pc \notin StorePc
    BY <1>2, <2>1, <2>3, Reads DEF OneUpsert, ReadsOf
  <2> QED BY <2>1, <2>2, <2>3 DEF SeenIsThere
<1> QED BY <1>1, <1>2

\* Without overlapping upserts the session state never goes back to older or weaker
\* evidence (upsert_provider_session_state).
THEOREM SerialUpserts == Spec /\ []OneUpsert => EvidenceImproves
<1>1. Init => Typed /\ SeenIsThere
  BY InitTyped DEF Init, SeenIsThere, IdleJob, StorePc
<1>2. Typed /\ SeenIsThere /\ OneUpsert /\ [Next]_vars
      => (Typed /\ SeenIsThere)' /\ [Supersedes(session', session)]_session
  BY TypedStep, UpsertStep
<1> QED BY <1>1, <1>2, PTL DEF Spec, EvidenceImproves

\* So it is with one server thread.
THEOREM EvidenceImprovesHolds ==
    ASSUME \A v, w \in Worker : v = w PROVE Spec => EvidenceImproves
<1>1. OneUpsert
  BY DEF OneUpsert
<1> QED BY <1>1, SerialUpserts, PTL

LEMMA WriterStep ==
    ASSUME Typed, ReadIsThere, OneAccountWriter, [Next]_vars
    PROVE  /\ ReadIsThere'
           /\ account'.items = account.items \/ \E w \in Worker : ApplyExtraction(w)
<1>1. CASE account' = account
  BY <1>1, Reads DEF ReadIsThere, ReadsOf
<1>2. CASE account' # account
  <2>1. PICK w \in Worker :
            /\ job[w].pc \in WriterPc
            /\ ApplyExtraction(w) \/ (/\ job[w].pc \in ReadPc
                                      /\ account'.items \in {account.items, job[w].items})
    BY <1>2, RowWrites
  <2>2. ASSUME NEW v \in Worker, v # w PROVE job'[v].pc \notin ReadPc
    BY <1>2, <2>1, <2>2, Reads DEF OneAccountWriter, ReadsOf, ReadPc
  <2>3. CASE ApplyExtraction(w)
    <3>1. job'[w].pc = "snapshot"
      BY <2>3 DEF ApplyExtraction, Typed, TypeOK, Job
    <3> QED BY <2>2, <2>3, <3>1 DEF ReadIsThere, ReadPc, WriterPc
  <2>4. CASE job[w].pc \in ReadPc /\ account'.items \in {account.items, job[w].items}
    <3>1. account'.items = account.items
      BY <2>4 DEF ReadIsThere
    <3>2. job'[w].pc \in ReadPc => job'[w].items = account'.items
      BY <1>2, <2>4, <3>1, Reads DEF ReadIsThere, ReadsOf
    <3> QED BY <2>2, <3>1, <3>2 DEF ReadIsThere
  <2> QED BY <2>1, <2>3, <2>4
<1> QED BY <1>1, <1>2

\* Only an extraction changes the items of the account row.
ItemsKept == [][\E w \in Worker : ApplyExtraction(w)]_(account.items)

\* When no two requests stand between reading and rewriting the account row (the
\* connection writes, mark_extraction_pending, a failed extraction), the items an
\* extraction committed stay until the next extraction.
THEOREM SerialAccountWrites == Spec /\ []OneAccountWriter => ItemsKept
<1>1. Init => Typed /\ ReadIsThere
  BY InitTyped DEF Init, ReadIsThere, IdleJob, ReadPc, WriterPc
<1>2. Typed /\ ReadIsThere /\ OneAccountWriter /\ [Next]_vars
      => (Typed /\ ReadIsThere)' /\ [\E w \in Worker : ApplyExtraction(w)]_(account.items)
  BY TypedStep, WriterStep
<1> QED BY <1>1, <1>2, PTL DEF Spec, ItemsKept

\* The connection moves as the machine allows, from what it is when it is written.
MovesLegal == [][CanMove(account.connection, account'.connection)]_(account.connection)

MoveIsLegal ==
    \A w \in Worker : job[w].pc = "move" => CanMove(account.connection, job[w].target)

LEMMA MoveLeaves ==
    ASSUME Typed, NEW w \in Worker, Move(w)
    PROVE  job'[w].pc # "move"
<1>0. job \in [Worker -> Job] /\ job[w] \in Job
  BY DEF Typed, TypeOK
<1>1. CASE job[w].target = "needs_login"
  <2>1. job'[w] = WithEvidence([job[w] EXCEPT !.pc = "report_store", !.items = NoCycle,
                                              !.took = "needs_login"],
                               Report("signed_out", "login_required", now))
    BY <1>0, <1>1 DEF Move
  <2> QED BY <1>0, <2>1 DEF WithEvidence, Job
<1>2. CASE job[w].target = "connected"
  BY <1>0, <1>2 DEF Move, Job
<1>3. CASE job[w].target \notin {"needs_login", "connected"}
  BY <1>0, <1>3 DEF Move, IdleJob
<1> QED BY <1>1, <1>2, <1>3

\* A move is begun where the machine allows it; only a move changes the connection.
LEMMA MoveBegins ==
    ASSUME Typed, [Next]_vars, NEW w \in Worker, job'[w].pc = "move"
    PROVE  \/ job[w].pc = "move" /\ job'[w].target = job[w].target
           \/ CanMove(account.connection, job'[w].target) /\ account' = account
<1>0. job \in [Worker -> Job] /\ job[w] \in Job /\ (job[w].pc = "idle" => job[w] = IdleJob)
  BY DEF Typed, TypeOK, Shape
<1>1. CASE job'[w] \in {job[w], [job[w] EXCEPT !.for = NoRunner], IdleJob}
  BY <1>0, <1>1 DEF Job, IdleJob
<1>2. ASSUME JobStep(w) PROVE FALSE
  <2>1. CASE \/ FinishProbe(w) \/ FailExtraction(w) \/ CompleteExtraction(w) \/ StoreReport(w)
    <3>1. Free(w)
      BY <2>1 DEF FinishProbe, FailExtraction, CompleteExtraction, StoreReport
    <3> QED BY <1>0, <3>1 DEF Free, IdleJob
  <2>2. CASE PublishSnapshot(w) \/ MarkPending(w)
    BY <1>0, <2>2 DEF PublishSnapshot, MarkPending, WithEvidence, Job
  <2>3. CASE Move(w)
    BY <1>0, <2>3, MoveLeaves
  <2> QED BY <1>0, <1>2, <2>1, <2>2, <2>3 DEF JobStep, StoreProbe, MarkExtracting,
        ApplyExtraction, RefuseExtraction, BreakExtraction, StoreFailure, StoreExtractEvidence, Job
<1>3. ASSUME NEW t \in ReportKind, BeginMove(w, t)
      PROVE  CanMove(account.connection, job'[w].target) /\ account' = account
  BY <1>0, <1>3 DEF BeginMove, IdleJob, tables
<1>4. CASE ContentPush(w) \/ \E r \in Runner : PostExtract(r, w)
  BY <1>0, <1>4 DEF ContentPush, PostExtract, ExtractJob, IdleJob
<1>5. ASSUME NEW r \in Runner, NEW p \in PageSeen \cup {ErrorPage},
             NEW pc \in {"probing", "reporting"}, PostProbe(r, w, p, pc)
      PROVE  FALSE
  <2> DEFINE i == [IdleJob EXCEPT !.cycle = run[r].cycle, !.for = r]
             e == EvidenceOf(Probe(p), now)
  <2>1. i \in Job
    BY <1>5, IdleTyped DEF PostProbe, Typed, TypeOK, Run, Job
  <2>2. \/ job'[w] = [i EXCEPT !.pc = "probe_finish"]
        \/ job'[w] = [[i EXCEPT !.pc = "probe_store"] EXCEPT !.evidence = e, !.seen = session]
    BY <1>0, <1>5 DEF PostProbe, ProbeJob, WithEvidence
  <2> HIDE DEF i, e
  <2> QED BY <2>1, <2>2 DEF Job
<1> QED BY <1>1, <1>2, <1>3, <1>4, <1>5, OtherJobs

LEMMA ConnectionWrites ==
    ASSUME Typed, [Next]_vars, account'.connection # account.connection
    PROVE  \E w \in Worker : Move(w)
<1>0. account \in AccountRow
  BY DEF Typed, TypeOK
<1>1. ASSUME NEW w \in Worker,
             \/ StoreProbe(w) \/ StoreExtractEvidence(w) \/ StoreReport(w)
             \/ ApplyExtraction(w) \/ MarkPending(w) \/ StoreFailure(w)
      PROVE  FALSE
  BY <1>0, <1>1 DEF StoreProbe, StoreExtractEvidence, StoreReport, ApplyExtraction, MarkPending,
     StoreFailure, AccountRow
<1> QED BY <1>1, RowWriters

LEMMA MoveStep ==
    ASSUME Typed, MoveIsLegal, OneAccountWriter, [Next]_vars
    PROVE  MoveIsLegal' /\ [CanMove(account.connection, account'.connection)]_(account.connection)
<1>1. CASE account'.connection = account.connection
  BY <1>1, MoveBegins DEF MoveIsLegal
<1>2. CASE account'.connection # account.connection
  <2>1. PICK w \in Worker : Move(w)
    BY <1>2, ConnectionWrites
  <2>2. job[w].pc = "move" /\ account'.connection = job[w].target /\ job'[w].pc # "move"
    BY <2>1, MoveLeaves DEF Move
  <2>3. ASSUME NEW v \in Worker PROVE job'[v].pc # "move"
    BY <1>2, <2>2, <2>3, MoveBegins DEF OneAccountWriter, WriterPc
  <2> QED BY <2>2, <2>3 DEF MoveIsLegal
<1> QED BY <1>1, <1>2

\* When no two requests stand between reading and rewriting the account row, the
\* connection moves along the transitions of connection_state.py only: overlap is the
\* only way a status is written that the machine would have refused (409) by then.
THEOREM SerialMoves == Spec /\ []OneAccountWriter => MovesLegal
<1>1. Init => Typed /\ MoveIsLegal
  BY InitTyped DEF Init, MoveIsLegal, IdleJob
<1>2. Typed /\ MoveIsLegal /\ OneAccountWriter /\ [Next]_vars
      => (Typed /\ MoveIsLegal)'
         /\ [CanMove(account.connection, account'.connection)]_(account.connection)
  BY TypedStep, MoveStep
<1> QED BY <1>1, <1>2, PTL DEF Spec, MovesLegal
=============================================================================
