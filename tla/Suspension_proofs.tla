-------------------------- MODULE Suspension_proofs --------------------------
(***************************************************************************)
(* Proofs about suspending and restoring one sale's access, for any number *)
(* of collectors and requests: it implements the sale's transactions, the  *)
(* suspension column is true, and an automatic freeze carries its marker.  *)
(***************************************************************************)
EXTENDS Suspension, SaleRecords_proofs

Jobs == [at : Points, goal : Goals, by : Askers]

LEMMA GotoFacts ==
  ASSUME SuspensionTypeOK, NEW p \in Procs, NEW pt \in Points, Goto(p, pt)
  PROVE  /\ job' \in [Procs -> Jobs]
         /\ \A q \in Procs : /\ job'[q].goal = job[q].goal
                             /\ job'[q].by = job[q].by
                             /\ job'[q].at = IF q = p THEN pt ELSE job[q].at
<1>1. job \in [Procs -> Jobs]
  BY DEF SuspensionTypeOK, Jobs
<1>2. job' = [job EXCEPT ![p] = [job[p] EXCEPT !.at = pt]]
  BY DEF Goto
<1>3. [job[p] EXCEPT !.at = pt] \in Jobs
  BY <1>1 DEF Jobs
<1> QED BY <1>1, <1>2, <1>3 DEF Jobs

LEMMA RestFacts ==
  ASSUME SuspensionTypeOK, NEW p \in Procs, Rest(p)
  PROVE  /\ job' \in [Procs -> Jobs]
         /\ job'[p].at = "idle" /\ job'[p].by = "system"
         /\ \A q \in Procs \ {p} : job'[q] = job[q]
<1>1. Idle \in Jobs /\ Idle.at = "idle" /\ Idle.by = "system"
  BY DEF Idle, Jobs, Points, Goals, Askers
<1> QED BY <1>1 DEF SuspensionTypeOK, Jobs, Rest

LEMMA NewJobFacts ==
  ASSUME SuspensionTypeOK, NEW p \in Procs, NEW j \in Jobs, job' = [job EXCEPT ![p] = j]
  PROVE  /\ job' \in [Procs -> Jobs]
         /\ job'[p] = j
         /\ \A q \in Procs \ {p} : job'[q] = job[q]
  BY DEF SuspensionTypeOK, Jobs

-----------------------------------------------------------------------------
\* What a step does to the jobs: one process moves on, rests, or takes a job.
LEMMA JobTypeStep ==
  ASSUME SuspensionTypeOK, [SuspensionNext]_suspensionVars
  PROVE  /\ job' \in [Procs -> Jobs]
         /\ \A p \in Procs : job'[p].by = "enrollment" => job'[p].at \in {"admitted", "call", "write"}
<1> DEFINE Good ==
      /\ job' \in [Procs -> Jobs]
      /\ \A p \in Procs : job'[p].by = "enrollment" => job'[p].at \in {"admitted", "call", "write"}
<1> USE DEF At
<1>1. CASE UNCHANGED job
  BY <1>1 DEF SuspensionTypeOK, Jobs
<1>2. ASSUME NEW p \in Procs, Rest(p) PROVE Good
  BY <1>2, RestFacts DEF SuspensionTypeOK
<1>3. ASSUME NEW p \in Procs, NEW pt \in Points, Goto(p, pt),
             job[p].by # "enrollment" \/ pt \in {"admitted", "call", "write"}
      PROVE  Good
  BY <1>3, GotoFacts DEF SuspensionTypeOK
<1>4. CASE Pay
  <2>1. CASE UNCHANGED job
    BY <1>1, <2>1
  <2>2. ASSUME NEW p \in Requests, At(p, "idle"), Goto(p, "paid") PROVE Good
    BY <1>3, <2>2 DEF SuspensionTypeOK, Procs, Points
  <2> QED BY <1>4, <2>1, <2>2 DEF Pay
<1>5. CASE SaleMoves
  BY <1>1, <1>5 DEF SaleMoves, own
<1>6. ASSUME NEW p \in Requests, NEW goal \in Goals, NEW by \in {"sale", "enrollment"}, Ask(p, goal, by)
      PROVE  Good
  <2>1. [at |-> "admitted", goal |-> goal, by |-> by] \in Jobs
    BY DEF Jobs, Points, Askers
  <2> QED BY <1>6, <2>1, NewJobFacts DEF Ask, Procs, SuspensionTypeOK
<1>7. ASSUME NEW p \in Procs, PickFreeze(p) \/ PickResume(p) PROVE Good
  <2>1. PICK goal \in Goals : Pick(p, goal)
    BY <1>7 DEF PickFreeze, PickResume, Goals
  <2>2. [at |-> "picked", goal |-> goal, by |-> "system"] \in Jobs
    BY DEF Jobs, Points, Askers
  <2> QED BY <2>1, <2>2, NewJobFacts DEF Pick, SuspensionTypeOK
<1>8. ASSUME NEW p \in Procs, NothingToResume(p) \/ CallRefused(p) \/ CallLost(p) \/ Stop(p) \/ Close(p)
      PROVE  Good
  BY <1>2, <1>8 DEF NothingToResume, CallRefused, CallLost, Stop, Close
<1>9. ASSUME NEW p \in Procs, Admit(p) PROVE Good
  BY <1>2, <1>3, <1>9 DEF Admit, Points
<1>10. ASSUME NEW p \in Procs, Onward(p) PROVE Good
  BY <1>2, <1>3, <1>10 DEF Onward, Points
<1>11. ASSUME NEW p \in Procs, Look(p) \/ Write(p) \/ Call(p) PROVE Good
  BY <1>3, <1>10, <1>11 DEF Look, Write, Call, Points
<1>12. ASSUME NEW p \in Procs, Mirror(p) PROVE Good
  BY <1>2, <1>3, <1>12 DEF Mirror, AfterMirror, Points
<1>13. CASE UNCHANGED suspensionVars
  BY <1>1, <1>13 DEF suspensionVars, own
<1> QED
  BY <1>4, <1>5, <1>6, <1>7, <1>8, <1>9, <1>11, <1>12, <1>13 DEF SuspensionNext, Work

-----------------------------------------------------------------------------
\* The calls write the order where its own transactions could

\* A call past its admission is about an access that was opened.
JobsHaveAccess == \A p \in Procs : job[p].at \notin {"idle", "paid", "picked"} => access

RecordsInv == SuspensionTypeOK /\ OrderMatchesPayments /\ AccessFollowsPolicy /\ JobsHaveAccess

\* An opened access belongs to an order that left PENDING and EXPIRED behind.
LEMMA AccessMeansRunning ==
  ASSUME OrderMatchesPayments, AccessFollowsPolicy, access
  PROVE  order \notin {"PENDING", "EXPIRED"}
  BY DEF OrderMatchesPayments, AccessFollowsPolicy, AccessEligible

LEMMA RecordsStep == RecordsInv /\ [SuspensionNext]_suspensionVars => [Next]_db
<1> SUFFICES ASSUME RecordsInv, [SuspensionNext]_suspensionVars PROVE [Next]_db
  OBVIOUS
<1>1. CASE Pay
  BY <1>1 DEF Pay, Next, AdminStep
<1>2. CASE SaleMoves
  BY <1>2 DEF SaleMoves, Next, AdminStep, OrderStep
<1>3. ASSUME NEW p \in Procs, Mirror(p) PROVE [Next]_db
  <2>1. access /\ order \notin {"PENDING", "EXPIRED"}
    BY <1>3, AccessMeansRunning DEF Mirror, At, RecordsInv, JobsHaveAccess
  <2>2. CASE order' = order
    BY <1>3, <2>2 DEF Mirror, db
  <2>3. CASE order' # order /\ Wanted(p)
    <3>1. order \in {"ACTIVE", "PAST_DUE"} /\ order' = "SUSPENDED"
      BY <1>3, <2>1, <2>3 DEF Mirror, OrderAllows
    <3> QED BY <1>3, <2>1, <3>1 DEF Mirror, SuspendOrder, OrderStep, Next
  <2>4. CASE order' # order /\ ~Wanted(p)
    <3>1. order \in {"SUSPENDED", "PAST_DUE"} /\ order' = "ACTIVE"
      BY <1>3, <2>1, <2>4 DEF Mirror, OrderAllows
    <3> QED BY <1>3, <3>1 DEF Mirror, ResumeOrder, OrderStep, Next
  <2> QED BY <2>2, <2>3, <2>4
<1>4. ASSUME NEW p \in Procs, Close(p) PROVE [Next]_db
  BY <1>4 DEF Close, OrderStep, Next
<1>5. CASE UNCHANGED db
  BY <1>5
<1>6. ASSUME NEW p \in Procs, NEW goal \in Goals, NEW by, Ask(p, goal, by) PROVE [Next]_db
  BY <1>5, <1>6 DEF Ask
<1>7. ASSUME NEW p \in Procs,
             \/ PickFreeze(p) \/ PickResume(p) \/ NothingToResume(p) \/ Admit(p) \/ Look(p)
             \/ Write(p) \/ Call(p) \/ CallRefused(p) \/ CallLost(p) \/ Stop(p)
      PROVE  [Next]_db
  BY <1>5, <1>7 DEF PickFreeze, PickResume, Pick, NothingToResume, Admit, Look, Write, Call,
     CallRefused, CallLost, Stop
<1>8. CASE UNCHANGED suspensionVars
  BY <1>5, <1>8 DEF suspensionVars
<1> QED
  BY <1>1, <1>2, <1>3, <1>4, <1>6, <1>7, <1>8 DEF SuspensionNext, Work, Procs

\* Opened access is never withdrawn from the records.
LEMMA AccessStays == TypeOK /\ [Next]_db /\ access => access'
  BY SaleStepStep DEF SaleStep, NothingSettled, SomethingSettled

LEMMA JobsHaveAccessStep ==
  RecordsInv /\ [SuspensionNext]_suspensionVars => JobsHaveAccess'
<1> SUFFICES ASSUME RecordsInv, [SuspensionNext]_suspensionVars PROVE JobsHaveAccess'
  OBVIOUS
<1> USE DEF At
<1>1. access => access'
  BY RecordsStep, AccessStays DEF RecordsInv, SuspensionTypeOK
<1>2. ASSUME \A p \in Procs : job'[p].at \notin {"idle", "paid", "picked"} =>
                 job[p].at \notin {"idle", "paid", "picked"} \/ access
      PROVE  JobsHaveAccess'
  BY <1>1, <1>2 DEF JobsHaveAccess, RecordsInv
<1>3. SuspensionTypeOK
  BY DEF RecordsInv
<1>4. CASE UNCHANGED job
  BY <1>2, <1>4
<1>5. ASSUME NEW p \in Procs, Rest(p) PROVE JobsHaveAccess'
  BY <1>2, <1>3, <1>5, RestFacts
<1>6. ASSUME NEW p \in Procs, NEW pt \in Points, Goto(p, pt),
             pt \in {"idle", "paid", "picked"} \/ job[p].at \notin {"idle", "paid", "picked"} \/ access
      PROVE  JobsHaveAccess'
  BY <1>2, <1>3, <1>6, GotoFacts
<1>7. CASE Pay
  <2>1. ASSUME NEW p \in Requests, Goto(p, "paid") PROVE JobsHaveAccess'
    BY <1>6, <2>1 DEF Procs, Points
  <2> QED BY <1>4, <1>7, <2>1 DEF Pay
<1>8. ASSUME NEW p \in Requests, NEW goal \in Goals, NEW by \in {"sale", "enrollment"}, Ask(p, goal, by)
      PROVE  JobsHaveAccess'
  <2>1. access
    BY <1>8 DEF Ask, Admissible
  <2> QED BY <1>2, <2>1
<1>9. ASSUME NEW p \in Procs, PickFreeze(p) \/ PickResume(p) PROVE JobsHaveAccess'
  <2>1. PICK goal \in Goals : Pick(p, goal)
    BY <1>9 DEF PickFreeze, PickResume, Goals
  <2>2. [at |-> "picked", goal |-> goal, by |-> "system"] \in Jobs
    BY DEF Jobs, Points, Askers
  <2> QED BY <1>2, <1>3, <2>1, <2>2, NewJobFacts DEF Pick
<1>10. ASSUME NEW p \in Procs, Admit(p) PROVE JobsHaveAccess'
  <2>1. CASE Admissible(job[p].goal)
    BY <1>2, <2>1 DEF Admissible
  <2>2. CASE ~Admissible(job[p].goal)
    BY <1>5, <1>10, <2>2 DEF Admit
  <2> QED BY <2>1, <2>2
<1>11. ASSUME NEW p \in Procs,
              NothingToResume(p) \/ CallRefused(p) \/ CallLost(p) \/ Stop(p) \/ Close(p)
       PROVE  JobsHaveAccess'
  BY <1>5, <1>11 DEF NothingToResume, CallRefused, CallLost, Stop, Close
<1>12. ASSUME NEW p \in Procs, Look(p) \/ Write(p) \/ Call(p) \/ Mirror(p) PROVE JobsHaveAccess'
  BY <1>5, <1>6, <1>12 DEF Look, Write, Call, Mirror, AfterMirror, Onward, Points
<1>13. CASE SaleMoves \/ UNCHANGED suspensionVars
  BY <1>4, <1>13 DEF SaleMoves, suspensionVars, own
<1> QED
  BY <1>7, <1>8, <1>9, <1>10, <1>11, <1>12, <1>13 DEF SuspensionNext, Work

LEMMA SuspensionTypeStep ==
  RecordsInv /\ [SuspensionNext]_suspensionVars => SuspensionTypeOK'
<1> SUFFICES ASSUME RecordsInv, [SuspensionNext]_suspensionVars PROVE SuspensionTypeOK'
  OBVIOUS
<1>1. TypeOK' /\ SuspensionTypeOK
  BY RecordsStep, TypeStep DEF RecordsInv, SuspensionTypeOK
<1>2. /\ job' \in [Procs -> Jobs]
      /\ \A p \in Procs : job'[p].by = "enrollment" => job'[p].at \in {"admitted", "call", "write"}
  BY <1>1, JobTypeStep
<1>3. frozenBy' \in {"nobody", "system", "staff"}
  BY <1>1 DEF SuspensionTypeOK, SuspensionNext, Work, Pay, SaleMoves, Ask, PickFreeze, PickResume, Pick,
     NothingToResume, Admit, Look, Write, Call, Land, CallRefused, CallLost, Mirror, Close, Stop,
     own, suspensionVars
<1>4. trouble' \in {"none", "cut", "doubt"}
  BY <1>1 DEF SuspensionTypeOK, SuspensionNext, Work, Pay, SaleMoves, Ask, PickFreeze, PickResume, Pick,
     NothingToResume, Admit, Look, Write, Call, CallRefused, CallLost, Mirror, Close, Stop,
     own, suspensionVars
<1>5. cfSuspended' \in BOOLEAN /\ marker' \in BOOLEAN
  BY <1>1 DEF SuspensionTypeOK, SuspensionNext, Work, Pay, SaleMoves, Ask, PickFreeze, PickResume, Pick,
     NothingToResume, Admit, Look, Write, Call, CallRefused, CallLost, Mirror, Close, Stop, Wanted,
     own, suspensionVars
<1> QED BY <1>1, <1>2, <1>3, <1>4, <1>5 DEF SuspensionTypeOK, Jobs

LEMMA RecordsInvStep == RecordsInv /\ [SuspensionNext]_suspensionVars => RecordsInv'
<1> SUFFICES ASSUME RecordsInv, [SuspensionNext]_suspensionVars PROVE RecordsInv'
  OBVIOUS
<1>1. TypeOK /\ [Next]_db
  BY RecordsStep DEF RecordsInv, SuspensionTypeOK
<1> QED
  BY <1>1, OrderMatchesStep, AccessStep, JobsHaveAccessStep, SuspensionTypeStep DEF RecordsInv

LEMMA RecordsInvInit == SuspensionInit => RecordsInv
<1> SUFFICES ASSUME SuspensionInit PROVE RecordsInv
  OBVIOUS
<1>1. TypeOK
  BY TypeInit DEF SuspensionInit
<1>2. ~AnyPaid(inst) /\ ~AllSettled(inst)
  BY SaleAssumption DEF SuspensionInit, Init, AnyPaid, AllSettled, SettledStatuses, Insts
<1>3. OrderMatchesPayments /\ AccessFollowsPolicy
  BY <1>2 DEF SuspensionInit, Init, OrderMatchesPayments, AccessFollowsPolicy, AccessEligible
<1>4. job = [p \in Procs |-> Idle] /\ Idle \in Jobs /\ Idle.at = "idle" /\ Idle.by = "system"
  BY DEF SuspensionInit, Idle, Jobs, Points, Goals, Askers
<1>5. SuspensionTypeOK
  BY <1>1, <1>4 DEF SuspensionInit, SuspensionTypeOK, Jobs
<1>6. JobsHaveAccess
  BY <1>4 DEF JobsHaveAccess
<1> QED BY <1>3, <1>5, <1>6 DEF RecordsInv

LEMMA RecordsInvAlways == SuspensionSpec => []RecordsInv
  BY RecordsInvInit, RecordsInvStep, PTL DEF SuspensionSpec

\* The jobs, the column and the marker are always of the right kind.
THEOREM SuspensionTypeCorrect == SuspensionSpec => []SuspensionTypeOK
<1>1. RecordsInv => SuspensionTypeOK
  BY DEF RecordsInv
<1> QED BY <1>1, RecordsInvAlways, PTL

\* Whatever suspends and restores the access, and however it is interrupted, the
\* sale's rows only make steps of SaleRecords: all that is proved there holds.
THEOREM SuspensionImplementsRecords == SuspensionSpec => Spec
<1>1. SuspensionInit => Init
  BY DEF SuspensionInit
<1> QED BY <1>1, RecordsInvAlways, RecordsStep, PTL DEF SuspensionSpec, Spec

\* Freezing and resuming break nothing the sale promises; above all a suspended
\* order is still settled and ended by its installments alone
\* (EnrollmentAdministrationService, through SaleRecords' transactions).
THEOREM SuspensionKeepsTheSale ==
  SuspensionSpec =>
    /\ LedgerIsKept /\ HistoryIsFinal
    /\ [](OneActiveAttempt /\ PaidHasPayer /\ OrderMatchesPayments /\ AccessFollowsPolicy)
  BY SuspensionImplementsRecords, RecordsImplementLedger, HistoryIsFinalAlways, PaidHasPayerAlways,
     OneActiveAttemptAlways, OrderMatchesPaymentsAlways, AccessFollowsPolicyAlways, PTL

-----------------------------------------------------------------------------
\* The column and ClickFunnels

\* One answer at a time is on its way to the column, and it tells what
\* ClickFunnels does now; when none is, the column tells it.
ColumnInv ==
  trouble # "doubt" =>
      /\ \A p, q \in Procs : At(p, "write") /\ At(q, "write") => p = q
      /\ \A p \in Procs : At(p, "write") => Wanted(p) = Frozen
      /\ (\A p \in Procs : ~At(p, "write")) => cfSuspended = Frozen

\* A step after which the same processes are writing, for the same goals, keeps it.
LEMMA SameWriters ==
  ASSUME ColumnInv, trouble' # "doubt" => trouble # "doubt",
         \A p \in Procs : job'[p].at = "write" <=> job[p].at = "write",
         \A p \in Procs : job'[p].at = "write" => job'[p].goal = job[p].goal,
         frozenBy' = frozenBy, cfSuspended' = cfSuspended
  PROVE  ColumnInv'
  BY DEF ColumnInv, At, Wanted, Frozen

\* What the steps that neither call nor write do.
LEMMA QuietStep ==
  ASSUME SuspensionTypeOK,
         \/ Pay \/ SaleMoves \/ UNCHANGED suspensionVars
         \/ \E p \in Requests, goal \in Goals, by \in {"sale", "enrollment"} : Ask(p, goal, by)
         \/ \E p \in Procs : \/ PickFreeze(p) \/ PickResume(p) \/ NothingToResume(p) \/ Admit(p) \/ Look(p)
                             \/ Mirror(p) \/ Close(p) \/ CallRefused(p)
  PROVE  /\ \A p \in Procs : job'[p].at = "write" <=> job[p].at = "write"
         /\ \A p \in Procs : job'[p].at = "write" => job'[p].goal = job[p].goal
         /\ frozenBy' = frozenBy /\ cfSuspended' = cfSuspended
         /\ trouble' # "doubt" <=> trouble # "doubt"
<1> DEFINE Same == /\ \A p \in Procs : job'[p].at = "write" <=> job[p].at = "write"
                   /\ \A p \in Procs : job'[p].at = "write" => job'[p].goal = job[p].goal
<1> USE DEF At
<1>1. ASSUME NEW p \in Procs, job[p].at # "write", Rest(p) PROVE Same
  BY <1>1, RestFacts
<1>2. ASSUME NEW p \in Procs, job[p].at # "write", NEW pt \in Points \ {"write"}, Goto(p, pt) PROVE Same
  BY <1>2, GotoFacts
<1>3. ASSUME NEW p \in Procs, job[p].at # "write", NEW j \in Jobs, j.at # "write", job' = [job EXCEPT ![p] = j]
      PROVE  Same
  BY <1>3, NewJobFacts
<1>4. CASE Pay
  <2>1. ASSUME NEW p \in Requests, At(p, "idle"), Goto(p, "paid") PROVE Same
    BY <1>2, <2>1 DEF Procs, Points
  <2> QED BY <1>4, <2>1 DEF Pay
<1>5. CASE SaleMoves \/ UNCHANGED suspensionVars
  BY <1>5 DEF SaleMoves, suspensionVars, own
<1>6. ASSUME NEW p \in Requests, NEW goal \in Goals, NEW by \in {"sale", "enrollment"}, Ask(p, goal, by)
      PROVE  Same
  <2>1. [at |-> "admitted", goal |-> goal, by |-> by] \in Jobs
    BY DEF Jobs, Points, Askers
  <2> QED BY <1>3, <1>6, <2>1 DEF Ask, Procs
<1>7. ASSUME NEW p \in Procs, PickFreeze(p) \/ PickResume(p) PROVE Same
  <2>1. PICK goal \in Goals : Pick(p, goal)
    BY <1>7 DEF PickFreeze, PickResume, Goals
  <2>2. [at |-> "picked", goal |-> goal, by |-> "system"] \in Jobs
    BY DEF Jobs, Points, Askers
  <2>3. job[p].at # "write"
    BY <1>7 DEF PickFreeze, PickResume
  <2> QED BY <1>3, <2>1, <2>2, <2>3 DEF Pick
<1>8. ASSUME NEW p \in Procs, NothingToResume(p) \/ CallRefused(p) \/ Close(p) PROVE Same
  BY <1>1, <1>8 DEF NothingToResume, CallRefused, Close
<1>9. ASSUME NEW p \in Procs, Admit(p) \/ Look(p) \/ Mirror(p) PROVE Same
  BY <1>1, <1>2, <1>9 DEF Admit, Look, Mirror, Onward, AfterMirror, Points
<1>10. Same
  BY <1>4, <1>5, <1>6, <1>7, <1>8, <1>9
<1>11. frozenBy' = frozenBy /\ cfSuspended' = cfSuspended /\ (trouble' # "doubt" <=> trouble # "doubt")
  BY DEF Pay, SaleMoves, Ask, PickFreeze, PickResume, Pick, NothingToResume, Admit, Look, Mirror, Close,
     CallRefused, suspensionVars, own
<1> QED BY <1>10, <1>11

LEMMA ColumnStep ==
  SuspensionTypeOK /\ ColumnInv /\ [SuspensionNext]_suspensionVars => ColumnInv'
<1> SUFFICES ASSUME SuspensionTypeOK, ColumnInv, [SuspensionNext]_suspensionVars PROVE ColumnInv'
  OBVIOUS
<1>1. ASSUME NEW p \in Procs, Call(p) PROVE ColumnInv'
  <2> SUFFICES ASSUME trouble' # "doubt" PROVE ColumnInv'
    BY DEF ColumnInv
  <2>1. \A q \in Procs \ {p} : job[q].at # "write"
    BY <1>1 DEF Call, Overlaps, At
  <2>2. \A q \in Procs : job'[q].at = "write" <=> q = p
    BY <1>1, <2>1, GotoFacts DEF Call, Points
  <2>3. job'[p].goal = job[p].goal
    BY <1>1, GotoFacts DEF Call, Points
  <2>4. Frozen' = Wanted(p)
    BY <1>1 DEF Call, Land, Frozen, Wanted
  <2> QED BY <2>2, <2>3, <2>4 DEF ColumnInv, At, Wanted
<1>2. ASSUME NEW p \in Procs, Write(p) PROVE ColumnInv'
  <2> SUFFICES ASSUME trouble' # "doubt" PROVE ColumnInv'
    BY DEF ColumnInv
  <2>1. trouble # "doubt" /\ job[p].at = "write"
    BY <1>2 DEF Write, At
  <2>2. \A q \in Procs \ {p} : job[q].at # "write"
    BY <2>1 DEF ColumnInv, At
  <2>3. \A q \in Procs : job'[q].at # "write"
    BY <1>2, <2>2, GotoFacts, RestFacts DEF Write, Onward, Points
  <2>4. cfSuspended' = Wanted(p) /\ Wanted(p) = Frozen /\ frozenBy' = frozenBy
    BY <1>2, <2>1 DEF Write, ColumnInv, At
  <2> QED BY <2>3, <2>4 DEF ColumnInv, At, Frozen
<1>3. ASSUME NEW p \in Procs, CallLost(p) PROVE ColumnInv'
  BY <1>3 DEF CallLost, ColumnInv
<1>4. ASSUME NEW p \in Procs, Stop(p) PROVE ColumnInv'
  <2>1. CASE At(p, "write")
    BY <1>4, <2>1 DEF Stop, ColumnInv
  <2>2. CASE ~At(p, "write")
    <3>1. \A q \in Procs : job'[q].at = "write" <=> job[q].at = "write"
      BY <1>4, <2>2, RestFacts DEF Stop, At
    <3>2. \A q \in Procs : job'[q].at = "write" => job'[q].goal = job[q].goal
      BY <1>4, <2>2, RestFacts DEF Stop, At
    <3>3. trouble' # "doubt" => trouble # "doubt"
      BY <1>4 DEF Stop
    <3> QED BY <1>4, <3>1, <3>2, <3>3, SameWriters DEF Stop
  <2> QED BY <2>1, <2>2
<1>5. CASE \/ Pay \/ SaleMoves \/ UNCHANGED suspensionVars
           \/ \E p \in Requests, goal \in Goals, by \in {"sale", "enrollment"} : Ask(p, goal, by)
           \/ \E p \in Procs : \/ PickFreeze(p) \/ PickResume(p) \/ NothingToResume(p) \/ Admit(p) \/ Look(p)
                               \/ Mirror(p) \/ Close(p) \/ CallRefused(p)
  BY <1>5, QuietStep, SameWriters
<1> QED BY <1>1, <1>2, <1>3, <1>4, <1>5 DEF SuspensionNext, Work

LEMMA ColumnInvAlways == SuspensionSpec => []ColumnInv
<1>1. ASSUME SuspensionInit PROVE ColumnInv
  <2>1. \A p \in Procs : job[p].at = "idle"
    BY <1>1 DEF SuspensionInit, Idle
  <2> QED BY <1>1, <2>1 DEF SuspensionInit, ColumnInv, At, Frozen
<1> QED BY <1>1, SuspensionTypeCorrect, ColumnStep, PTL DEF SuspensionSpec

\* The suspension column tells what ClickFunnels does, unless an answer is being
\* recorded, was lost, or calls overlapped.
THEOREM RecordIsTrueAlways == SuspensionSpec => []RecordIsTrue
<1>1. ColumnInv => RecordIsTrue
  BY DEF ColumnInv, RecordIsTrue
<1> QED BY <1>1, ColumnInvAlways, PTL

-----------------------------------------------------------------------------
\* The marker

\* A call of the collection that is past ClickFunnels.
Landed(p) == Collecting(p) /\ job[p].at \in {"write", "mirror", "close"}

MarkedInv ==
  /\ \A p \in Procs : job[p].at = "close" => job[p].by = "system"
  /\ trouble = "none" =>
        /\ \A p, q \in Procs : Collecting(p) /\ Collecting(q) => p = q
        /\ frozenBy = "system" =>
              cfSuspended \/ \E p \in Procs : Landed(p) /\ Wanted(p) /\ At(p, "write")
        /\ frozenBy = "system" => \A p \in Procs : Landed(p) => Wanted(p)
        /\ frozenBy = "system" => marker \/ \E p \in Procs : Landed(p) /\ Wanted(p)

\* A step that moves one process, which is not past ClickFunnels before or after
\* it, and admits nobody.
LEMMA MarkedFrame ==
  ASSUME MarkedInv, NEW p \in Procs, ~Landed(p), ~Landed(p)', Collecting(p)' => Collecting(p),
         \A q \in Procs \ {p} : job'[q] = job[q],
         job'[p].at = "close" => job'[p].by = "system",
         trouble' = "none" => trouble = "none",
         frozenBy' = "system" => frozenBy = "system",
         cfSuspended' = cfSuspended, marker' = marker
  PROVE  MarkedInv'
<1> DEFINE Same(q) == (Collecting(q)' <=> Collecting(q)) /\ (Landed(q)' <=> Landed(q))
                      /\ (Wanted(q)' <=> Wanted(q)) /\ (At(q, "write")' <=> At(q, "write"))
<1>1. \A q \in Procs \ {p} : Same(q)
  BY DEF Collecting, Landed, Wanted, At
<1>2. \A q \in Procs : job'[q].at = "close" => job'[q].by = "system"
  BY DEF MarkedInv
<1> QED BY <1>1, <1>2 DEF MarkedInv

LEMMA NobodyMoves ==
  ASSUME MarkedInv, job' = job, trouble' = trouble, frozenBy' = frozenBy,
         cfSuspended' = cfSuspended, marker' = marker
  PROVE  MarkedInv'
  BY DEF MarkedInv, Collecting, Landed, Wanted, At

LEMMA MarkedStep ==
  SuspensionTypeOK /\ ColumnInv /\ MarkedInv /\ [SuspensionNext]_suspensionVars => MarkedInv'
<1> SUFFICES ASSUME SuspensionTypeOK, ColumnInv, MarkedInv, [SuspensionNext]_suspensionVars
             PROVE  MarkedInv'
  OBVIOUS
<1> USE DEF At
<1>1. CASE Pay
  <2>1. ASSUME NEW p \in Requests, job[p].at = "idle", Goto(p, "paid") PROVE MarkedInv'
    <3>1. p \in Procs /\ job'[p].at = "paid" /\ \A q \in Procs \ {p} : job'[q] = job[q]
      BY <2>1, GotoFacts DEF Procs, Points, Goto, SuspensionTypeOK
    <3> QED BY <1>1, <2>1, <3>1, MarkedFrame DEF Pay, Landed, Collecting
  <2> QED BY <1>1, <2>1, NobodyMoves DEF Pay
<1>2. CASE SaleMoves \/ UNCHANGED suspensionVars
  BY <1>2, NobodyMoves DEF SaleMoves, suspensionVars, own
<1>3. ASSUME NEW p \in Requests, NEW goal \in Goals, NEW by \in {"sale", "enrollment"}, Ask(p, goal, by)
      PROVE  MarkedInv'
  <2>1. [at |-> "admitted", goal |-> goal, by |-> by] \in Jobs /\ p \in Procs
    BY DEF Jobs, Points, Askers, Procs
  <2>2. job'[p].at = "admitted" /\ job'[p].by # "system" /\ \A q \in Procs \ {p} : job'[q] = job[q]
    BY <1>3, <2>1, NewJobFacts DEF Ask
  <2> QED BY <1>3, <2>1, <2>2, MarkedFrame DEF Ask, Landed, Collecting
<1>4. ASSUME NEW p \in Procs, PickFreeze(p) \/ PickResume(p) PROVE MarkedInv'
  <2>1. PICK goal \in Goals : Pick(p, goal)
    BY <1>4 DEF PickFreeze, PickResume, Goals
  <2>2. [at |-> "picked", goal |-> goal, by |-> "system"] \in Jobs
    BY DEF Jobs, Points, Askers
  <2>3. job'[p].at = "picked" /\ \A q \in Procs \ {p} : job'[q] = job[q]
    BY <2>1, <2>2, NewJobFacts DEF Pick
  <2>4. job[p].at \in {"idle", "paid"}
    BY <1>4 DEF PickFreeze, PickResume
  <2> QED BY <2>1, <2>3, <2>4, MarkedFrame DEF Pick, Landed, Collecting
<1>5. ASSUME NEW p \in Procs, NothingToResume(p) \/ CallRefused(p) PROVE MarkedInv'
  <2>1. job[p].at \in {"paid", "call"} /\ Rest(p)
    BY <1>5 DEF NothingToResume, CallRefused
  <2>2. job'[p].at = "idle" /\ \A q \in Procs \ {p} : job'[q] = job[q]
    BY <2>1, RestFacts
  <2> QED BY <1>5, <2>1, <2>2, MarkedFrame DEF NothingToResume, CallRefused, Landed, Collecting
<1>6. ASSUME NEW p \in Procs, CallLost(p) PROVE MarkedInv'
  <2>1. job'[p].at = "idle" /\ \A q \in Procs \ {p} : job'[q] = job[q]
    BY <1>6, RestFacts DEF CallLost
  <2> QED BY <1>6, <2>1 DEF CallLost, MarkedInv
<1>7. ASSUME NEW p \in Procs, Admit(p) PROVE MarkedInv'
  <2>1. CASE Rest(p)
    <3>1. job'[p].at = "idle" /\ \A q \in Procs \ {p} : job'[q] = job[q]
      BY <2>1, RestFacts
    <3>2. trouble' = "none" => trouble = "none"
      BY <1>7 DEF Admit
    <3> QED BY <1>7, <3>1, <3>2, MarkedFrame DEF Admit, Landed, Collecting
  <2>2. CASE Goto(p, "admitted") /\ Admissible(job[p].goal)
    <3>1. job'[p].at = "admitted" /\ \A q \in Procs \ {p} : job'[q] = job[q]
      BY <2>2, GotoFacts DEF Points, Goto, SuspensionTypeOK
    <3>2. trouble' = "none" => trouble = "none" /\ \A q \in Procs \ {p} : ~Collecting(q)
      BY <1>7, <2>2 DEF Admit
    <3>3. \A q \in Procs \ {p} : Collecting(q)' <=> Collecting(q)
      BY <3>1 DEF Collecting
    <3>4. \A q \in Procs : Landed(q)' <=> Landed(q)
      BY <1>7, <3>1 DEF Landed, Collecting, Admit
    <3>5. trouble' = "none" => \A q \in Procs : ~Landed(q)
      BY <1>7, <3>2 DEF Landed, Admit
    <3>6. \A q \in Procs : job'[q].at = "close" => job'[q].by = "system"
      BY <3>1 DEF MarkedInv
    <3> QED BY <1>7, <3>2, <3>3, <3>4, <3>5, <3>6 DEF MarkedInv, Admit
  <2> QED BY <1>7, <2>1, <2>2 DEF Admit
<1>8. ASSUME NEW p \in Procs, job[p].by # "system", Rest(p) \/ (\E pt \in Points \ {"close"} : Goto(p, pt)),
             trouble' = "none" => trouble = "none",
             frozenBy' = "system" => frozenBy = "system",
             cfSuspended' = cfSuspended, marker' = marker
      PROVE  MarkedInv'
  <2>1. CASE Rest(p)
    <3>1. job'[p].at = "idle" /\ \A q \in Procs \ {p} : job'[q] = job[q]
      BY <2>1, RestFacts
    <3> QED BY <1>8, <3>1, MarkedFrame DEF Landed, Collecting
  <2>2. ASSUME NEW pt \in Points \ {"close"}, Goto(p, pt) PROVE MarkedInv'
    <3>1. job'[p].at = pt /\ job'[p].by = job[p].by /\ \A q \in Procs \ {p} : job'[q] = job[q]
      BY <2>2, GotoFacts DEF Goto, SuspensionTypeOK
    <3> QED BY <1>8, <2>2, <3>1, MarkedFrame DEF Landed, Collecting
  <2> QED BY <1>8, <2>1, <2>2
<1>9. ASSUME NEW p \in Procs, NEW pt \in Points, Goto(p, pt)
      PROVE  /\ job'[p].at = pt /\ job'[p].by = job[p].by /\ job'[p].goal = job[p].goal
             /\ \A q \in Procs \ {p} : job'[q] = job[q]
             /\ \A q \in Procs \ {p} : /\ Collecting(q)' <=> Collecting(q)
                                       /\ Landed(q)' <=> Landed(q)
                                       /\ Wanted(q)' <=> Wanted(q)
             /\ Wanted(p)' <=> Wanted(p)
  <2>1. \A q \in Procs \ {p} : job'[q] = job[q]
    BY <1>9 DEF Goto, SuspensionTypeOK
  <2> QED BY <1>9, <2>1, GotoFacts DEF Collecting, Landed, Wanted
<1>10. ASSUME NEW p \in Procs, Rest(p)
       PROVE  /\ job'[p].at = "idle" /\ ~Collecting(p)' /\ ~Landed(p)'
              /\ \A q \in Procs \ {p} : job'[q] = job[q]
              /\ \A q \in Procs \ {p} : /\ Collecting(q)' <=> Collecting(q)
                                        /\ Landed(q)' <=> Landed(q)
                                        /\ Wanted(q)' <=> Wanted(q)
  <2>1. job'[p].at = "idle" /\ \A q \in Procs \ {p} : job'[q] = job[q]
    BY <1>10, RestFacts
  <2> QED BY <2>1 DEF Collecting, Landed, Wanted
<1>11. ASSUME NEW p \in Procs, Look(p) PROVE MarkedInv'
  <2>1. CASE job[p].by # "system"
    <3>1. Rest(p) \/ Goto(p, "mirror") \/ Goto(p, "call")
      BY <1>11 DEF Look, Onward
    <3> QED BY <1>8, <1>11, <2>1, <3>1 DEF Look, Points
  <2>2. CASE job[p].by = "system" /\ cfSuspended # Wanted(p)
    <3>1. Goto(p, "call")
      BY <1>11, <2>2 DEF Look
    <3>2. job'[p].at = "call" /\ \A q \in Procs \ {p} : job'[q] = job[q]
      BY <1>9, <3>1 DEF Points
    <3> QED BY <1>11, <2>2, <3>2, MarkedFrame DEF Look, Landed, Collecting
  <2>3. CASE job[p].by = "system" /\ cfSuspended = Wanted(p)
    <3>1. Goto(p, "mirror")
      BY <1>11, <2>3 DEF Look, Onward
    <3>2. Collecting(p) /\ ~Landed(p) /\ Collecting(p)' /\ Landed(p)' /\ job'[p].at = "mirror"
      BY <1>9, <1>11, <2>3, <3>1 DEF Look, Collecting, Landed, Points
    <3>3. \A q \in Procs \ {p} : job'[q] = job[q] /\ (Collecting(q)' <=> Collecting(q))
      BY <1>9, <3>1 DEF Points
    <3>4. trouble = "none" => \A q \in Procs \ {p} : ~Landed(q) /\ ~Collecting(q)
      BY <3>2 DEF MarkedInv, Landed
    <3>5. trouble = "none" /\ frozenBy = "system" => cfSuspended
      BY <3>2, <3>4 DEF MarkedInv
    <3>6. trouble = "none" => \A q \in Procs : Landed(q)' => q = p
      BY <3>3, <3>4 DEF Landed
    <3>7. Wanted(p)' <=> Wanted(p)
      BY <1>9, <3>1 DEF Points
    <3>8. \A q \in Procs : job'[q].at = "close" => job'[q].by = "system"
      BY <3>2, <3>3 DEF MarkedInv
    <3> QED BY <1>11, <2>3, <3>2, <3>3, <3>4, <3>5, <3>6, <3>7, <3>8 DEF MarkedInv, Look
  <2> QED BY <2>1, <2>2, <2>3
<1>12. ASSUME NEW p \in Procs, Call(p) PROVE MarkedInv'
  <2>1. Goto(p, "write") /\ cfSuspended' = cfSuspended /\ marker' = marker
    BY <1>12 DEF Call
  <2>2. trouble' = "none" => trouble = "none"
    BY <1>12 DEF Call
  <2>3. CASE job[p].by # "system"
    <3>1. frozenBy' = "system" => frozenBy = "system"
      BY <1>12, <2>3 DEF Call, Land
    <3> QED BY <1>8, <2>1, <2>2, <2>3, <3>1 DEF Points
  <2>4. CASE job[p].by = "system"
    <3>1. Collecting(p) /\ Collecting(p)' /\ Landed(p)' /\ job'[p].at = "write"
      BY <1>9, <1>12, <2>1, <2>4 DEF Call, Collecting, Landed, Points
    <3>2. \A q \in Procs \ {p} : job'[q] = job[q] /\ (Collecting(q)' <=> Collecting(q))
      BY <1>9, <2>1 DEF Points
    <3>3. trouble = "none" => \A q \in Procs \ {p} : ~Collecting(q)
      BY <3>1 DEF MarkedInv
    <3>4. trouble' = "none" => \A q \in Procs : Landed(q)' => q = p
      BY <2>2, <3>2, <3>3 DEF Landed
    <3>5. frozenBy' = "system" => Wanted(p)'
      BY <1>9, <1>12, <2>1 DEF Call, Land, Points
    <3>6. \A q \in Procs : job'[q].at = "close" => job'[q].by = "system"
      BY <3>1, <3>2 DEF MarkedInv
    <3> QED BY <2>2, <3>1, <3>2, <3>3, <3>4, <3>5, <3>6 DEF MarkedInv
  <2> QED BY <2>3, <2>4
<1>13. ASSUME NEW p \in Procs, Write(p) PROVE MarkedInv'
  <2>1. Rest(p) \/ (Goto(p, "mirror") /\ job[p].by # "enrollment")
    BY <1>13 DEF Write, Onward
  <2>2. /\ \A q \in Procs : Collecting(q)' <=> Collecting(q)
        /\ \A q \in Procs : Landed(q)' <=> Landed(q)
        /\ \A q \in Procs : Landed(q) => (Wanted(q)' <=> Wanted(q))
    <3>1. CASE Rest(p) /\ job[p].by = "enrollment"
      BY <1>10, <3>1 DEF Collecting, Landed
    <3>2. CASE Goto(p, "mirror")
      BY <1>9, <1>13, <3>2 DEF Collecting, Landed, Points, Write
    <3> QED BY <1>13, <3>1, <3>2 DEF Write, Onward
  <2>3. \A q \in Procs : job'[q].at = "close" => job'[q].by = "system"
    BY <1>9, <1>10, <2>1 DEF MarkedInv, Points
  <2>4. trouble = "none" /\ frozenBy = "system" => cfSuspended'
    BY <1>13 DEF Write, ColumnInv, Frozen
  <2> QED BY <1>13, <2>2, <2>3, <2>4 DEF MarkedInv, Write
<1>14. ASSUME NEW p \in Procs, Mirror(p) PROVE MarkedInv'
  <2>1. CASE job[p].by # "system"
    <3>1. Rest(p)
      BY <1>14, <2>1 DEF Mirror, AfterMirror
    <3> QED BY <1>8, <1>14, <2>1, <3>1 DEF Mirror
  <2>2. CASE job[p].by = "system"
    <3>1. Goto(p, "close")
      BY <1>14, <2>2 DEF Mirror, AfterMirror
    <3>2. job'[p].at = "close" /\ job'[p].by = "system" /\ \A q \in Procs \ {p} : job'[q] = job[q]
      BY <1>9, <2>2, <3>1 DEF Points
    <3>3. \A q \in Procs : /\ Collecting(q)' <=> Collecting(q)
                           /\ Landed(q)' <=> Landed(q)
                           /\ Wanted(q)' <=> Wanted(q)
      BY <1>9, <1>14, <2>2, <3>1, <3>2 DEF Collecting, Landed, Points, Mirror
    <3>4. \A q \in Procs : At(q, "write")' <=> At(q, "write")
      BY <1>14, <3>2 DEF Mirror
    <3>5. \A q \in Procs : job'[q].at = "close" => job'[q].by = "system"
      BY <3>2 DEF MarkedInv
    <3> QED BY <1>14, <3>3, <3>4, <3>5 DEF MarkedInv, Mirror
  <2> QED BY <2>1, <2>2
<1>15. ASSUME NEW p \in Procs, Close(p) PROVE MarkedInv'
  <2>1. Landed(p) /\ Rest(p) /\ job[p].at = "close"
    BY <1>15 DEF Close, MarkedInv, Landed, Collecting
  <2>2. trouble = "none" => \A q \in Procs \ {p} : ~Collecting(q) /\ ~Landed(q)
    BY <2>1 DEF MarkedInv, Landed
  <2>3. trouble = "none" => \A q \in Procs : ~Collecting(q)' /\ ~Landed(q)'
    BY <1>10, <2>1, <2>2
  <2>4. trouble = "none" /\ frozenBy = "system" => cfSuspended /\ Wanted(p)
    BY <2>1, <2>2 DEF MarkedInv
  <2>5. \A q \in Procs : job'[q].at = "close" => job'[q].by = "system"
    BY <1>10, <2>1 DEF MarkedInv
  <2>6. marker' = Wanted(p) /\ frozenBy' = frozenBy /\ cfSuspended' = cfSuspended /\ trouble' = trouble
    BY <1>15 DEF Close
  <2> QED BY <2>3, <2>4, <2>5, <2>6 DEF MarkedInv
<1>16. ASSUME NEW p \in Procs, Stop(p) PROVE MarkedInv'
  <2>1. Rest(p) /\ frozenBy' = frozenBy /\ cfSuspended' = cfSuspended /\ marker' = marker
    BY <1>16 DEF Stop
  <2>2. trouble' = "none" => trouble = "none" /\ ~At(p, "write") /\ (Wanted(p) => ~Landed(p))
    BY <1>16 DEF Stop, Landed
  <2>3. \A q \in Procs : job'[q].at = "close" => job'[q].by = "system"
    BY <1>10, <2>1 DEF MarkedInv
  <2>4. \A q \in Procs \ {p} : job'[q] = job[q]
    BY <1>10, <2>1
  <2> QED BY <1>10, <2>1, <2>2, <2>3, <2>4 DEF MarkedInv
<1> QED
  BY <1>1, <1>2, <1>3, <1>4, <1>5, <1>6, <1>7, <1>11, <1>12, <1>13, <1>14, <1>15, <1>16
  DEF SuspensionNext, Work

\* An access the collection froze carries the marker, unless a call of it was
\* cut off, two of them overlapped, or an answer was lost.
THEOREM AutomaticIsMarkedAlways == SuspensionSpec => []AutomaticIsMarked
<1>1. ASSUME SuspensionInit PROVE MarkedInv
  <2>1. \A p \in Procs : job[p].at = "idle"
    BY <1>1 DEF SuspensionInit, Idle
  <2> QED BY <1>1, <2>1 DEF SuspensionInit, MarkedInv, Collecting, Landed
<1>2. MarkedInv => AutomaticIsMarked
  BY DEF MarkedInv, AutomaticIsMarked, Landed
<1> QED BY <1>1, <1>2, SuspensionTypeCorrect, ColumnInvAlways, MarkedStep, PTL DEF SuspensionSpec
=============================================================================
