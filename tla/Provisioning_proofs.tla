------------------------- MODULE Provisioning_proofs -------------------------
(***************************************************************************)
(* Proofs about Provisioning and Enrolling, for any number of workers,     *)
(* pages, rows, tries and retries: a row in hand stays out of the queue,   *)
(* so that one worker at a time executes it, and its status never says     *)
(* more than was recorded; spelling a call to ClickFunnels out step by     *)
(* step adds nothing to that, a second enrollment means a lost one, and a  *)
(* second ClickFunnels contact means two creations at once.                *)
(***************************************************************************)
EXTENDS Enrolling, TLAPS

\* A row in a worker's hands is in progress, unless staff cancelled it meanwhile.
HeldIsTaken == \A w \in Workers : holds[w] # 0 => status[holds[w]] \in {"IN_PROGRESS", "CANCELLED"}

\* A worker's row has its SUCCESS attempt exactly when this worker wrote it.
GrantIsMine ==
  \A w \in Workers : holds[w] # 0 =>
    /\ result[w] = "ok" => enrolled[holds[w]]
    /\ granted[holds[w]] <=> (noted[w] /\ result[w] = "ok")

GrantIsReal == \A r \in Requests : granted[r] => enrolled[r]

Inv ==
  /\ ProvisioningTypeOK /\ HeldIsTaken /\ GrantIsMine /\ GrantIsReal
  /\ ClaimIsExclusive /\ GrantedIsNotQueued /\ CompletedMeansEnrolled

LEMMA ZeroIsNoRequest == 0 \notin Requests
  BY ProvisioningAssumption DEF Requests

LEMMA BoundsAreNat == MaxTries \in Nat /\ MaxRetries \in Nat /\ 0 \in 0..MaxTries /\ 0 \in 0..MaxRetries
  BY ProvisioningAssumption DEF ProvisioningAssumption

LEMMA TriesAreNat == ProvisioningTypeOK => \A r \in Requests : tries[r] \in Nat
<1>1. ProvisioningTypeOK => tries \in [Requests -> 0..MaxTries]
  BY DEF ProvisioningTypeOK
<1> QED BY <1>1

LEMMA ProvisioningInit == Init => Inv
<1> SUFFICES ASSUME Init PROVE Inv
  OBVIOUS
<1>1. ProvisioningTypeOK
  <2>1. status \in [Requests -> Statuses \cup {"NONE"}] /\ tries \in [Requests -> 0..MaxTries]
    BY BoundsAreNat DEF Init
  <2>2. granted \in [Requests -> BOOLEAN] /\ enrolled \in [Requests -> BOOLEAN]
    BY DEF Init
  <2>3. retries \in 0..MaxRetries /\ selected \subseteq Requests
    BY BoundsAreNat DEF Init
  <2>4. \A w \in Workers : holds[w] = 0 /\ result[w] = "" /\ noted[w] = FALSE
    BY DEF Init
  <2>5. /\ holds \in [Workers -> Requests \cup {0}]
        /\ result \in [Workers -> Results \cup {""}]
        /\ noted \in [Workers -> BOOLEAN]
    BY DEF Init
  <2> QED BY <2>1, <2>2, <2>3, <2>4, <2>5 DEF ProvisioningTypeOK
<1>2. HeldIsTaken /\ GrantIsMine /\ ClaimIsExclusive
  BY DEF Init, HeldIsTaken, GrantIsMine, ClaimIsExclusive
<1>3. GrantIsReal /\ GrantedIsNotQueued /\ CompletedMeansEnrolled
  BY DEF Init, GrantIsReal, GrantedIsNotQueued, CompletedMeansEnrolled
<1> QED BY <1>1, <1>2, <1>3 DEF Inv

-----------------------------------------------------------------------------
\* What the steps share

LEMMA ReleaseFacts ==
  ASSUME ProvisioningTypeOK, NEW w \in Workers, Release(w)
  PROVE  /\ holds' \in [Workers -> Requests \cup {0}]
         /\ result' \in [Workers -> Results \cup {""}]
         /\ noted' \in [Workers -> BOOLEAN]
         /\ holds'[w] = 0 /\ result'[w] = "" /\ noted'[w] = FALSE
         /\ \A x \in Workers \ {w} : holds'[x] = holds[x] /\ result'[x] = result[x] /\ noted'[x] = noted[x]
  BY DEF ProvisioningTypeOK, Release

\* Letting a row go with a status that tells the truth about it.
LEMMA ReleaseStep ==
  ASSUME Inv, NEW w \in Workers, holds[w] # 0, Release(w),
         NEW st \in Statuses,
         \/ status' = status
         \/ status' = [status EXCEPT ![holds[w]] = st],
         granted[holds[w]] => st = "COMPLETED",
         st = "COMPLETED" => granted[holds[w]]
  PROVE  Inv'
<1> DEFINE r == holds[w]
<1>1. r \in Requests
  BY DEF Inv, ProvisioningTypeOK
<1>2. /\ status' \in [Requests -> Statuses \cup {"NONE"}]
      /\ status'[r] \in {status[r], st}
      /\ \A q \in Requests \ {r} : status'[q] = status[q]
  BY <1>1 DEF Inv, ProvisioningTypeOK
<1>3. \A x \in Workers \ {w} : holds[x] # 0 => holds[x] # r
  BY DEF Inv, ClaimIsExclusive
<1>4. UNCHANGED <<tries, granted, enrolled, selected, retries>>
  BY DEF Release
<1> DEFINE Rest(x) == holds'[x] = holds[x] /\ result'[x] = result[x] /\ noted'[x] = noted[x]
<1>5. /\ holds' \in [Workers -> Requests \cup {0}]
      /\ result' \in [Workers -> Results \cup {""}]
      /\ noted' \in [Workers -> BOOLEAN]
      /\ holds'[w] = 0 /\ result'[w] = "" /\ noted'[w] = FALSE
      /\ \A x \in Workers \ {w} : Rest(x)
  BY ReleaseFacts DEF Inv
<1>6. ProvisioningTypeOK'
  <2>1. \A x \in Workers : (noted'[x] => result'[x] # "") /\ (result'[x] # "" => holds'[x] # 0)
    BY <1>5 DEF Inv, ProvisioningTypeOK
  <2> QED BY <1>2, <1>4, <1>5, <2>1 DEF Inv, ProvisioningTypeOK
<1>7. HeldIsTaken'
  <2> SUFFICES ASSUME NEW x \in Workers, holds'[x] # 0
               PROVE  status'[holds'[x]] \in {"IN_PROGRESS", "CANCELLED"}
    BY DEF HeldIsTaken
  <2>1. x # w /\ holds'[x] = holds[x]
    BY <1>5
  <2>2. holds[x] \in Requests \ {r}
    BY <1>3, <2>1 DEF Inv, ProvisioningTypeOK
  <2>3. status'[holds[x]] = status[holds[x]]
    BY <1>2, <2>2
  <2> QED BY <2>1, <2>3 DEF Inv, HeldIsTaken
<1>8. GrantIsMine'
  BY <1>4, <1>5 DEF Inv, GrantIsMine
<1>9. ClaimIsExclusive'
  <2>1. \A x, y \in Workers : holds[x] = holds[y] /\ holds[x] # 0 => x = y
    BY DEF Inv, ClaimIsExclusive
  <2> SUFFICES ASSUME NEW x \in Workers, NEW y \in Workers, holds'[x] = holds'[y], holds'[x] # 0
               PROVE  x = y
    BY DEF ClaimIsExclusive
  <2>2. x # w /\ y # w
    BY <1>5
  <2>3. holds'[x] = holds[x] /\ holds'[y] = holds[y]
    BY <1>5, <2>2
  <2> QED BY <2>1, <2>3
<1>10. GrantIsReal' /\ GrantedIsNotQueued' /\ CompletedMeansEnrolled'
  BY <1>1, <1>2, <1>4 DEF Inv, GrantIsReal, GrantedIsNotQueued, CompletedMeansEnrolled
<1> QED BY <1>6, <1>7, <1>8, <1>9, <1>10 DEF Inv

\* Staff and payments change the status of a row and nothing a worker has.
LEMMA StatusStep ==
  ASSUME Inv, NEW r \in Requests, NEW st \in Statuses \ {"COMPLETED"},
         status' = [status EXCEPT ![r] = st],
         ProvisioningTypeOK', UNCHANGED <<granted, enrolled, holds, result, noted>>,
         st = "CANCELLED" \/ status[r] \notin {"IN_PROGRESS", "COMPLETED", "CANCELLED"}
  PROVE  Inv'
<1>1. \A q \in Requests : status'[q] = IF q = r THEN st ELSE status[q]
  BY DEF Inv, ProvisioningTypeOK
<1>2. HeldIsTaken'
  <2>1. \A w \in Workers : holds[w] # 0 => holds[w] \in Requests
    BY DEF Inv, ProvisioningTypeOK
  <2>2. \A w \in Workers : holds[w] = r => st = "CANCELLED"
    BY ZeroIsNoRequest DEF Inv, HeldIsTaken
  <2> QED BY <1>1, <2>1, <2>2 DEF Inv, HeldIsTaken
<1>3. GrantIsMine' /\ GrantIsReal' /\ ClaimIsExclusive'
  BY DEF Inv, GrantIsMine, GrantIsReal, ClaimIsExclusive
<1>4. GrantedIsNotQueued' /\ CompletedMeansEnrolled'
  BY <1>1 DEF Inv, GrantedIsNotQueued, CompletedMeansEnrolled
<1> QED BY <1>2, <1>3, <1>4 DEF Inv

-----------------------------------------------------------------------------
\* One lemma per kind of step

LEMMA StaffSteps ==
  ASSUME Inv, NEW r \in Requests, CreateRequest(r) \/ Retry(r) \/ SelectCancel(r) \/ Cancel(r)
  PROVE  Inv'
<1>1. CASE CreateRequest(r)
  <2>1. ProvisioningTypeOK'
    BY <1>1 DEF CreateRequest, Inv, ProvisioningTypeOK, Statuses
  <2> QED BY <1>1, <2>1, StatusStep DEF CreateRequest, Statuses
<1>2. CASE Retry(r)
  <2>1. retries' \in 0..MaxRetries /\ 0 \in 0..MaxTries
    <3>1. retries \in 0..MaxRetries
      BY DEF Inv, ProvisioningTypeOK
    <3> QED BY <1>2, <3>1, BoundsAreNat DEF Retry
  <2>2. ProvisioningTypeOK'
    BY <1>2, <2>1 DEF Retry, Inv, ProvisioningTypeOK, Statuses
  <2> QED BY <1>2, <2>2, StatusStep DEF Retry, Statuses
<1>3. CASE SelectCancel(r)
  <2>1. ProvisioningTypeOK'
    BY <1>3 DEF SelectCancel, Inv, ProvisioningTypeOK
  <2> QED
    BY <1>3, <2>1
    DEF SelectCancel, Inv, HeldIsTaken, GrantIsMine, GrantIsReal, ClaimIsExclusive,
        GrantedIsNotQueued, CompletedMeansEnrolled
<1>4. CASE Cancel(r)
  <2>1. ProvisioningTypeOK'
    BY <1>4 DEF Cancel, Inv, ProvisioningTypeOK, Statuses
  <2> QED BY <1>4, <2>1, StatusStep DEF Cancel, Statuses
<1> QED BY <1>1, <1>2, <1>3, <1>4

LEMMA ClaimStep ==
  ASSUME Inv, NEW w \in Workers, NEW r \in Requests, Claim(w, r)
  PROVE  Inv'
<1>1. CASE tries[r] >= MaxTries
  <2>1. ProvisioningTypeOK'
    BY <1>1 DEF Claim, Inv, ProvisioningTypeOK, Statuses
  <2> QED BY <1>1, <2>1, StatusStep DEF Claim, Claimable, Statuses
<1>2. CASE tries[r] < MaxTries
  <2>1. /\ status[r] \in {"PENDING", "FAILED"} /\ holds[w] = 0 /\ r # 0
        /\ status' = [status EXCEPT ![r] = "IN_PROGRESS"]
        /\ tries' = [tries EXCEPT ![r] = @ + 1]
        /\ holds' = [holds EXCEPT ![w] = r]
        /\ UNCHANGED <<granted, enrolled, result, noted, selected, retries>>
    <3>1. tries[r] \in Nat
      BY TriesAreNat DEF Inv
    <3>2. ~(tries[r] >= MaxTries)
      BY <1>2, <3>1, BoundsAreNat
    <3> QED BY <3>2, ZeroIsNoRequest DEF Claim, Claimable
  <2>2. tries' \in [Requests -> 0..MaxTries]
    <3>1. tries \in [Requests -> 0..MaxTries]
      BY DEF Inv, ProvisioningTypeOK
    <3>2. tries[r] + 1 \in 0..MaxTries
      BY <1>2, <3>1, BoundsAreNat
    <3> QED BY <2>1, <3>1, <3>2
  <2>3. \A q \in Requests : status'[q] = IF q = r THEN "IN_PROGRESS" ELSE status[q]
    BY <2>1 DEF Inv, ProvisioningTypeOK
  <2>4. \A x \in Workers : holds'[x] = IF x = w THEN r ELSE holds[x]
    BY <2>1 DEF Inv, ProvisioningTypeOK
  <2>5. \A x \in Workers : holds[x] # r
    BY <2>1 DEF Inv, HeldIsTaken
  <2>6. result[w] = "" /\ noted[w] = FALSE /\ granted[r] = FALSE
    BY <2>1 DEF Inv, ProvisioningTypeOK, GrantedIsNotQueued
  <2>7. ProvisioningTypeOK'
    <3>1. \A x \in Workers : (noted'[x] => result'[x] # "") /\ (result'[x] # "" => holds'[x] # 0)
      BY <2>1, <2>4 DEF Inv, ProvisioningTypeOK
    <3>2. /\ status' \in [Requests -> Statuses \cup {"NONE"}]
          /\ holds' \in [Workers -> Requests \cup {0}]
      BY <2>1 DEF Inv, ProvisioningTypeOK, Statuses
    <3> QED BY <2>1, <2>2, <3>1, <3>2 DEF Inv, ProvisioningTypeOK
  <2>8. HeldIsTaken'
    <3> SUFFICES ASSUME NEW x \in Workers, holds'[x] # 0
                 PROVE  status'[holds'[x]] \in {"IN_PROGRESS", "CANCELLED"}
      BY DEF HeldIsTaken
    <3>1. CASE x = w
      BY <2>3, <2>4, <3>1
    <3>2. CASE x # w
      <4>1. holds'[x] = holds[x] /\ holds[x] \in Requests /\ holds[x] # r
        BY <2>4, <2>5, <3>2 DEF Inv, ProvisioningTypeOK
      <4>2. status'[holds[x]] = status[holds[x]]
        BY <2>3, <4>1
      <4> QED BY <4>1, <4>2 DEF Inv, HeldIsTaken
    <3> QED BY <3>1, <3>2
  <2>9. GrantIsMine'
    BY <2>1, <2>4, <2>6 DEF Inv, GrantIsMine
  <2>10. ClaimIsExclusive'
    <3> SUFFICES ASSUME NEW x \in Workers, NEW y \in Workers, holds'[x] = holds'[y], holds'[x] # 0
                 PROVE  x = y
      BY DEF ClaimIsExclusive
    <3> QED BY <2>4, <2>5 DEF Inv, ClaimIsExclusive
  <2>11. GrantIsReal' /\ GrantedIsNotQueued' /\ CompletedMeansEnrolled'
    BY <2>1, <2>3 DEF Inv, GrantIsReal, GrantedIsNotQueued, CompletedMeansEnrolled
  <2> QED BY <2>7, <2>8, <2>9, <2>10, <2>11 DEF Inv
<1>3. tries[r] \in Nat
  BY TriesAreNat DEF Inv
<1> QED BY <1>1, <1>2, <1>3, BoundsAreNat

LEMMA EnrollStep ==
  ASSUME Inv, NEW w \in Workers, NEW end \in Results, NEW carried \in BOOLEAN, Enroll(w, end, carried)
  PROVE  Inv'
<1> DEFINE r == holds[w]
<1>1. /\ r \in Requests /\ result[w] = "" /\ noted[w] = FALSE /\ granted[r] = FALSE
      /\ result' = [result EXCEPT ![w] = end]
      /\ enrolled' = [enrolled EXCEPT ![r] = enrolled[r] \/ carried]
      /\ end = "ok" => carried
      /\ end # ""
      /\ UNCHANGED <<status, tries, granted, holds, noted, selected, retries>>
  <2>1. r \in Requests /\ result[w] = ""
    BY DEF Enroll, Inv, ProvisioningTypeOK
  <2>2. noted[w] = FALSE /\ granted[r] = FALSE
    <3>1. noted[w] = FALSE /\ granted[r] \in BOOLEAN
      BY <2>1 DEF Inv, ProvisioningTypeOK
    <3> QED BY <2>1, <3>1, ZeroIsNoRequest DEF Inv, GrantIsMine
  <2> QED BY <2>1, <2>2 DEF Enroll, Results
<1>2. \A x \in Workers : result'[x] = IF x = w THEN end ELSE result[x]
  BY <1>1 DEF Inv, ProvisioningTypeOK
<1>3. /\ enrolled' \in [Requests -> BOOLEAN]
      /\ \A q \in Requests : enrolled[q] => enrolled'[q]
      /\ end = "ok" => enrolled'[r]
  BY <1>1 DEF Inv, ProvisioningTypeOK
<1>4. ProvisioningTypeOK'
  <2>1. \A x \in Workers : (noted'[x] => result'[x] # "") /\ (result'[x] # "" => holds'[x] # 0)
    BY <1>1, <1>2, ZeroIsNoRequest DEF Inv, ProvisioningTypeOK
  <2>2. result' \in [Workers -> Results \cup {""}]
    BY <1>1 DEF Inv, ProvisioningTypeOK
  <2> QED BY <1>1, <1>3, <2>1, <2>2 DEF Inv, ProvisioningTypeOK
<1>5. HeldIsTaken' /\ ClaimIsExclusive' /\ GrantedIsNotQueued'
  BY <1>1 DEF Inv, HeldIsTaken, ClaimIsExclusive, GrantedIsNotQueued
<1>6. GrantIsMine'
  <2> SUFFICES ASSUME NEW x \in Workers, holds[x] # 0
               PROVE  /\ result'[x] = "ok" => enrolled'[holds[x]]
                      /\ granted[holds[x]] <=> (noted[x] /\ result'[x] = "ok")
    BY <1>1 DEF GrantIsMine
  <2>1. CASE x = w
    BY <1>1, <1>2, <1>3, <2>1
  <2>2. CASE x # w
    <3>1. holds[x] \in Requests
      BY DEF Inv, ProvisioningTypeOK
    <3> QED BY <1>2, <1>3, <2>2, <3>1 DEF Inv, GrantIsMine
  <2> QED BY <2>1, <2>2
<1>7. GrantIsReal' /\ CompletedMeansEnrolled'
  BY <1>1, <1>3 DEF Inv, GrantIsReal, CompletedMeansEnrolled
<1> QED BY <1>4, <1>5, <1>6, <1>7 DEF Inv

LEMMA NoteStep ==
  ASSUME Inv, NEW w \in Workers, NoteAttempt(w)
  PROVE  Inv'
<1> DEFINE r == holds[w]
<1>1. /\ r \in Requests /\ result[w] # "" /\ noted[w] = FALSE /\ granted[r] = FALSE
      /\ noted' = [noted EXCEPT ![w] = TRUE]
      /\ granted' = [granted EXCEPT ![r] = (result[w] = "ok")]
      /\ UNCHANGED <<status, tries, enrolled, holds, result, selected, retries>>
  <2>1. r \in Requests /\ result[w] # "" /\ noted[w] = FALSE
    BY DEF NoteAttempt, Inv, ProvisioningTypeOK
  <2>2. granted[r] = FALSE
    <3>1. granted[r] \in BOOLEAN
      BY <2>1 DEF Inv, ProvisioningTypeOK
    <3> QED BY <2>1, <3>1, ZeroIsNoRequest DEF Inv, GrantIsMine
  <2>3. granted' = [granted EXCEPT ![r] = (result[w] = "ok")]
    BY <2>2 DEF NoteAttempt
  <2> QED BY <2>1, <2>2, <2>3 DEF NoteAttempt
<1>2. \A x \in Workers : noted'[x] = IF x = w THEN TRUE ELSE noted[x]
  BY <1>1 DEF Inv, ProvisioningTypeOK
<1>3. /\ granted' \in [Requests -> BOOLEAN]
      /\ \A q \in Requests : granted'[q] = IF q = r THEN (result[w] = "ok") ELSE granted[q]
  BY <1>1 DEF Inv, ProvisioningTypeOK
<1>4. status[r] \in {"IN_PROGRESS", "CANCELLED"}
  BY <1>1, ZeroIsNoRequest DEF Inv, HeldIsTaken
<1>5. ProvisioningTypeOK'
  <2>1. \A x \in Workers : (noted'[x] => result'[x] # "") /\ (result'[x] # "" => holds'[x] # 0)
    BY <1>1, <1>2 DEF Inv, ProvisioningTypeOK
  <2>2. noted' \in [Workers -> BOOLEAN]
    BY <1>1 DEF Inv, ProvisioningTypeOK
  <2> QED BY <1>1, <1>3, <2>1, <2>2 DEF Inv, ProvisioningTypeOK
<1>6. HeldIsTaken' /\ ClaimIsExclusive'
  BY <1>1 DEF Inv, HeldIsTaken, ClaimIsExclusive
<1>7. GrantIsMine'
  <2> SUFFICES ASSUME NEW x \in Workers, holds[x] # 0
               PROVE  /\ result[x] = "ok" => enrolled[holds[x]]
                      /\ granted'[holds[x]] <=> (noted'[x] /\ result[x] = "ok")
    BY <1>1 DEF GrantIsMine
  <2>1. CASE x = w
    BY <1>1, <1>2, <1>3, <2>1 DEF Inv, GrantIsMine
  <2>2. CASE x # w
    <3>1. holds[x] \in Requests \ {r}
      BY <2>2 DEF Inv, ProvisioningTypeOK, ClaimIsExclusive
    <3> QED BY <1>2, <1>3, <2>2, <3>1 DEF Inv, GrantIsMine
  <2> QED BY <2>1, <2>2
<1>8. GrantIsReal'
  <2>1. result[w] = "ok" => enrolled[r]
    BY <1>1, ZeroIsNoRequest DEF Inv, GrantIsMine
  <2> QED BY <1>1, <1>3, <2>1 DEF Inv, GrantIsReal
<1>9. GrantedIsNotQueued' /\ CompletedMeansEnrolled'
  BY <1>1, <1>3, <1>4, <1>8 DEF Inv, GrantedIsNotQueued, CompletedMeansEnrolled, GrantIsReal
<1> QED BY <1>5, <1>6, <1>7, <1>8, <1>9 DEF Inv

LEMMA LettingGo ==
  ASSUME Inv, NEW w \in Workers, Finish(w) \/ GiveUp(w) \/ Die(w)
  PROVE  Inv'
<1>1. CASE Finish(w)
  <2> DEFINE st == CASE result[w] = "ok" -> "COMPLETED"
                     [] result[w] = "broken" -> "MANUAL_REVIEW"
                     [] OTHER -> "FAILED"
  <2>1. noted[w] /\ result[w] \in Results /\ holds[w] # 0
    BY <1>1 DEF Finish, Inv, ProvisioningTypeOK
  <2>2. st \in Statuses /\ (st = "COMPLETED" <=> result[w] = "ok")
    BY <2>1 DEF Results, Statuses
  <2>3. granted[holds[w]] <=> result[w] = "ok"
    BY <2>1 DEF Inv, GrantIsMine
  <2>4. status' = status \/ status' = [status EXCEPT ![holds[w]] = st]
    BY <1>1 DEF Finish, SaveStatus
  <2>5. Release(w)
    BY <1>1 DEF Finish
  <2> HIDE DEF st
  <2> QED BY <2>1, <2>2, <2>3, <2>4, <2>5, ReleaseStep
<1>2. CASE GiveUp(w)
  <2>1. holds[w] # 0 /\ ~granted[holds[w]] /\ Release(w)
    BY <1>2 DEF GiveUp, Inv, GrantIsMine
  <2>2. status' = status \/ status' = [status EXCEPT ![holds[w]] = "MANUAL_REVIEW"]
    BY <1>2 DEF GiveUp, SaveStatus
  <2> QED BY <2>1, <2>2, ReleaseStep DEF Statuses
<1>3. CASE Die(w)
  <2>1. CASE granted[holds[w]]
    BY <1>3, <2>1, ReleaseStep DEF Die, Statuses
  <2>2. CASE ~granted[holds[w]]
    BY <1>3, <2>2, ReleaseStep DEF Die, Statuses
  <2> QED BY <2>1, <2>2
<1> QED BY <1>1, <1>2, <1>3

LEMMA ProvisioningStep == Inv /\ [Next]_vars => Inv'
<1> SUFFICES ASSUME Inv, [Next]_vars PROVE Inv'
  OBVIOUS
<1>1. CASE UNCHANGED vars
  BY <1>1
  DEF vars, Inv, ProvisioningTypeOK, HeldIsTaken, GrantIsMine, GrantIsReal, ClaimIsExclusive,
      GrantedIsNotQueued, CompletedMeansEnrolled
<1>2. ASSUME NEW w \in Workers, Execute(w) PROVE Inv'
  BY <1>2, EnrollStep, NoteStep, LettingGo DEF Execute
<1> QED BY <1>1, <1>2, StaffSteps, ClaimStep, LettingGo DEF Next

-----------------------------------------------------------------------------
\* The rows and the workers' hands keep their types (ProvisioningRequest,
\* ProvisioningService.execute), and the tries stay within their limit.
THEOREM ProvisioningTypeCorrect == Spec => []ProvisioningTypeOK
<1>1. Inv => ProvisioningTypeOK
  BY DEF Inv
<1> QED BY <1>1, ProvisioningInit, ProvisioningStep, PTL DEF Spec

\* No row is COMPLETED without a recorded, real enrollment, for any number of
\* workers that claim, die and save over what staff did (ProvisioningService.execute).
THEOREM CompletedMeansEnrolledAlways == Spec => []CompletedMeansEnrolled
<1>1. Inv => CompletedMeansEnrolled
  BY DEF Inv
<1> QED BY <1>1, ProvisioningInit, ProvisioningStep, PTL DEF Spec

\* The claim under the row's lock is all the exclusion execute() needs.
THEOREM ClaimIsExclusiveAlways == Spec => []ClaimIsExclusive
<1>1. Inv => ClaimIsExclusive
  BY DEF Inv
<1> QED BY <1>1, ProvisioningInit, ProvisioningStep, PTL DEF Spec

\* A row whose success is recorded is never queued again (execute, retry_request).
THEOREM GrantedIsNotQueuedAlways == Spec => []GrantedIsNotQueued
<1>1. Inv => GrantedIsNotQueued
  BY DEF Inv
<1> QED BY <1>1, ProvisioningInit, ProvisioningStep, PTL DEF Spec

-----------------------------------------------------------------------------
\* Enrolling: a call to ClickFunnels step by step

Calling == [at : Steps, saw : BOOLEAN]

LEMMA CallersDiffer == \A p \in Pages : p \notin Workers
  BY EnrollingAssumption DEF EnrollingAssumption

\* A worker starts its call, or finds that it needs none.
StartCall(c) ==
    /\ At(c, "")
    /\ c \in Workers => holds[c] # 0 /\ result[c] = "" /\ ~granted[holds[c]]
    /\ call' = [call EXCEPT ![c] = [at |-> "find", saw |-> known]]
    /\ UNCHANGED <<vars, known, contacts, landed, lost, overlapped>>

AlreadyEnrolled(w) ==
    /\ holds[w] # 0 /\ result[w] = "" /\ granted[holds[w]]
    /\ result' = [result EXCEPT ![w] = "ok"]
    /\ noted' = [noted EXCEPT ![w] = TRUE]
    /\ UNCHANGED <<status, tries, granted, enrolled, holds, selected, retries, remote>>

Going(c) ==
    \/ StartCall(c) \/ Find(c) \/ LinkContact(c)
    \/ \E arrives \in BOOLEAN : CreateContact(c, arrives) \/ Land(c, arrives)
    \/ \E stored \in BOOLEAN : Record(c, stored)
    \/ Fail(c, "down")

Working(w) ==
    \/ Going(w) \/ AlreadyEnrolled(w) \/ (At(w, "find") /\ Fail(w, "broken"))
    \/ (NoteAttempt(w) \/ Finish(w) \/ (At(w, "") /\ GiveUp(w))) /\ UNCHANGED remote

Moves ==
    \/ Buy
    \/ \E r \in Requests :
          Ordered(r) \/ ((Retry(r) \/ SelectCancel(r) \/ Cancel(r)) /\ UNCHANGED remote)
    \/ \E w \in Workers, r \in Requests : Claim(w, r) /\ UNCHANGED remote
    \/ \E w \in Workers : Working(w) \/ Stopped(w)
    \/ \E p \in Pages : Going(p) \/ Closed(p)

LEMMA BeginSplits ==
  ASSUME NEW c, Begin(c)
  PROVE  StartCall(c) \/ (c \in Workers /\ AlreadyEnrolled(c))
<1>1. CASE c \in Workers /\ granted[holds[c]]
  BY <1>1 DEF Begin, AlreadyEnrolled, remote
<1>2. CASE ~(c \in Workers /\ granted[holds[c]])
  BY <1>2 DEF Begin, StartCall, vars
<1> QED BY <1>1, <1>2

LEMMA NextMoves == EnrollingNext => Moves
<1>1. ASSUME NEW w \in Workers, Works(w) PROVE Working(w)
  BY <1>1, BeginSplits DEF Works, Calls, Working, Going
<1>2. ASSUME NEW p \in Pages, Calls(p) PROVE Going(p)
  BY <1>2, BeginSplits, CallersDiffer DEF Calls, Going
<1> QED BY <1>1, <1>2 DEF EnrollingNext, Moves

\* What a call does to the enrolled rows
LEMMA EnrolledByWorker ==
  ASSUME ProvisioningTypeOK, NEW w \in Workers, holds[w] \in Requests,
         enrolled' = [r \in Requests |-> enrolled[r] \/ r \in For(w)]
  PROVE  enrolled' = [enrolled EXCEPT ![holds[w]] = enrolled[holds[w]] \/ TRUE]
<1>1. enrolled \in [Requests -> BOOLEAN] /\ For(w) = {holds[w]}
  BY DEF ProvisioningTypeOK, For
<1>2. \A r \in Requests : enrolled'[r] = IF r = holds[w] THEN TRUE ELSE enrolled[r]
  BY <1>1
<1> QED BY <1>1, <1>2

LEMMA EnrolledByPage ==
  ASSUME ProvisioningTypeOK, NEW p \in Pages,
         enrolled' = [r \in Requests |-> enrolled[r] \/ r \in For(p)]
  PROVE  enrolled' = enrolled
<1>1. enrolled \in [Requests -> BOOLEAN] /\ For(p) = {}
  BY CallersDiffer DEF ProvisioningTypeOK, For
<1>2. \A r \in Requests : enrolled'[r] = enrolled[r]
  BY <1>1
<1> QED BY <1>1, <1>2

LEMMA NothingEnrolled ==
  ASSUME ProvisioningTypeOK, NEW r \in Requests
  PROVE  enrolled = [enrolled EXCEPT ![r] = enrolled[r] \/ FALSE]
<1>1. enrolled \in [Requests -> BOOLEAN]
  BY DEF ProvisioningTypeOK
<1> QED BY <1>1

-----------------------------------------------------------------------------
\* A worker's call, seen from Provisioning

\* A call is about a row in the worker's hands that has no result yet.
LEMMA CallerHolds ==
  ASSUME Inv, EnrollingTypeOK, NEW w \in Workers, call[w].at # ""
  PROVE  holds[w] \in Requests /\ result[w] = "" /\ ~granted[holds[w]]
<1>1. holds[w] # 0 /\ result[w] = ""
  BY DEF EnrollingTypeOK
<1>2. holds[w] \in Requests
  BY <1>1 DEF Inv, ProvisioningTypeOK
<1>3. ~granted[holds[w]]
  BY <1>1 DEF Inv, GrantIsMine
<1> QED BY <1>1, <1>2, <1>3

LEMMA CallEnds ==
  ASSUME Inv, EnrollingTypeOK, NEW w \in Workers, call[w].at # "", NEW end \in Results,
         Answer(w, end), end # "ok",
         UNCHANGED <<status, tries, granted, holds, noted, selected, retries>>,
         \/ UNCHANGED enrolled
         \/ end = "down" /\ enrolled' = [r \in Requests |-> enrolled[r] \/ r \in For(w)]
  PROVE  Next
<1>1. holds[w] \in Requests /\ result[w] = "" /\ ~granted[holds[w]] /\ holds[w] # 0
  BY CallerHolds, ZeroIsNoRequest
<1>2. result' = [result EXCEPT ![w] = end]
  BY DEF Answer
<1>3. CASE UNCHANGED enrolled
  <2>1. enrolled' = [enrolled EXCEPT ![holds[w]] = enrolled[holds[w]] \/ FALSE]
    BY <1>1, <1>3, NothingEnrolled DEF Inv
  <2>2. Enroll(w, end, FALSE)
    BY <1>1, <1>2, <2>1 DEF Enroll
  <2> QED BY <2>2 DEF Next, Execute
<1>4. CASE end = "down" /\ enrolled' = [r \in Requests |-> enrolled[r] \/ r \in For(w)]
  <2>1. enrolled' = [enrolled EXCEPT ![holds[w]] = enrolled[holds[w]] \/ TRUE]
    BY <1>1, <1>4, EnrolledByWorker DEF Inv
  <2>2. Enroll(w, end, TRUE)
    BY <1>1, <1>2, <1>4, <2>1 DEF Enroll
  <2> QED BY <2>2 DEF Next, Execute
<1> QED BY <1>3, <1>4

LEMMA RecordEnds ==
  ASSUME Inv, EnrollingTypeOK, NEW w \in Workers, Record(w, TRUE)
  PROVE  Next
<1>1. holds[w] \in Requests /\ result[w] = "" /\ ~granted[holds[w]] /\ holds[w] # 0
  BY CallerHolds, ZeroIsNoRequest DEF Record, At
<1>2. result' = [result EXCEPT ![w] = "ok"]
  BY DEF Record, Answer
<1>3. enrolled' = [enrolled EXCEPT ![holds[w]] = enrolled[holds[w]] \/ TRUE]
  BY <1>1, EnrolledByWorker DEF Inv, Record
<1>4. Enroll(w, "ok", TRUE)
  BY <1>1, <1>2, <1>3 DEF Enroll, Record
<1> QED BY <1>4 DEF Next, Execute, Results

\* A page's call changes nothing Provisioning knows of.
LEMMA PageStep ==
  ASSUME ProvisioningTypeOK, NEW p \in Pages, Going(p) \/ Closed(p)
  PROVE  UNCHANGED vars
<1>1. p \notin Workers
  BY CallersDiffer
<1>2. \A end : Answer(p, end) => UNCHANGED result
  BY <1>1 DEF Answer
<1>3. CASE StartCall(p) \/ Find(p) \/ Closed(p)
  BY <1>3 DEF StartCall, Find, Closed
<1>4. CASE LinkContact(p) \/ Fail(p, "down")
  BY <1>2, <1>4 DEF LinkContact, Fail, vars
<1>5. ASSUME NEW arrives \in BOOLEAN, CreateContact(p, arrives) PROVE UNCHANGED vars
  BY <1>2, <1>5 DEF CreateContact, vars
<1>6. ASSUME NEW arrives \in BOOLEAN, Land(p, arrives) PROVE UNCHANGED vars
  BY <1>2, <1>6, EnrolledByPage DEF Land, vars
<1>7. ASSUME NEW stored \in BOOLEAN, Record(p, stored) PROVE UNCHANGED vars
  BY <1>2, <1>7, EnrolledByPage DEF Record, vars
<1> QED BY <1>3, <1>4, <1>5, <1>6, <1>7 DEF Going

LEMMA WorkerStep ==
  ASSUME Inv, EnrollingTypeOK, NEW w \in Workers, Working(w) \/ Stopped(w)
  PROVE  [Next]_vars
<1> USE DEF Results, At
<1>1. CASE StartCall(w) \/ Find(w)
  BY <1>1 DEF StartCall, Find
<1>2. ASSUME NEW arrives \in BOOLEAN, CreateContact(w, arrives) PROVE [Next]_vars
  <2>1. CASE arrives
    BY <1>2, <2>1 DEF CreateContact, vars
  <2>2. CASE ~arrives
    BY <1>2, <2>2, CallEnds DEF CreateContact
  <2> QED BY <2>1, <2>2
<1>3. CASE LinkContact(w)
  <2>1. CASE known /\ ~call[w].saw
    BY <1>3, <2>1, CallEnds DEF LinkContact
  <2>2. CASE ~(known /\ ~call[w].saw)
    BY <1>3, <2>2 DEF LinkContact, vars
  <2> QED BY <2>1, <2>2
<1>4. ASSUME NEW arrives \in BOOLEAN, Land(w, arrives) PROVE [Next]_vars
  <2>1. CASE arrives
    BY <1>4, <2>1 DEF Land, vars
  <2>2. CASE ~arrives
    BY <1>4, <2>2, CallEnds DEF Land
  <2> QED BY <2>1, <2>2
<1>5. ASSUME NEW stored \in BOOLEAN, Record(w, stored) PROVE [Next]_vars
  <2>1. CASE stored
    BY <1>5, <2>1, RecordEnds
  <2>2. CASE ~stored
    BY <1>5, <2>2, CallEnds DEF Record
  <2> QED BY <2>1, <2>2
<1>6. CASE Fail(w, "down") \/ Fail(w, "broken")
  BY <1>6, CallEnds DEF Fail
<1>7. CASE AlreadyEnrolled(w)
  <2>1. Enroll(w, "ok", TRUE)
    BY <1>7 DEF AlreadyEnrolled, Enroll
  <2> QED BY <2>1 DEF Next, Execute
<1>8. CASE NoteAttempt(w) \/ Finish(w) \/ GiveUp(w)
  BY <1>8 DEF Next, Execute
<1>9. CASE Stopped(w)
  BY <1>9 DEF Stopped, Next
<1> QED BY <1>1, <1>2, <1>3, <1>4, <1>5, <1>6, <1>7, <1>8, <1>9 DEF Working, Going

LEMMA RefinementStep ==
  ASSUME Inv, EnrollingTypeOK, [EnrollingNext]_allVars
  PROVE  [Next]_vars
<1>1. CASE UNCHANGED allVars \/ Buy
  BY <1>1 DEF allVars, Buy
<1>2. ASSUME NEW r \in Requests, Ordered(r) \/ Retry(r) \/ SelectCancel(r) \/ Cancel(r)
      PROVE  [Next]_vars
  BY <1>2 DEF Ordered, Next
<1>3. ASSUME NEW w \in Workers, NEW r \in Requests, Claim(w, r) PROVE [Next]_vars
  BY <1>3 DEF Next
<1> QED BY <1>1, <1>2, <1>3, PageStep, WorkerStep, NextMoves DEF Moves, Inv

-----------------------------------------------------------------------------
\* The types of the calls

\* A caller moves on to a step it may be at.
LEMMA CallMoves ==
  ASSUME EnrollingTypeOK, NEW c \in Callers, NEW step \in Steps,
         Goto(c, step) \/ (step = "" /\ Hang(c))
  PROVE  /\ call' \in [Callers -> Calling]
         /\ call'[c].at = step
         /\ \A d \in Callers \ {c} : call'[d] = call[d]
<1>1. call \in [Callers -> Calling]
  BY DEF EnrollingTypeOK, Calling
<1>2. CASE Goto(c, step)
  <2>1. call' = [call EXCEPT ![c] = [call[c] EXCEPT !.at = step]]
    BY <1>2 DEF Goto
  <2>2. [call[c] EXCEPT !.at = step] \in Calling
    BY <1>1 DEF Calling
  <2>3. [call[c] EXCEPT !.at = step].at = step
    BY <1>1 DEF Calling
  <2> QED BY <1>1, <2>1, <2>2, <2>3
<1>3. CASE step = "" /\ Hang(c)
  <2>1. NoCall \in Calling /\ NoCall.at = ""
    BY DEF NoCall, Calling, Steps
  <2> QED BY <1>1, <1>3, <2>1 DEF Hang
<1> QED BY <1>2, <1>3

\* What the types ask of one step of one call.
CallGood(c) ==
  /\ call' \in [Callers -> Calling]
  /\ \A d \in Callers \ {c} : call'[d] = call[d]
  /\ call'[c].at \in {"link", "post", "record"} => contacts' > 0
  /\ c \in Workers /\ call'[c].at # "" => holds'[c] # 0 /\ result'[c] = ""

LEMMA CallTypeStep ==
  ASSUME EnrollingTypeOK, NEW c \in Callers, Going(c)
  PROVE  /\ CallGood(c)
         /\ contacts' \in 0..2 /\ contacts' >= contacts
         /\ holds' = holds
         /\ \A w \in Workers \ {c} : result'[w] = result[w]
<1> DEFINE Rest == /\ contacts' \in 0..2 /\ contacts' >= contacts
                   /\ holds' = holds
                   /\ \A w \in Workers \ {c} : result'[w] = result[w]
<1>1. contacts \in 0..2
  BY DEF EnrollingTypeOK
<1>2. More(contacts) \in 0..2 /\ More(contacts) >= contacts /\ More(contacts) > 0
  BY <1>1 DEF More
<1>3. \A end : Answer(c, end) => \A w \in Workers \ {c} : result'[w] = result[w]
  BY DEF Answer, EnrollingTypeOK, ProvisioningTypeOK
<1>4. c \in Workers /\ call[c].at # "" => holds[c] # 0 /\ result[c] = ""
  BY DEF EnrollingTypeOK
<1>5. call[c].at \in {"link", "post", "record"} => contacts > 0
  BY DEF EnrollingTypeOK
<1>6. ASSUME Hang(c) PROVE /\ call' \in [Callers -> Calling]
                           /\ call'[c].at = ""
                           /\ \A d \in Callers \ {c} : call'[d] = call[d]
  BY <1>6, CallMoves DEF Steps
<1>7. ASSUME NEW step \in Steps, Goto(c, step), call[c].at # "",
             step \in {"link", "post", "record"} => contacts' > 0,
             UNCHANGED <<holds, result>>
      PROVE  CallGood(c)
  BY <1>4, <1>7, CallMoves DEF CallGood
<1>8. ASSUME Hang(c) PROVE CallGood(c)
  BY <1>6, <1>8 DEF CallGood
<1>0. ASSUME UNCHANGED <<contacts, holds>>, \A w \in Workers \ {c} : result'[w] = result[w] PROVE Rest
  BY <1>0, <1>1
<1>9. CASE StartCall(c)
  <2>1. /\ call' \in [Callers -> Calling]
        /\ call'[c].at = "find"
        /\ \A d \in Callers \ {c} : call'[d] = call[d]
    <3>1. call \in [Callers -> Calling]
      BY DEF EnrollingTypeOK, Calling
    <3>2. [at |-> "find", saw |-> known] \in Calling
      BY DEF EnrollingTypeOK, Calling, Steps
    <3> QED BY <1>9, <3>1, <3>2 DEF StartCall
  <2>2. UNCHANGED <<holds, result, contacts>>
    BY <1>9 DEF StartCall, vars
  <2>3. c \in Workers => holds[c] # 0 /\ result[c] = ""
    BY <1>9 DEF StartCall
  <2>4. CallGood(c)
    BY <2>1, <2>2, <2>3 DEF CallGood
  <2> QED BY <1>0, <2>2, <2>4
<1>10. CASE Find(c)
  <2>1. UNCHANGED <<holds, result, contacts>>
    BY <1>10 DEF Find, vars
  <2>2. CallGood(c)
    <3>1. CASE contacts > 0
      BY <1>7, <1>10, <2>1, <3>1 DEF Find, At, Steps
    <3>2. CASE ~(contacts > 0)
      BY <1>7, <1>10, <2>1, <3>2 DEF Find, At, Steps
    <3> QED BY <3>1, <3>2
  <2> QED BY <1>0, <2>1, <2>2
<1>11. ASSUME NEW arrives \in BOOLEAN, CreateContact(c, arrives) PROVE CallGood(c) /\ Rest
  <2>1. CASE arrives
    BY <1>2, <1>7, <1>11, <2>1 DEF CreateContact, At, Steps
  <2>2. CASE ~arrives
    BY <1>2, <1>3, <1>8, <1>11, <2>2 DEF CreateContact
  <2> QED BY <2>1, <2>2
<1>12. CASE LinkContact(c)
  <2>1. CASE known /\ ~call[c].saw
    BY <1>1, <1>3, <1>8, <1>12, <2>1 DEF LinkContact
  <2>2. CASE ~(known /\ ~call[c].saw)
    <3>1. UNCHANGED <<holds, result, contacts>> /\ Goto(c, "post") /\ At(c, "link")
      BY <1>12, <2>2 DEF LinkContact
    <3>2. CallGood(c)
      BY <1>5, <1>7, <3>1 DEF At, Steps
    <3> QED BY <1>0, <3>1, <3>2
  <2> QED BY <2>1, <2>2
<1>13. ASSUME NEW arrives \in BOOLEAN, Land(c, arrives) PROVE CallGood(c) /\ Rest
  <2>1. CASE arrives
    BY <1>1, <1>5, <1>7, <1>13, <2>1 DEF Land, At, Steps
  <2>2. CASE ~arrives
    BY <1>1, <1>3, <1>8, <1>13, <2>2 DEF Land
  <2> QED BY <2>1, <2>2
<1>14. CASE Fail(c, "down") \/ \E stored \in BOOLEAN : Record(c, stored)
  BY <1>1, <1>3, <1>8, <1>14 DEF Record, Fail
<1> QED BY <1>9, <1>10, <1>11, <1>12, <1>13, <1>14 DEF Going

\* The other history variables
LEMMA HistoryTypeStep ==
  ASSUME EnrollingTypeOK, [EnrollingNext]_allVars
  PROVE  known' \in BOOLEAN /\ landed' \in [Requests -> 0..2] /\ lost' \subseteq Requests /\ overlapped' \in BOOLEAN
<1> DEFINE Good == known' \in BOOLEAN /\ landed' \in [Requests -> 0..2] /\ lost' \subseteq Requests /\ overlapped' \in BOOLEAN
<1>1. known \in BOOLEAN /\ landed \in [Requests -> 0..2] /\ lost \subseteq Requests /\ overlapped \in BOOLEAN
  BY DEF EnrollingTypeOK
<1>2. \A n \in 0..2 : More(n) \in 0..2
  BY DEF More
<1>3. \A c \in Callers : c \in Workers /\ (call[c].at # "" \/ result[c] # "") => For(c) \subseteq Requests
  BY DEF EnrollingTypeOK, ProvisioningTypeOK, For
<1>4. \A c \in Callers : c \notin Workers => For(c) = {}
  BY DEF For
<1>5. CASE UNCHANGED remote
  BY <1>1, <1>5 DEF remote
<1>6. ASSUME NEW c \in Callers, Going(c) PROVE Good
  <2>1. CASE StartCall(c)
    BY <1>1, <2>1 DEF StartCall
  <2>2. CASE Find(c)
    <3>1. Creating(c) \in BOOLEAN
      BY <1>1 DEF Creating
    <3> QED BY <1>1, <2>2, <3>1 DEF Find
  <2>3. CASE LinkContact(c)
    BY <1>1, <2>3 DEF LinkContact
  <2>4. CASE Fail(c, "down") \/ \E arrives \in BOOLEAN : CreateContact(c, arrives)
    BY <1>1, <2>4 DEF Fail, CreateContact
  <2>5. ASSUME NEW arrives \in BOOLEAN, Land(c, arrives) PROVE Good
    <3>1. landed' \in [Requests -> 0..2]
      BY <1>1, <1>2, <2>5 DEF Land
    <3>2. lost' \subseteq Requests
      BY <1>1, <1>3, <1>4, <2>5 DEF Land, At
    <3> QED BY <1>1, <2>5, <3>1, <3>2 DEF Land
  <2>6. ASSUME NEW stored \in BOOLEAN, Record(c, stored) PROVE Good
    <3>1. lost' \subseteq Requests
      BY <1>1, <1>3, <1>4, <2>6 DEF Record, At
    <3> QED BY <1>1, <2>6, <3>1 DEF Record
  <2> QED BY <1>6, <2>1, <2>2, <2>3, <2>4, <2>5, <2>6 DEF Going
<1>7. CASE Buy
  BY <1>1, <1>7 DEF Buy
<1>8. ASSUME NEW w \in Workers, Working(w) PROVE Good
  <2>1. CASE AlreadyEnrolled(w) \/ UNCHANGED remote
    BY <1>5, <2>1 DEF AlreadyEnrolled
  <2>2. CASE Fail(w, "broken")
    BY <1>1, <2>2 DEF Fail
  <2> QED BY <1>6, <1>8, <2>1, <2>2 DEF Working, Callers
<1>9. ASSUME NEW w \in Workers, Stopped(w) PROVE Good
  <2>1. Unrecorded(w) \subseteq Requests
    BY <1>3 DEF Unrecorded, At, Callers
  <2> QED BY <1>1, <1>9, <2>1 DEF Stopped
<1>10. ASSUME NEW p \in Pages, Closed(p) PROVE Good
  BY <1>1, <1>10 DEF Closed
<1>11. CASE UNCHANGED allVars
  BY <1>5, <1>11 DEF allVars
<1> QED BY <1>5, <1>6, <1>7, <1>8, <1>9, <1>10, <1>11, NextMoves DEF Moves, Ordered, Callers

\* What they ask of the calls together, after a step.
CallsGood ==
  /\ contacts' \in 0..2
  /\ call' \in [Callers -> Calling]
  /\ \A c \in Callers : call'[c].at \in {"link", "post", "record"} => contacts' > 0
  /\ \A w \in Workers : call'[w].at # "" => holds'[w] # 0 /\ result'[w] = ""

LEMMA EnrollingTypeStep ==
  ASSUME Inv, EnrollingTypeOK, [EnrollingNext]_allVars
  PROVE  EnrollingTypeOK'
<1>1. ProvisioningTypeOK'
  BY RefinementStep, ProvisioningStep DEF Inv
<1>2. /\ contacts \in 0..2
      /\ call \in [Callers -> Calling]
      /\ \A c \in Callers : call[c].at \in {"link", "post", "record"} => contacts > 0
      /\ \A w \in Workers : call[w].at # "" => holds[w] # 0 /\ result[w] = ""
      /\ \A w \in Workers : holds[w] = 0 => result[w] = ""
  BY DEF EnrollingTypeOK, ProvisioningTypeOK, Calling
<1>3. ASSUME NEW c \in Callers, CallGood(c), contacts' \in 0..2, contacts' >= contacts, holds' = holds,
             \A w \in Workers \ {c} : result'[w] = result[w]
      PROVE  CallsGood
  <2>1. \A d \in Callers : call'[d].at \in {"link", "post", "record"} => contacts' > 0
    <3> SUFFICES ASSUME NEW d \in Callers, d # c, call[d].at \in {"link", "post", "record"}
                 PROVE  contacts' > 0
      BY <1>3 DEF CallGood
    <3>1. contacts \in 0..2 /\ contacts > 0
      BY <1>2
    <3>2. contacts' \in 0..2 /\ contacts' >= contacts
      BY <1>3
    <3> QED BY <3>1, <3>2
  <2>2. \A w \in Workers : call'[w].at # "" => holds'[w] # 0 /\ result'[w] = ""
    BY <1>2, <1>3 DEF CallGood, Callers
  <2> QED BY <1>3, <2>1, <2>2 DEF CallGood, CallsGood
<1>4. ASSUME NEW c \in Callers, Going(c) PROVE CallsGood
  BY <1>3, <1>4, CallTypeStep
<1>5. ASSUME NEW c \in Callers, Hang(c), UNCHANGED contacts,
             \A w \in Workers \ {c} : holds'[w] = holds[w] /\ result'[w] = result[w]
      PROVE  CallsGood
  <2>1. /\ call' \in [Callers -> Calling]
        /\ call'[c].at = ""
        /\ \A d \in Callers \ {c} : call'[d] = call[d]
    BY <1>5, CallMoves DEF Steps
  <2> QED BY <1>2, <1>5, <2>1 DEF Callers, CallsGood
<1>6. ASSUME contacts' = contacts, call' = call,
             \A w \in Workers : call[w].at = "" \/ (holds'[w] = holds[w] /\ result'[w] = result[w])
      PROVE  CallsGood
  BY <1>2, <1>6 DEF CallsGood
<1>7. ASSUME NEW w \in Workers, Working(w) PROVE CallsGood
  <2>1. CASE AlreadyEnrolled(w)
    <3>1. call[w].at = "" \/ result[w] # ""
      BY <1>2, <2>1, CallerHolds DEF AlreadyEnrolled
    <3>2. \A x \in Workers \ {w} : result'[x] = result[x]
      BY <1>7, <2>1 DEF AlreadyEnrolled, EnrollingTypeOK, ProvisioningTypeOK
    <3> QED BY <1>2, <1>6, <2>1, <3>1, <3>2 DEF AlreadyEnrolled, remote
  <2>2. CASE Fail(w, "broken")
    <3>1. \A x \in Workers \ {w} : holds'[x] = holds[x] /\ result'[x] = result[x]
      BY <2>2 DEF Fail, Answer, EnrollingTypeOK, ProvisioningTypeOK
    <3> QED BY <1>5, <2>2, <3>1 DEF Fail, Callers
  <2>3. CASE NoteAttempt(w) /\ UNCHANGED remote
    BY <1>6, <2>3 DEF NoteAttempt, remote
  <2>4. CASE (Finish(w) \/ (At(w, "") /\ GiveUp(w))) /\ UNCHANGED remote
    <3>1. call[w].at = ""
      <4>1. noted[w] => result[w] # ""
        BY DEF EnrollingTypeOK, ProvisioningTypeOK
      <4> QED BY <1>2, <2>4, <4>1 DEF Finish, At
    <3>2. Release(w)
      BY <2>4 DEF Finish, GiveUp
    <3>3. \A x \in Workers \ {w} : holds'[x] = holds[x] /\ result'[x] = result[x]
      BY <3>2, ReleaseFacts DEF Inv
    <3> QED BY <1>6, <2>4, <3>1, <3>3 DEF remote
  <2> QED BY <1>4, <1>7, <2>1, <2>2, <2>3, <2>4 DEF Working, Callers
<1>8. ASSUME NEW w \in Workers, Stopped(w) PROVE CallsGood
  <2>1. Release(w)
    BY <1>8 DEF Stopped, Die
  <2>2. \A x \in Workers \ {w} : holds'[x] = holds[x] /\ result'[x] = result[x]
    BY <2>1, ReleaseFacts DEF Inv
  <2> QED BY <1>5, <1>8, <2>2 DEF Stopped, Callers
<1>9. ASSUME NEW p \in Pages, Closed(p) PROVE CallsGood
  BY <1>5, <1>9 DEF Closed, vars, Callers
<1>10. ASSUME NEW w \in Workers, NEW r \in Requests, Claim(w, r), UNCHANGED remote PROVE CallsGood
  <2>1. call[w].at = ""
    BY <1>2, <1>10 DEF Claim
  <2>2. \A x \in Workers \ {w} : holds'[x] = holds[x] /\ result'[x] = result[x]
    BY <1>10 DEF Claim, EnrollingTypeOK, ProvisioningTypeOK
  <2> QED BY <1>6, <1>10, <2>1, <2>2 DEF remote
<1>11. ASSUME NEW r \in Requests,
              Ordered(r) \/ ((Retry(r) \/ SelectCancel(r) \/ Cancel(r)) /\ UNCHANGED remote)
       PROVE  CallsGood
  BY <1>6, <1>11 DEF Ordered, CreateRequest, Retry, SelectCancel, Cancel, remote
<1>12. ASSUME Buy \/ UNCHANGED allVars PROVE CallsGood
  <2>1. contacts' = contacts /\ call' = call /\ holds' = holds /\ result' = result
    BY <1>12 DEF Buy, allVars, vars, remote
  <2>2. \A w \in Workers : holds'[w] = holds[w] /\ result'[w] = result[w]
    BY <2>1
  <2> QED BY <1>6, <2>1, <2>2
<1>13. CallsGood
  <2>1. ASSUME NEW r \in Requests,
               Ordered(r) \/ ((Retry(r) \/ SelectCancel(r) \/ Cancel(r)) /\ UNCHANGED remote)
        PROVE  CallsGood
    BY <1>11, <2>1
  <2>2. ASSUME NEW w \in Workers, NEW r \in Requests, Claim(w, r) /\ UNCHANGED remote PROVE CallsGood
    BY <1>10, <2>2
  <2>3. ASSUME NEW w \in Workers, Working(w) \/ Stopped(w) PROVE CallsGood
    BY <1>7, <1>8, <2>3
  <2>4. ASSUME NEW p \in Pages, Going(p) \/ Closed(p) PROVE CallsGood
    BY <1>4, <1>9, <2>4 DEF Callers
  <2>5. EnrollingNext => CallsGood
    BY <1>12, <2>1, <2>2, <2>3, <2>4, NextMoves DEF Moves
  <2> QED BY <1>12, <2>5
<1> QED BY <1>1, <1>13, HistoryTypeStep DEF EnrollingTypeOK, Calling, CallsGood
LEMMA EnrollingStarts == EnrollingInit => Init /\ Inv /\ EnrollingTypeOK
<1> SUFFICES ASSUME EnrollingInit PROVE Init /\ Inv /\ EnrollingTypeOK
  OBVIOUS
<1>1. Init /\ Inv
  BY ProvisioningInit DEF EnrollingInit
<1>2. call \in [Callers -> Calling] /\ \A c \in Callers : call[c].at = ""
  BY DEF EnrollingInit, NoCall, Calling, Steps
<1>3. landed \in [Requests -> 0..2]
  BY DEF EnrollingInit
<1>4. ProvisioningTypeOK
  BY <1>1 DEF Inv
<1>5. EnrollingTypeOK
  <2>1. \A w \in Workers : call[w].at = ""
    BY <1>2 DEF Callers
  <2>2. contacts \in 0..2 /\ known \in BOOLEAN /\ overlapped \in BOOLEAN /\ lost \subseteq Requests
    <3>1. contacts = 0 /\ lost = {}
      BY DEF EnrollingInit
    <3>2. known = FALSE /\ overlapped = FALSE
      BY DEF EnrollingInit
    <3>3. known \in BOOLEAN /\ overlapped \in BOOLEAN
      BY <3>2, Zenon
    <3>4. contacts \in 0..2 /\ lost \subseteq Requests
      BY <3>1, SMT
    <3> QED BY <3>3, <3>4
  <2>3. \A c \in Callers : call[c].at \notin {"link", "post", "record"}
    BY <1>2
  <2> QED BY <1>2, <1>3, <1>4, <2>1, <2>2, <2>3 DEF EnrollingTypeOK, Calling
<1> QED BY <1>1, <1>5

-----------------------------------------------------------------------------
\* A second enrollment means a lost one

\* Whoever has enrolled for a row and not written it down yet
Carries(w, r) == holds[w] = r /\ (At(w, "record") \/ result[w] = "ok")

\* Every enrollment is recorded, in a worker's hands, or lost; and it is the only
\* one unless one was lost.
LandedIsHeld ==
  \A r \in Requests \ lost :
    /\ landed[r] <= 1
    /\ landed[r] > 0 => granted[r] \/ \E w \in Workers : Carries(w, r)

\* Steps that enroll nobody
LEMMA HeldStaysHeld ==
  ASSUME LandedIsHeld, landed' = landed, lost \subseteq lost',
         \A r \in Requests : granted[r] => granted'[r],
         \A w \in Workers, r \in Requests :
            Carries(w, r) => Carries(w, r)' \/ granted'[r] \/ r \in lost'
  PROVE  LandedIsHeld'
<1> SUFFICES ASSUME NEW r \in Requests, r \notin lost'
             PROVE  /\ landed[r] <= 1
                    /\ landed[r] > 0 => granted'[r] \/ \E w \in Workers : Carries(w, r)'
  BY DEF LandedIsHeld
<1>1. r \in Requests \ lost
  OBVIOUS
<1>2. landed[r] <= 1 /\ (landed[r] > 0 => granted[r] \/ \E w \in Workers : Carries(w, r))
  BY <1>1 DEF LandedIsHeld
<1> QED BY <1>2

\* Nobody but its worker carries a row's enrollment.
LEMMA OthersCarryOn ==
  ASSUME LandedIsHeld, landed' = landed, lost \subseteq lost', granted' = granted,
         NEW c \in Callers,
         \A w \in Workers \ {c} : call'[w] = call[w] /\ holds'[w] = holds[w] /\ result'[w] = result[w],
         c \in Workers => \A r \in Requests :
            Carries(c, r) => Carries(c, r)' \/ granted[r] \/ r \in lost'
  PROVE  LandedIsHeld'
<1>1. \A w \in Workers \ {c}, r \in Requests : Carries(w, r) => Carries(w, r)'
  BY DEF Carries, At
<1> QED BY <1>1, HeldStaysHeld

LEMMA LandingStep ==
  ASSUME Inv, EnrollingTypeOK, LandedIsHeld, NEW c \in Callers, NEW arrives \in BOOLEAN, Land(c, arrives)
  PROVE  LandedIsHeld'
<1>1. lost \subseteq lost' /\ granted' = granted /\ holds' = holds
  BY DEF Land
<1>2. call[c].at = "post" /\ (c \in Workers => ~(result[c] = "ok") /\ ~granted[holds[c]])
  BY CallerHolds DEF Land, At
<1>3. /\ \A d \in Callers \ {c} : call'[d] = call[d]
      /\ arrives => call'[c].at = "record"
  BY CallMoves DEF Land, Steps
<1>4. \A w \in Workers \ {c} : result'[w] = result[w]
  BY DEF Land, Answer, EnrollingTypeOK, ProvisioningTypeOK
<1>5. \A w \in Workers, r \in Requests : Carries(w, r) => w # c /\ Carries(w, r)'
  BY <1>1, <1>2, <1>3, <1>4 DEF Carries, At, Callers
<1> SUFFICES ASSUME NEW r \in Requests, r \notin lost'
             PROVE  /\ landed'[r] <= 1
                    /\ landed'[r] > 0 => granted'[r] \/ \E w \in Workers : Carries(w, r)'
  BY DEF LandedIsHeld
<1>6. landed[r] <= 1 /\ (landed[r] > 0 => granted[r] \/ \E w \in Workers : Carries(w, r))
  BY <1>1 DEF LandedIsHeld
<1>7. CASE r \notin For(c)
  <2>1. landed'[r] = landed[r]
    BY <1>7 DEF Land
  <2> QED BY <1>1, <1>5, <1>6, <2>1
<1>8. CASE r \in For(c)
  <2>1. c \in Workers /\ holds[c] = r /\ holds[c] # 0
    BY <1>8, ZeroIsNoRequest DEF For
  <2>2. arrives
    BY <1>8 DEF Land
  <2>3. Carries(c, r)'
    BY <1>1, <1>3, <2>1, <2>2 DEF Carries, At
  <2>4. \A w \in Workers : ~Carries(w, r)
    BY <1>5, <2>1 DEF Carries, Inv, ClaimIsExclusive
  <2>5. landed[r] = 0
    <3>1. ~(landed[r] > 0)
      BY <1>2, <1>6, <2>1, <2>4
    <3>2. landed[r] \in 0..2
      BY DEF EnrollingTypeOK
    <3> QED BY <3>1, <3>2
  <2>6. landed'[r] = 1
    BY <1>8, <2>5 DEF Land, More
  <2> QED BY <2>1, <2>3, <2>6
<1> QED BY <1>7, <1>8

LEMMA LandedCallStep ==
  ASSUME Inv, EnrollingTypeOK, LandedIsHeld, NEW c \in Callers, Going(c) \/ Fail(c, "broken")
  PROVE  LandedIsHeld'
<1>1. ASSUME landed' = landed, lost' = lost, granted' = granted, holds' = holds,
             call[c].at # "record",
             c \in Workers => result[c] # "ok",
             \A d \in Callers \ {c} : call'[d] = call[d],
             \A w \in Workers \ {c} : result'[w] = result[w]
      PROVE  LandedIsHeld'
  BY <1>1, OthersCarryOn DEF Carries, At, Callers
<1>2. c \in Workers /\ call[c].at # "" => result[c] = ""
  BY DEF EnrollingTypeOK
<1>3. \A end : Answer(c, end) => \A w \in Workers \ {c} : result'[w] = result[w]
  BY DEF Answer, EnrollingTypeOK, ProvisioningTypeOK
<1>4. \A step \in Steps : Goto(c, step) => \A d \in Callers \ {c} : call'[d] = call[d]
  BY CallMoves
<1>5. Hang(c) => \A d \in Callers \ {c} : call'[d] = call[d]
  BY CallMoves DEF Steps
<1>6. CASE StartCall(c)
  <2>1. \A d \in Callers \ {c} : call'[d] = call[d]
    BY <1>6 DEF StartCall, EnrollingTypeOK
  <2>2. call[c].at # "record" /\ (c \in Workers => result[c] # "ok")
    BY <1>6 DEF StartCall, At
  <2> QED BY <1>1, <1>6, <2>1, <2>2 DEF StartCall, vars
<1>7. CASE Find(c)
  <2>1. \A d \in Callers \ {c} : call'[d] = call[d]
    BY <1>4, <1>7 DEF Find, Steps
  <2>2. call[c].at # "record" /\ (c \in Workers => result[c] # "ok")
    BY <1>2, <1>7 DEF Find, At
  <2> QED BY <1>1, <1>7, <2>1, <2>2 DEF Find, vars
<1>8. ASSUME NEW arrives \in BOOLEAN, CreateContact(c, arrives) PROVE LandedIsHeld'
  <2>1. \A d \in Callers \ {c} : call'[d] = call[d]
    BY <1>4, <1>5, <1>8 DEF CreateContact, Steps
  <2>2. \A w \in Workers \ {c} : result'[w] = result[w]
    BY <1>3, <1>8 DEF CreateContact
  <2>3. call[c].at # "record" /\ (c \in Workers => result[c] # "ok")
    BY <1>2, <1>8 DEF CreateContact, At
  <2> QED BY <1>1, <1>8, <2>1, <2>2, <2>3 DEF CreateContact
<1>9. CASE LinkContact(c)
  <2>1. \A d \in Callers \ {c} : call'[d] = call[d]
    BY <1>4, <1>5, <1>9 DEF LinkContact, Steps
  <2>2. \A w \in Workers \ {c} : result'[w] = result[w]
    BY <1>3, <1>9 DEF LinkContact
  <2>3. call[c].at # "record" /\ (c \in Workers => result[c] # "ok")
    BY <1>2, <1>9 DEF LinkContact, At
  <2> QED BY <1>1, <1>9, <2>1, <2>2, <2>3 DEF LinkContact
<1>10. ASSUME NEW stored \in BOOLEAN, Record(c, stored) PROVE LandedIsHeld'
  <2>1. \A d \in Callers \ {c} : call'[d] = call[d]
    BY <1>5, <1>10 DEF Record
  <2>2. \A w \in Workers \ {c} : result'[w] = result[w]
    BY <1>3, <1>10 DEF Record
  <2>3. c \in Workers /\ stored => result'[c] = "ok"
    BY <1>10 DEF Record, Answer, EnrollingTypeOK, ProvisioningTypeOK
  <2>4. UNCHANGED <<landed, granted, holds>> /\ lost \subseteq lost' /\ (~stored => For(c) \subseteq lost')
    BY <1>10 DEF Record
  <2>5. c \in Workers => \A r \in Requests : Carries(c, r) => Carries(c, r)' \/ r \in lost'
    BY <2>3, <2>4 DEF Carries, For
  <2> QED BY <2>1, <2>2, <2>4, <2>5, OthersCarryOn DEF Callers
<1>11. CASE Fail(c, "down") \/ Fail(c, "broken")
  <2>1. \A d \in Callers \ {c} : call'[d] = call[d]
    BY <1>5, <1>11 DEF Fail
  <2>2. \A w \in Workers \ {c} : result'[w] = result[w]
    BY <1>3, <1>11 DEF Fail
  <2>3. call[c].at # "record" /\ (c \in Workers => result[c] # "ok")
    BY <1>2, <1>11 DEF Fail
  <2> QED BY <1>1, <1>11, <2>1, <2>2, <2>3 DEF Fail
<1> QED BY <1>6, <1>7, <1>8, <1>9, <1>10, <1>11, LandingStep DEF Going
LEMMA LandedStep == Inv /\ EnrollingTypeOK /\ LandedIsHeld /\ [EnrollingNext]_allVars => LandedIsHeld'
<1> SUFFICES ASSUME Inv, EnrollingTypeOK, LandedIsHeld, [EnrollingNext]_allVars
             PROVE  LandedIsHeld'
  OBVIOUS
<1>1. ASSUME landed' = landed, lost' = lost, granted' = granted,
             \A w \in Workers : call'[w] = call[w] /\ (holds[w] # 0 => holds'[w] = holds[w])
                                /\ (result[w] = "ok" => result'[w] = "ok")
      PROVE  LandedIsHeld'
  BY <1>1, HeldStaysHeld, ZeroIsNoRequest DEF Carries, At
<1>2. CASE Buy \/ UNCHANGED allVars
  <2>1. UNCHANGED <<landed, lost, granted, holds, result, call>>
    BY <1>2 DEF Buy, allVars, vars, remote
  <2> QED BY <1>1, <2>1
<1>3. ASSUME NEW r \in Requests,
             Ordered(r) \/ ((Retry(r) \/ SelectCancel(r) \/ Cancel(r)) /\ UNCHANGED remote)
      PROVE  LandedIsHeld'
  <2>1. UNCHANGED <<landed, lost, granted, holds, result, call>>
    BY <1>3 DEF Ordered, CreateRequest, Retry, SelectCancel, Cancel, remote
  <2> QED BY <1>1, <2>1
<1>4. ASSUME NEW w \in Workers, NEW r \in Requests, Claim(w, r), UNCHANGED remote PROVE LandedIsHeld'
  <2>1. UNCHANGED <<landed, lost, granted, result, call>>
    BY <1>4 DEF Claim, remote
  <2>2. \A x \in Workers : holds[x] # 0 => holds'[x] = holds[x]
    BY <1>4 DEF Claim, Inv, ProvisioningTypeOK
  <2> QED BY <1>1, <2>1, <2>2
<1>5. ASSUME NEW p \in Pages, Closed(p) PROVE LandedIsHeld'
  <2>1. UNCHANGED <<landed, lost, granted, result, holds>>
    BY <1>5 DEF Closed, vars
  <2>2. \A d \in Workers : call'[d] = call[d]
    BY <1>5, CallersDiffer, CallMoves DEF Closed, Callers, Steps
  <2> QED BY <1>1, <2>1, <2>2
<1>6. ASSUME NEW w \in Workers, AlreadyEnrolled(w) PROVE LandedIsHeld'
  <2>1. UNCHANGED <<landed, lost, granted, holds, call>> /\ result' = [result EXCEPT ![w] = "ok"]
    BY <1>6 DEF AlreadyEnrolled, remote
  <2>2. \A x \in Workers : result[x] = "ok" => result'[x] = "ok"
    BY <2>1 DEF Inv, ProvisioningTypeOK
  <2> QED BY <1>1, <2>1, <2>2
<1>7. ASSUME NEW w \in Workers, NoteAttempt(w), UNCHANGED remote PROVE LandedIsHeld'
  <2>1. UNCHANGED <<landed, lost, call, holds, result>>
    BY <1>7 DEF NoteAttempt, remote
  <2>2. \A r \in Requests : granted[r] => granted'[r]
    BY <1>7 DEF NoteAttempt, Inv, ProvisioningTypeOK
  <2> QED BY <2>1, <2>2, HeldStaysHeld DEF Carries, At
<1>8. ASSUME NEW w \in Workers, Release(w), landed' = landed, lost \subseteq lost',
             \A d \in Workers \ {w} : call'[d] = call[d],
             \A r \in Requests : Carries(w, r) => granted[r] \/ r \in lost'
      PROVE  LandedIsHeld'
  <2>1. \A x \in Workers \ {w} : holds'[x] = holds[x] /\ result'[x] = result[x]
    BY <1>8, ReleaseFacts DEF Inv
  <2>2. granted' = granted
    BY <1>8 DEF Release
  <2> QED BY <1>8, <2>1, <2>2, OthersCarryOn DEF Callers
<1>9. ASSUME NEW w \in Workers, Finish(w) \/ (At(w, "") /\ GiveUp(w)), UNCHANGED remote PROVE LandedIsHeld'
  <2>1. UNCHANGED <<landed, lost, call>>
    BY <1>9 DEF remote
  <2>2. \A r \in Requests : Carries(w, r) => granted[r]
    <3> SUFFICES ASSUME NEW r \in Requests, Carries(w, r) PROVE granted[r]
      OBVIOUS
    <3>1. holds[w] = r /\ holds[w] # 0
      BY ZeroIsNoRequest DEF Carries
    <3>2. call[w].at # "" => result[w] = ""
      BY DEF EnrollingTypeOK
    <3>3. noted[w] => result[w] # ""
      BY DEF Inv, ProvisioningTypeOK
    <3>4. noted[w] /\ result[w] = "ok"
      BY <1>9, <3>2, <3>3 DEF Carries, At, Finish, GiveUp
    <3> QED BY <3>1, <3>4 DEF Inv, GrantIsMine
  <2>3. Release(w)
    BY <1>9 DEF Finish, GiveUp
  <2> QED BY <1>8, <2>1, <2>2, <2>3
<1>10. ASSUME NEW w \in Workers, Stopped(w) PROVE LandedIsHeld'
  <2>1. landed' = landed /\ lost' = lost \cup Unrecorded(w) /\ Release(w)
    BY <1>10 DEF Stopped, Die
  <2>2. \A d \in Workers \ {w} : call'[d] = call[d]
    BY <1>10, CallMoves DEF Stopped, Callers, Steps
  <2>3. \A r \in Requests : Carries(w, r) => granted[r] \/ r \in lost'
    <3> SUFFICES ASSUME NEW r \in Requests, Carries(w, r), ~granted[r] PROVE r \in lost'
      OBVIOUS
    <3>1. holds[w] = r /\ holds[w] # 0
      BY ZeroIsNoRequest DEF Carries
    <3>2. ~(noted[w] /\ result[w] = "ok")
      BY <3>1 DEF Inv, GrantIsMine
    <3>3. r \in Unrecorded(w)
      BY <3>1, <3>2 DEF Carries, Unrecorded, For
    <3> QED BY <2>1, <3>3
  <2> QED BY <1>8, <2>1, <2>2, <2>3
<1>11. ASSUME NEW w \in Workers, Working(w) PROVE LandedIsHeld'
  BY <1>6, <1>7, <1>9, <1>11, LandedCallStep DEF Working, Callers
<1>12. ASSUME NEW p \in Pages, Going(p) PROVE LandedIsHeld'
  BY <1>12, LandedCallStep DEF Callers
<1> QED BY <1>2, <1>3, <1>4, <1>5, <1>10, <1>11, <1>12, NextMoves DEF Moves

-----------------------------------------------------------------------------
\* A second ClickFunnels contact means two creations at once

OneCreates ==
  ~overlapped =>
    /\ contacts <= 1
    /\ \A c \in Callers : At(c, "create") =>
          contacts = 0 /\ \A d \in Callers \ {c} : ~At(d, "create")

LEMMA OneCreatesStep == EnrollingTypeOK /\ OneCreates /\ [EnrollingNext]_allVars => OneCreates'
<1> SUFFICES ASSUME EnrollingTypeOK, OneCreates, [EnrollingNext]_allVars, ~overlapped'
             PROVE  /\ contacts' <= 1
                    /\ \A c \in Callers : At(c, "create")' =>
                          contacts' = 0 /\ \A d \in Callers \ {c} : ~At(d, "create")'
  BY DEF OneCreates
<1> DEFINE Goal == /\ contacts' <= 1
                   /\ \A c \in Callers : At(c, "create")' =>
                         contacts' = 0 /\ \A d \in Callers \ {c} : ~At(d, "create")'
<1>1. contacts \in 0..2
  BY DEF EnrollingTypeOK
<1>2. ASSUME UNCHANGED <<contacts, overlapped>>,
             \A c \in Callers : At(c, "create")' => At(c, "create")
      PROVE  Goal
  BY <1>2 DEF OneCreates
<1>3. ASSUME NEW c \in Callers, NEW step \in Steps \ {"create"}, Goto(c, step) \/ (step = "" /\ Hang(c))
      PROVE  /\ \A d \in Callers : At(d, "create")' => At(d, "create") /\ d # c
  BY <1>3, CallMoves DEF At
<1>4. ASSUME NEW c \in Callers, Hang(c) PROVE \A d \in Callers : At(d, "create")' => At(d, "create") /\ d # c
  BY <1>3, <1>4 DEF Steps
<1>5. ASSUME NEW c \in Callers, Find(c) PROVE Goal
  <2>1. contacts' = contacts
    BY <1>5 DEF Find
  <2>2. CASE contacts > 0
    <3>1. Goto(c, "link") /\ overlapped' = overlapped
      BY <1>5, <2>2 DEF Find
    <3>2. \A d \in Callers : At(d, "create")' => At(d, "create")
      BY <1>3, <3>1 DEF Steps
    <3> QED BY <1>2, <2>1, <3>1, <3>2
  <2>3. CASE ~(contacts > 0)
    <3>1. Goto(c, "create") /\ ~Creating(c)
      BY <1>5, <2>3 DEF Find
    <3>2. \A d \in Callers \ {c} : ~At(d, "create") /\ call'[d] = call[d]
      BY <3>1, CallMoves DEF Creating, Steps
    <3>3. contacts' = 0
      BY <1>1, <2>1, <2>3
    <3> QED BY <3>2, <3>3 DEF At
  <2> QED BY <2>2, <2>3
<1>6. ASSUME NEW c \in Callers, NEW arrives \in BOOLEAN, CreateContact(c, arrives) PROVE Goal
  <2>1. At(c, "create") /\ ~overlapped /\ contacts' = More(contacts)
    BY <1>6 DEF CreateContact
  <2>2. contacts = 0 /\ \A d \in Callers \ {c} : ~At(d, "create")
    BY <2>1 DEF OneCreates
  <2>3. contacts' = 1
    BY <2>1, <2>2 DEF More
  <2>4. \A d \in Callers : At(d, "create")' => At(d, "create") /\ d # c
    BY <1>3, <1>4, <1>6 DEF CreateContact, Steps
  <2> QED BY <2>2, <2>3, <2>4
<1>7. ASSUME NEW c \in Callers, Going(c) \/ Fail(c, "broken") PROVE Goal
  <2>1. CASE StartCall(c)
    <3>1. \A d \in Callers : At(d, "create")' => At(d, "create")
      BY <2>1 DEF StartCall, At, EnrollingTypeOK
    <3> QED BY <1>2, <2>1, <3>1 DEF StartCall
  <2>2. CASE LinkContact(c)
    <3>1. \A d \in Callers : At(d, "create")' => At(d, "create")
      BY <1>3, <1>4, <2>2 DEF LinkContact, Steps
    <3> QED BY <1>2, <2>2, <3>1 DEF LinkContact
  <2>3. ASSUME NEW arrives \in BOOLEAN, Land(c, arrives) PROVE Goal
    <3>1. \A d \in Callers : At(d, "create")' => At(d, "create")
      BY <1>3, <1>4, <2>3 DEF Land, Steps
    <3> QED BY <1>2, <2>3, <3>1 DEF Land
  <2>4. CASE Fail(c, "down") \/ Fail(c, "broken") \/ \E stored \in BOOLEAN : Record(c, stored)
    <3>1. \A d \in Callers : At(d, "create")' => At(d, "create")
      BY <1>4, <2>4 DEF Record, Fail
    <3> QED BY <1>2, <2>4, <3>1 DEF Record, Fail
  <2> HIDE DEF Goal
  <2> QED BY <1>5, <1>6, <1>7, <2>1, <2>2, <2>3, <2>4 DEF Going
<1>8. CASE UNCHANGED remote \/ UNCHANGED allVars \/ Buy
  <2>1. UNCHANGED <<contacts, overlapped, call>>
    BY <1>8 DEF remote, allVars, Buy
  <2> QED BY <1>2, <2>1 DEF At
<1>9. ASSUME NEW c \in Callers, Stopped(c) \/ Closed(c) PROVE Goal
  <2>1. UNCHANGED <<contacts, overlapped>> /\ Hang(c)
    BY <1>9 DEF Stopped, Closed
  <2> QED BY <1>2, <1>4, <2>1
<1>10. ASSUME NEW w \in Workers, Working(w) PROVE Goal
  <2> HIDE DEF Goal
  <2>1. CASE AlreadyEnrolled(w)
    BY <1>8, <2>1 DEF AlreadyEnrolled, Goal
  <2>2. CASE UNCHANGED remote
    BY <1>8, <2>2 DEF Goal
  <2> QED BY <1>7, <1>10, <2>1, <2>2 DEF Working, Callers
<1> HIDE DEF Goal
<1>11. Goal
  BY <1>7, <1>8, <1>9, <1>10, NextMoves DEF Moves, Ordered, Callers, Goal
<1> QED BY <1>11 DEF Goal

-----------------------------------------------------------------------------
EnrollingInv == Inv /\ EnrollingTypeOK /\ LandedIsHeld /\ OneCreates

LEMMA EnrollingInvInit == EnrollingInit => EnrollingInv
<1> SUFFICES ASSUME EnrollingInit PROVE EnrollingInv
  OBVIOUS
<1>1. LandedIsHeld
  BY DEF EnrollingInit, LandedIsHeld
<1>2. \A c \in Callers : ~At(c, "create")
  BY DEF EnrollingInit, At, NoCall
<1>3. OneCreates
  BY <1>2 DEF EnrollingInit, OneCreates
<1> QED BY <1>1, <1>3, EnrollingStarts DEF EnrollingInv

LEMMA EnrollingInvStep == EnrollingInv /\ [EnrollingNext]_allVars => EnrollingInv'
  BY RefinementStep, ProvisioningStep, EnrollingTypeStep, LandedStep, OneCreatesStep DEF EnrollingInv

\* The calls keep their types whatever answers are lost and whichever workers stop
\* (EnrollmentService.enroll_contact, ContactService.get_or_create_remote_contact).
THEOREM EnrollingTypeCorrect == EnrollingSpec => []EnrollingTypeOK
<1>1. EnrollingInv => EnrollingTypeOK
  BY DEF EnrollingInv
<1> QED BY <1>1, EnrollingInvInit, EnrollingInvStep, PTL DEF EnrollingSpec

\* Every behaviour of the calls, step by step and shared with the enrollment pages,
\* is one of Provisioning, whose call is one step (the safety part of ProvisioningSpec).
THEOREM EnrollingImplementsProvisioning == EnrollingSpec => Init /\ [][Next]_vars
<1>1. EnrollingInit => Init
  BY DEF EnrollingInit
<1>2. EnrollingInv /\ [EnrollingNext]_allVars => [Next]_vars
  BY RefinementStep DEF EnrollingInv
<1> QED BY <1>1, <1>2, EnrollingInvInit, EnrollingInvStep, PTL DEF EnrollingSpec

\* What is proved of Provisioning holds of the calls too: access is COMPLETED only
\* when ClickFunnels was told and the attempt recorded.
THEOREM EnrolledWhenCompleted == EnrollingSpec => []CompletedMeansEnrolled
<1>1. EnrollingInv => CompletedMeansEnrolled
  BY DEF EnrollingInv, Inv
<1> QED BY <1>1, EnrollingInvInit, EnrollingInvStep, PTL DEF EnrollingSpec

\* One worker at a time executes a row, however long its calls to ClickFunnels
\* take (ProvisioningService.execute).
THEOREM EnrollingClaimIsExclusive == EnrollingSpec => []ClaimIsExclusive
<1>1. EnrollingInv => ClaimIsExclusive
  BY DEF EnrollingInv, Inv
<1> QED BY <1>1, EnrollingInvInit, EnrollingInvStep, PTL DEF EnrollingSpec

\* A row that has its SUCCESS attempt is not queued again, whichever of its calls
\* was cut off or answered late (ProvisioningService.execute, retry_request).
THEOREM EnrollingGrantedIsNotQueued == EnrollingSpec => []GrantedIsNotQueued
<1>1. EnrollingInv => GrantedIsNotQueued
  BY DEF EnrollingInv, Inv
<1> QED BY <1>1, EnrollingInvInit, EnrollingInvStep, PTL DEF EnrollingSpec

\* ClickFunnels enrolls a row's customer twice only when the first time was never
\* recorded (ProvisioningService.execute and its SUCCESS attempts).
THEOREM RepeatsWereLostAlways == EnrollingSpec => []RepeatsWereLost
<1>1. EnrollingInv => RepeatsWereLost
  <2> SUFFICES ASSUME EnrollingInv, NEW r \in Requests, landed[r] > 1, r \notin lost PROVE FALSE
    BY DEF RepeatsWereLost
  <2>1. landed[r] <= 1 /\ landed[r] \in 0..2
    BY DEF EnrollingInv, LandedIsHeld, EnrollingTypeOK
  <2> QED BY <2>1
<1> QED BY <1>1, EnrollingInvInit, EnrollingInvStep, PTL DEF EnrollingSpec

\* A customer gets a second ClickFunnels contact only when two callers were about
\* to create one at once (ContactService.get_or_create_remote_contact).
THEOREM ContactsAreSharedAlways == EnrollingSpec => []ContactsAreShared
<1>1. EnrollingInv => ContactsAreShared
  <2> SUFFICES ASSUME EnrollingInv, contacts > 1, ~overlapped PROVE FALSE
    BY DEF ContactsAreShared
  <2>1. contacts <= 1 /\ contacts \in 0..2
    BY DEF EnrollingInv, OneCreates, EnrollingTypeOK
  <2> QED BY <2>1
<1> QED BY <1>1, EnrollingInvInit, EnrollingInvStep, PTL DEF EnrollingSpec
=============================================================================
