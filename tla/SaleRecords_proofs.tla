------------------------- MODULE SaleRecords_proofs -------------------------
(***************************************************************************)
(* Proofs about the rows of one sale, for any number of installments and   *)
(* attempts and for both access policies.                                  *)
(***************************************************************************)
EXTENDS SaleRecords, TLAPS

\* The rows every transaction reads are rows of the right kind.
LEMMA TypeInit == Init => TypeOK
<1> SUFFICES ASSUME Init PROVE TypeOK
  OBVIOUS
<1>1. today \in 1..(NumInstallments + 1)
  BY SaleAssumption DEF Init
<1>2. order \in OrderStatuses /\ access \in BOOLEAN
  BY DEF Init, OrderStatuses
<1>3. inst \in [Insts -> InstStatuses]
  BY DEF Init, InstStatuses
<1>4. /\ attInst \in [Attempts -> Insts \cup {0}]
      /\ attStatus \in [Attempts -> AttemptStatuses \cup {"NONE"}]
      /\ attLink \in [Attempts -> BOOLEAN]
      /\ conf \in [Attempts -> BOOLEAN]
      /\ \A a \in Attempts : attInst[a] = 0 <=> attStatus[a] = "NONE"
  BY DEF Init
<1> QED BY <1>1, <1>2, <1>3, <1>4 DEF TypeOK

\* OrderAfter returns a status whatever the installments are.
LEMMA OrderAfterType ==
  ASSUME NEW o \in OrderStatuses, NEW ins, NEW d
  PROVE  OrderAfter(o, ins, d) \in OrderStatuses
  BY DEF OrderAfter, OrderStatuses

LEMMA TypeStep == TypeOK /\ [Next]_db => TypeOK'
<1> SUFFICES ASSUME TypeOK, [Next]_db PROVE TypeOK'
  OBVIOUS
<1> USE DEF TypeOK
<1>1. ASSUME NEW a \in Attempts, NEW i \in Insts, CreateAttempt(a, i) PROVE TypeOK'
  BY <1>1 DEF CreateAttempt, InsertAttempt, AttemptStatuses, Insts
<1>2. ASSUME NEW a \in Attempts, NEW url \in BOOLEAN, StoreLink(a, url) PROVE TypeOK'
  BY <1>2 DEF StoreLink, AttemptStatuses
<1>3. ASSUME NEW a \in Attempts, NEW st \in {"SUCCEEDED", "FAILED", "EXPIRED", "UNKNOWN"}, MoveAttempt(a, st)
      PROVE  TypeOK'
  BY <1>3 DEF MoveAttempt, CanMove, AttemptAllows, AttemptStatuses
<1>4. ASSUME NEW a \in Attempts, Credit(a) PROVE TypeOK'
  <2>1. attStatus' \in [Attempts -> AttemptStatuses \cup {"NONE"}]
    BY <1>4 DEF Credit, AttemptStatuses
  <2>2. \A b \in Attempts : attInst'[b] = 0 <=> attStatus'[b] = "NONE"
    BY <1>4 DEF Credit, Creditable, Created, OpenStatuses, ActiveStatuses
  <2>3. inst' \in [Insts -> InstStatuses] /\ conf' \in [Attempts -> BOOLEAN]
    BY <1>4 DEF Credit, RecordPayment, InstStatuses
  <2>4. order' \in OrderStatuses
    BY <1>4, OrderAfterType DEF Credit, RecordPayment
  <2>5. access' \in BOOLEAN
    BY <1>4 DEF Credit, RecordPayment
  <2> QED BY <1>4, <2>1, <2>2, <2>3, <2>4, <2>5 DEF Credit, RecordPayment
<1>5. ASSUME NEW a \in Attempts, Fail(a) PROVE TypeOK'
  BY <1>5 DEF Fail, Created, AttemptAllows, InstStatuses, AttemptStatuses
<1>6. ASSUME NEW a \in Attempts, RepairConfirmation(a) PROVE TypeOK'
  BY <1>6 DEF RepairConfirmation
<1>7. CASE CancelOrder
  BY <1>7 DEF CancelOrder, CloseAttempts, OpenStatuses, ActiveStatuses, AttemptStatuses, InstStatuses, OrderStatuses
<1>8. ASSUME NEW i \in Insts, CancelInstallment(i) PROVE TypeOK'
  BY <1>8 DEF CancelInstallment, CloseAttempts, OpenStatuses, ActiveStatuses, AttemptStatuses, InstStatuses
<1>9. ASSUME NEW i \in Insts, WaiveInstallment(i) PROVE TypeOK'
  <2>1. order' \in OrderStatuses
    BY <1>9, OrderAfterType DEF WaiveInstallment
  <2>2. access' \in BOOLEAN /\ inst' \in [Insts -> InstStatuses]
    BY <1>9 DEF WaiveInstallment, InstStatuses
  <2>3. attStatus' \in [Attempts -> AttemptStatuses \cup {"NONE"}]
    BY <1>9 DEF WaiveInstallment, CloseAttempts, AttemptStatuses
  <2>4. \A b \in Attempts : attStatus'[b] = "NONE" <=> attStatus[b] = "NONE"
    BY <1>9 DEF WaiveInstallment, CloseAttempts, OpenStatuses, ActiveStatuses
  <2> QED BY <1>9, <2>1, <2>2, <2>3, <2>4 DEF WaiveInstallment
<1>10. ASSUME NEW a \in Attempts, NEW i \in Insts, AttributeToNew(a, i) PROVE TypeOK'
  <2>1. order' \in OrderStatuses
    BY <1>10, OrderAfterType DEF AttributeToNew, RecordPayment
  <2>2. access' \in BOOLEAN /\ inst' \in [Insts -> InstStatuses]
    BY <1>10 DEF AttributeToNew, RecordPayment, InstStatuses
  <2> QED BY <1>10, <2>1, <2>2 DEF AttributeToNew, RecordPayment, AttemptStatuses, Insts
<1>11. ASSUME NEW a \in Attempts, NEW i \in Insts, AttributeToOpen(a, i) PROVE TypeOK'
  BY <1>4, <1>11 DEF AttributeToOpen
<1>12. ASSUME NEW a \in Attempts, NEW i \in Insts, AttributionConflict(a, i) PROVE TypeOK'
  BY <1>12 DEF AttributionConflict, InsertAttempt, AttemptStatuses, Insts
<1>13. ASSUME NEW i \in Insts, MarkDue(i) PROVE TypeOK'
  BY <1>13 DEF MarkDue, InstStatuses
<1>14. CASE ReopenOrder \/ MarkLate \/ SuspendOrder \/ ResumeOrder
  BY <1>14 DEF ReopenOrder, MarkLate, SuspendOrder, ResumeOrder, OrderStatuses
<1>15. CASE ExpireOrder
  BY <1>15 DEF ExpireOrder, OrderStatuses, AttemptStatuses
<1>16. CASE RefreshOrder
  BY <1>16, OrderAfterType DEF RefreshOrder
<1>17. CASE NextDay
  BY <1>17, SaleAssumption DEF NextDay
<1>18. CASE UNCHANGED db
  BY <1>18 DEF db
<1> QED
  BY <1>1, <1>2, <1>3, <1>4, <1>5, <1>6, <1>7, <1>8, <1>9, <1>10, <1>11, <1>12, <1>13, <1>14, <1>15,
     <1>16, <1>17, <1>18 DEF Next, AttemptStep, AdminStep, OrderStep

\* TypeOK is an invariant of every history of the sale's transactions.
THEOREM TypeCorrect == Spec => []TypeOK
  BY TypeInit, TypeStep, PTL DEF Spec

-----------------------------------------------------------------------------
\* One active attempt per installment

\* A step that moves no attempt to another installment and activates none keeps it.
LEMMA FewerActive ==
  ASSUME OneActiveAttempt, attInst' = attInst,
         \A a \in Attempts : attStatus'[a] \in ActiveStatuses => attStatus[a] \in ActiveStatuses
  PROVE  OneActiveAttempt'
  BY DEF OneActiveAttempt

\* So does a row inserted where the index allows it.
LEMMA InsertKeepsOneActive ==
  ASSUME TypeOK, OneActiveAttempt, NEW a \in Attempts, NEW i \in Insts, NEW st,
         IsFree(a), IndexAllows(a, i, st),
         attInst' = [attInst EXCEPT ![a] = i],
         \E su : /\ su \in ActiveStatuses => st \in ActiveStatuses
                /\ attStatus' = [attStatus EXCEPT ![a] = su]
  PROVE  OneActiveAttempt'
  BY DEF TypeOK, OneActiveAttempt, IsFree, Created, IndexAllows, ActiveOn, AttemptsOf

LEMMA OneActiveStep == TypeOK /\ OneActiveAttempt /\ [Next]_db => OneActiveAttempt'
<1> SUFFICES ASSUME TypeOK, OneActiveAttempt, [Next]_db PROVE OneActiveAttempt'
  OBVIOUS
<1>1. ASSUME NEW a \in Attempts, NEW i \in Insts, CreateAttempt(a, i) PROVE OneActiveAttempt'
  BY <1>1, InsertKeepsOneActive DEF CreateAttempt, InsertAttempt
<1>2. ASSUME NEW a \in Attempts, NEW url \in BOOLEAN, StoreLink(a, url) PROVE OneActiveAttempt'
  BY <1>2, FewerActive DEF StoreLink, ActiveStatuses, TypeOK
<1>3. ASSUME NEW a \in Attempts, NEW st \in {"SUCCEEDED", "FAILED", "EXPIRED", "UNKNOWN"}, MoveAttempt(a, st)
      PROVE  OneActiveAttempt'
  BY <1>3 DEF TypeOK, OneActiveAttempt, MoveAttempt, CanMove, IndexAllows, ActiveOn, AttemptsOf
<1>4. ASSUME NEW a \in Attempts, Credit(a) PROVE OneActiveAttempt'
  <2>1. attInst' = attInst /\ attInst[a] \in Insts
    BY <1>4 DEF Credit, Creditable, Created, TypeOK
  <2>2. CASE LateSuccess(a)
    <3>1. \A b \in Attempts : attInst[b] = attInst[a] => attStatus[b] # "SUCCEEDED"
      BY <1>4, <2>2 DEF Credit, Creditable, PaidByAnother, HasSucceeded, AttemptsOf
    <3>2. \A b \in Attempts \ {a} : attStatus'[b] \in ActiveStatuses =>
             attStatus[b] \in ActiveStatuses /\ attInst[b] # attInst[a]
      BY <1>4, <2>2, <3>1 DEF Credit, OpenStatuses, ActiveStatuses
    <3> QED BY <2>1, <3>2 DEF OneActiveAttempt
  <2>3. CASE ~LateSuccess(a)
    <3>1. attStatus[a] \in ActiveStatuses
      BY <1>4, <2>3 DEF Credit, Creditable, AttemptAllows, ActiveStatuses
    <3>2. \A b \in Attempts \ {a} : attStatus'[b] = attStatus[b]
      BY <1>4, <2>3 DEF Credit
    <3> QED BY <2>1, <3>1, <3>2, FewerActive
  <2> QED BY <2>2, <2>3
<1>5. ASSUME NEW a \in Attempts, Fail(a) PROVE OneActiveAttempt'
  BY <1>5, FewerActive DEF Fail, ActiveStatuses, TypeOK
<1>6. ASSUME NEW S, CloseAttempts(S), attInst' = attInst PROVE OneActiveAttempt'
  BY <1>6, FewerActive DEF CloseAttempts, ActiveStatuses
<1>7. CASE CancelOrder
  BY <1>6, <1>7 DEF CancelOrder
<1>8. ASSUME NEW i \in Insts, CancelInstallment(i) \/ WaiveInstallment(i) PROVE OneActiveAttempt'
  BY <1>6, <1>8 DEF CancelInstallment, WaiveInstallment
<1>9. ASSUME NEW a \in Attempts, NEW i \in Insts, AttributeToNew(a, i) PROVE OneActiveAttempt'
  BY <1>9, InsertKeepsOneActive DEF AttributeToNew, ActiveStatuses
<1>10. ASSUME NEW a \in Attempts, NEW i \in Insts, AttributeToOpen(a, i) PROVE OneActiveAttempt'
  BY <1>4, <1>10 DEF AttributeToOpen
<1>11. ASSUME NEW a \in Attempts, NEW i \in Insts, AttributionConflict(a, i) PROVE OneActiveAttempt'
  BY <1>11, InsertKeepsOneActive DEF AttributionConflict, InsertAttempt
<1>12. CASE ExpireOrder
  BY <1>12, FewerActive DEF ExpireOrder, ActiveStatuses
<1>13. CASE attInst' = attInst /\ attStatus' = attStatus
  BY <1>13, FewerActive
<1>14. ASSUME NEW a \in Attempts, RepairConfirmation(a) PROVE OneActiveAttempt'
  BY <1>13, <1>14 DEF RepairConfirmation
<1>15. ASSUME NEW i \in Insts, MarkDue(i) PROVE OneActiveAttempt'
  BY <1>13, <1>15 DEF MarkDue
<1>16. CASE ReopenOrder \/ MarkLate \/ SuspendOrder \/ ResumeOrder \/ RefreshOrder \/ NextDay \/ UNCHANGED db
  BY <1>13, <1>16 DEF ReopenOrder, MarkLate, SuspendOrder, ResumeOrder, RefreshOrder, NextDay, db
<1> QED
  BY <1>1, <1>2, <1>3, <1>4, <1>5, <1>7, <1>8, <1>9, <1>10, <1>11, <1>12, <1>14, <1>15, <1>16
  DEF Next, AttemptStep, AdminStep, OrderStep

\* At most one attempt of an installment is ever open or succeeded.
THEOREM OneActiveAttemptAlways == Spec => []OneActiveAttempt
<1>1. Init => OneActiveAttempt
  BY DEF Init, OneActiveAttempt, ActiveStatuses
<1> QED BY <1>1, TypeCorrect, OneActiveStep, PTL DEF Spec

\* The transactions that succeed an attempt, and those that succeed none
LEMMA WhoSucceeds ==
  ASSUME TypeOK
  PROVE  /\ \A a, b \in Attempts : Credit(a) /\ attStatus'[b] = "SUCCEEDED" => attStatus[b] = "SUCCEEDED" \/ b = a
         /\ \A a, b \in Attempts, st \in {"SUCCEEDED", "FAILED", "EXPIRED", "UNKNOWN"} :
               MoveAttempt(a, st) /\ attStatus'[b] = "SUCCEEDED" =>
                 attStatus[b] = "SUCCEEDED" \/ (b = a /\ st = "SUCCEEDED")
         /\ \A a, b \in Attempts : Fail(a) /\ attStatus'[b] = "SUCCEEDED" => attStatus[b] = "SUCCEEDED"
         /\ \A a, b \in Attempts, i \in Insts :
               AttributeToNew(a, i) /\ attStatus'[b] = "SUCCEEDED" => attStatus[b] = "SUCCEEDED" \/ b = a
         /\ \A a, b \in Attempts, i \in Insts :
               CreateAttempt(a, i) \/ AttributionConflict(a, i) => (attStatus'[b] = "SUCCEEDED" => attStatus[b] = "SUCCEEDED")
         /\ \A a, b \in Attempts, url \in BOOLEAN :
               StoreLink(a, url) /\ attStatus'[b] = "SUCCEEDED" => attStatus[b] = "SUCCEEDED"
<1> USE DEF TypeOK
<1>1. \A a, b \in Attempts : Credit(a) /\ attStatus'[b] = "SUCCEEDED" => attStatus[b] = "SUCCEEDED" \/ b = a
  BY DEF Credit
<1>2. \A a, b \in Attempts, st \in {"SUCCEEDED", "FAILED", "EXPIRED", "UNKNOWN"} :
         MoveAttempt(a, st) /\ attStatus'[b] = "SUCCEEDED" =>
           attStatus[b] = "SUCCEEDED" \/ (b = a /\ st = "SUCCEEDED")
  BY DEF MoveAttempt
<1>3. \A a, b \in Attempts : Fail(a) /\ attStatus'[b] = "SUCCEEDED" => attStatus[b] = "SUCCEEDED"
  BY DEF Fail
<1>4. \A a, b \in Attempts, i \in Insts :
         AttributeToNew(a, i) /\ attStatus'[b] = "SUCCEEDED" => attStatus[b] = "SUCCEEDED" \/ b = a
  BY DEF AttributeToNew
<1>5. \A a, b \in Attempts, i \in Insts :
         CreateAttempt(a, i) \/ AttributionConflict(a, i) => (attStatus'[b] = "SUCCEEDED" => attStatus[b] = "SUCCEEDED")
  BY DEF CreateAttempt, AttributionConflict, InsertAttempt
<1>6. \A a, b \in Attempts, url \in BOOLEAN :
         StoreLink(a, url) /\ attStatus'[b] = "SUCCEEDED" => attStatus[b] = "SUCCEEDED"
  BY DEF StoreLink
<1> QED BY <1>1, <1>2, <1>3, <1>4, <1>5, <1>6

\* A row is made once, and once past CREATED never comes back to it.
RowsGoOn == \A a \in Attempts :
  /\ Created(a) => attStatus'[a] # "NONE"
  /\ attStatus[a] \notin {"NONE", "CREATED"} => attStatus'[a] \notin {"NONE", "CREATED"}

LEMMA RowsGoOnStep == TypeOK /\ [Next]_db => RowsGoOn
<1> SUFFICES ASSUME TypeOK, [Next]_db PROVE RowsGoOn
  OBVIOUS
<1> USE DEF TypeOK, RowsGoOn, Created
<1>1. ASSUME NEW a \in Attempts, NEW i \in Insts,
             CreateAttempt(a, i) \/ AttributeToNew(a, i) \/ AttributionConflict(a, i)
      PROVE  RowsGoOn
  BY <1>1 DEF CreateAttempt, AttributeToNew, AttributionConflict, InsertAttempt, IsFree
<1>2. ASSUME NEW a \in Attempts, NEW url \in BOOLEAN, StoreLink(a, url) PROVE RowsGoOn
  BY <1>2 DEF StoreLink
<1>3. ASSUME NEW a \in Attempts, NEW st \in {"SUCCEEDED", "FAILED", "EXPIRED", "UNKNOWN"}, MoveAttempt(a, st)
      PROVE  RowsGoOn
  BY <1>3 DEF MoveAttempt
<1>4. ASSUME NEW a \in Attempts, Credit(a) PROVE RowsGoOn
  BY <1>4 DEF Credit
<1>5. ASSUME NEW a \in Attempts, Fail(a) PROVE RowsGoOn
  BY <1>5 DEF Fail
<1>6. ASSUME CancelOrder \/ \E i \in Insts : CancelInstallment(i) \/ WaiveInstallment(i) PROVE RowsGoOn
  BY <1>6 DEF CancelOrder, CancelInstallment, WaiveInstallment, CloseAttempts
<1>7. ASSUME ExpireOrder PROVE RowsGoOn
  BY <1>7 DEF ExpireOrder
<1>8. ASSUME UNCHANGED attStatus PROVE RowsGoOn
  BY <1>8
<1>9. ASSUME NEW a \in Attempts, RepairConfirmation(a) PROVE RowsGoOn
  BY <1>8, <1>9 DEF RepairConfirmation
<1>10. ASSUME OrderStep PROVE RowsGoOn
  BY <1>7, <1>8, <1>10 DEF OrderStep, ReopenOrder, MarkDue, MarkLate, SuspendOrder, ResumeOrder, RefreshOrder, NextDay
<1>11. ASSUME NEW a \in Attempts, AttemptStep(a) PROVE RowsGoOn
  BY <1>1, <1>2, <1>3, <1>4, <1>5, <1>9, <1>11 DEF AttemptStep
<1>12. ASSUME AdminStep PROVE RowsGoOn
  BY <1>1, <1>4, <1>6, <1>12 DEF AdminStep, AttributeToOpen
<1>13. CASE UNCHANGED db
  BY <1>8, <1>13 DEF db
<1> QED BY <1>10, <1>11, <1>12, <1>13 DEF Next

-----------------------------------------------------------------------------
\* Nothing final is ever rewritten

\* A payment that is credited, or attributed to a new attempt, pays the attempt's installment.
LEMMA CreditPays ==
  ASSUME TypeOK, NEW a \in Attempts, Credit(a) \/ \E i \in Insts : AttributeToNew(a, i)
  PROVE  inst'[attInst'[a]] = "PAID"
<1> USE DEF TypeOK
<1>1. CASE Credit(a)
  BY <1>1 DEF Credit, Creditable, Created, RecordPayment
<1>2. ASSUME NEW i \in Insts, AttributeToNew(a, i) PROVE inst'[attInst'[a]] = "PAID"
  BY <1>2 DEF AttributeToNew, RecordPayment
<1> QED BY <1>1, <1>2

AttemptsAreFinal ==
  \A a \in Attempts :
      attStatus[a] = "SUCCEEDED" => attStatus'[a] = "SUCCEEDED" /\ attInst'[a] = attInst[a]

InstallmentsAreFinal ==
  \A i \in Insts : inst[i] \in {"PAID", "WAIVED", "CANCELLED"} => inst'[i] = inst[i]

LEMMA AttemptsFinalStep == TypeOK /\ [Next]_db => AttemptsAreFinal
<1> SUFFICES ASSUME TypeOK, [Next]_db PROVE AttemptsAreFinal
  OBVIOUS
<1> USE DEF AttemptsAreFinal, TypeOK
<1>1. ASSUME NEW a \in Attempts, IsFree(a),
             \E i : attInst' = [attInst EXCEPT ![a] = i],
             \E st : attStatus' = [attStatus EXCEPT ![a] = st]
      PROVE  AttemptsAreFinal
  BY <1>1 DEF IsFree, Created
<1>2. ASSUME NEW a \in Attempts, NEW i \in Insts, CreateAttempt(a, i) PROVE AttemptsAreFinal
  BY <1>1, <1>2 DEF CreateAttempt, InsertAttempt
<1>3. ASSUME NEW a \in Attempts, NEW url \in BOOLEAN, StoreLink(a, url) PROVE AttemptsAreFinal
  BY <1>3 DEF StoreLink
<1>4. ASSUME NEW a \in Attempts, NEW st \in {"SUCCEEDED", "FAILED", "EXPIRED", "UNKNOWN"}, MoveAttempt(a, st)
      PROVE  AttemptsAreFinal
  BY <1>4 DEF MoveAttempt, CanMove, AttemptAllows
<1>5. ASSUME NEW a \in Attempts, Credit(a) PROVE AttemptsAreFinal
  BY <1>5 DEF Credit, OpenStatuses
<1>6. ASSUME NEW a \in Attempts, Fail(a) PROVE AttemptsAreFinal
  BY <1>6 DEF Fail, AttemptAllows
<1>7. ASSUME NEW S, CloseAttempts(S), attInst' = attInst PROVE AttemptsAreFinal
  BY <1>7 DEF CloseAttempts, OpenStatuses
<1>8. CASE CancelOrder
  BY <1>7, <1>8 DEF CancelOrder
<1>9. ASSUME NEW i \in Insts, CancelInstallment(i) \/ WaiveInstallment(i) PROVE AttemptsAreFinal
  BY <1>7, <1>9 DEF CancelInstallment, WaiveInstallment
<1>10. ASSUME NEW a \in Attempts, NEW i \in Insts,
              AttributeToNew(a, i) \/ AttributeToOpen(a, i) \/ AttributionConflict(a, i)
       PROVE  AttemptsAreFinal
  BY <1>1, <1>5, <1>10 DEF AttributeToNew, AttributeToOpen, AttributionConflict, InsertAttempt
<1>11. CASE ExpireOrder
  BY <1>11 DEF ExpireOrder
<1>13. CASE ReopenOrder \/ MarkLate \/ SuspendOrder \/ ResumeOrder \/ RefreshOrder \/ NextDay \/ UNCHANGED db
  BY <1>13 DEF ReopenOrder, MarkLate, SuspendOrder, ResumeOrder, RefreshOrder, NextDay, db
<1>12. ASSUME NEW a \in Attempts, RepairConfirmation(a) PROVE AttemptsAreFinal
  BY <1>12 DEF RepairConfirmation
<1>14. ASSUME NEW i \in Insts, MarkDue(i) PROVE AttemptsAreFinal
  BY <1>14 DEF MarkDue
<1> QED
  BY <1>2, <1>3, <1>4, <1>5, <1>6, <1>8, <1>9, <1>10, <1>11, <1>12, <1>13, <1>14
  DEF Next, AttemptStep, AdminStep, OrderStep

LEMMA InstallmentsFinalStep == TypeOK /\ [Next]_db => InstallmentsAreFinal
<1> SUFFICES ASSUME TypeOK, [Next]_db PROVE InstallmentsAreFinal
  OBVIOUS
<1> USE DEF InstallmentsAreFinal, TypeOK, InstAllows
<1>1. ASSUME NEW a \in Attempts, Credit(a) PROVE InstallmentsAreFinal
  BY <1>1 DEF Credit, Creditable, Created, RecordPayment
<1>2. ASSUME NEW a \in Attempts, Fail(a) PROVE InstallmentsAreFinal
  BY <1>2 DEF Fail, Created
<1>3. CASE CancelOrder
  BY <1>3 DEF CancelOrder, UnpaidStatuses
<1>4. ASSUME NEW i \in Insts, CancelInstallment(i) \/ WaiveInstallment(i) PROVE InstallmentsAreFinal
  BY <1>4 DEF CancelInstallment, WaiveInstallment
<1>5. ASSUME NEW a \in Attempts, NEW i \in Insts, AttributeToNew(a, i) PROVE InstallmentsAreFinal
  BY <1>5 DEF AttributeToNew, Attributable, RecordPayment
<1>6. ASSUME NEW a \in Attempts, NEW i \in Insts, AttributeToOpen(a, i) PROVE InstallmentsAreFinal
  BY <1>1, <1>6 DEF AttributeToOpen
<1>7. ASSUME NEW i \in Insts, MarkDue(i) PROVE InstallmentsAreFinal
  BY <1>7 DEF MarkDue
<1>8. CASE inst' = inst
  BY <1>8
<1>9. ASSUME NEW a \in Attempts, NEW i \in Insts, CreateAttempt(a, i) \/ AttributionConflict(a, i)
      PROVE  InstallmentsAreFinal
  BY <1>8, <1>9 DEF CreateAttempt, AttributionConflict
<1>10. ASSUME NEW a \in Attempts, NEW url \in BOOLEAN, StoreLink(a, url) PROVE InstallmentsAreFinal
  BY <1>8, <1>10 DEF StoreLink
<1>11. ASSUME NEW a \in Attempts, NEW st, MoveAttempt(a, st) PROVE InstallmentsAreFinal
  BY <1>8, <1>11 DEF MoveAttempt
<1>12. ASSUME NEW a \in Attempts, RepairConfirmation(a) PROVE InstallmentsAreFinal
  BY <1>8, <1>12 DEF RepairConfirmation
<1>13. CASE \/ ReopenOrder \/ MarkLate \/ ExpireOrder \/ SuspendOrder \/ ResumeOrder
            \/ RefreshOrder \/ NextDay \/ UNCHANGED db
  BY <1>8, <1>13 DEF ReopenOrder, MarkLate, ExpireOrder, SuspendOrder, ResumeOrder, RefreshOrder, NextDay, db
<1> QED
  BY <1>1, <1>2, <1>3, <1>4, <1>5, <1>6, <1>7, <1>9, <1>10, <1>11, <1>12, <1>13
  DEF Next, AttemptStep, AdminStep, OrderStep

-----------------------------------------------------------------------------
\* Payment, payer and confirmation

\* An installment becomes PAID together with an attempt of it that succeeds and
\* that attempt's confirmation row.
PaidTogether ==
  \A i \in Insts : inst[i] # "PAID" /\ inst'[i] = "PAID" =>
      \E a \in Attempts : attInst'[a] = i /\ attStatus'[a] = "SUCCEEDED" /\ conf'[a]

LEMMA PaidTogetherStep == TypeOK /\ [Next]_db => PaidTogether
<1> SUFFICES ASSUME TypeOK, [Next]_db PROVE PaidTogether
  OBVIOUS
<1> USE DEF PaidTogether, TypeOK
<1>1. ASSUME NEW a \in Attempts, Credit(a) PROVE PaidTogether
  BY <1>1 DEF Credit, RecordPayment
<1>2. ASSUME NEW a \in Attempts, NEW i \in Insts, AttributeToNew(a, i) PROVE PaidTogether
  BY <1>2 DEF AttributeToNew, RecordPayment
<1>3. ASSUME NEW a \in Attempts, NEW i \in Insts, AttributeToOpen(a, i) PROVE PaidTogether
  BY <1>1, <1>3 DEF AttributeToOpen
<1>4. ASSUME \A i \in Insts : inst'[i] = "PAID" => inst[i] = "PAID" PROVE PaidTogether
  BY <1>4
<1>5. ASSUME NEW a \in Attempts, Fail(a) PROVE PaidTogether
  BY <1>4, <1>5 DEF Fail
<1>6. CASE CancelOrder
  BY <1>4, <1>6 DEF CancelOrder
<1>7. ASSUME NEW i \in Insts, CancelInstallment(i) \/ WaiveInstallment(i) PROVE PaidTogether
  BY <1>4, <1>7 DEF CancelInstallment, WaiveInstallment
<1>8. ASSUME NEW i \in Insts, MarkDue(i) PROVE PaidTogether
  BY <1>4, <1>8 DEF MarkDue
<1>9. ASSUME NEW a \in Attempts, NEW i \in Insts, CreateAttempt(a, i) \/ AttributionConflict(a, i)
      PROVE  PaidTogether
  BY <1>4, <1>9 DEF CreateAttempt, AttributionConflict
<1>10. ASSUME NEW a \in Attempts, NEW url \in BOOLEAN, StoreLink(a, url) PROVE PaidTogether
  BY <1>4, <1>10 DEF StoreLink
<1>11. ASSUME NEW a \in Attempts, NEW st, MoveAttempt(a, st) PROVE PaidTogether
  BY <1>4, <1>11 DEF MoveAttempt
<1>12. ASSUME NEW a \in Attempts, RepairConfirmation(a) PROVE PaidTogether
  BY <1>4, <1>12 DEF RepairConfirmation
<1>13. CASE \/ ReopenOrder \/ MarkLate \/ ExpireOrder \/ SuspendOrder \/ ResumeOrder
            \/ RefreshOrder \/ NextDay \/ UNCHANGED db
  BY <1>4, <1>13 DEF ReopenOrder, MarkLate, ExpireOrder, SuspendOrder, ResumeOrder, RefreshOrder, NextDay, db
<1> QED
  BY <1>1, <1>2, <1>3, <1>5, <1>6, <1>7, <1>8, <1>9, <1>10, <1>11, <1>12, <1>13
  DEF Next, AttemptStep, AdminStep, OrderStep

LEMMA PaidHasPayerStep == TypeOK /\ PaidHasPayer /\ [Next]_db => PaidHasPayer'
<1> SUFFICES ASSUME TypeOK, PaidHasPayer, [Next]_db, NEW i \in Insts, inst'[i] = "PAID"
             PROVE  \E a \in Attempts : attInst'[a] = i /\ attStatus'[a] = "SUCCEEDED"
  BY DEF PaidHasPayer, HasSucceeded, AttemptsOf
<1>1. CASE inst[i] = "PAID"
  BY <1>1, AttemptsFinalStep DEF PaidHasPayer, HasSucceeded, AttemptsOf, AttemptsAreFinal
<1>2. CASE inst[i] # "PAID"
  BY <1>2, PaidTogetherStep DEF PaidTogether
<1> QED BY <1>1, <1>2

\* A confirmation row is kept, and a new one belongs to a succeeded attempt.
ConfirmationsGrow ==
  \A a \in Attempts :
      /\ conf[a] => conf'[a]
      /\ conf'[a] /\ ~conf[a] => attStatus'[a] = "SUCCEEDED"

LEMMA ConfirmationsGrowStep == TypeOK /\ [Next]_db => ConfirmationsGrow
<1> SUFFICES ASSUME TypeOK, [Next]_db PROVE ConfirmationsGrow
  OBVIOUS
<1> USE DEF ConfirmationsGrow, TypeOK
<1>1. ASSUME NEW a \in Attempts, Credit(a) PROVE ConfirmationsGrow
  BY <1>1 DEF Credit, RecordPayment
<1>2. ASSUME NEW a \in Attempts, NEW i \in Insts, AttributeToNew(a, i) PROVE ConfirmationsGrow
  BY <1>2 DEF AttributeToNew, RecordPayment
<1>3. ASSUME NEW a \in Attempts, NEW i \in Insts, AttributeToOpen(a, i) PROVE ConfirmationsGrow
  BY <1>1, <1>3 DEF AttributeToOpen
<1>4. ASSUME NEW a \in Attempts, RepairConfirmation(a) PROVE ConfirmationsGrow
  BY <1>4 DEF RepairConfirmation
<1>5. CASE conf' = conf
  BY <1>5
<1>6. ASSUME NEW a \in Attempts, NEW i \in Insts, CreateAttempt(a, i) \/ AttributionConflict(a, i)
      PROVE  ConfirmationsGrow
  BY <1>5, <1>6 DEF CreateAttempt, AttributionConflict
<1>7. ASSUME NEW a \in Attempts, NEW url \in BOOLEAN, StoreLink(a, url) PROVE ConfirmationsGrow
  BY <1>5, <1>7 DEF StoreLink
<1>8. ASSUME NEW a \in Attempts, NEW st, MoveAttempt(a, st) PROVE ConfirmationsGrow
  BY <1>5, <1>8 DEF MoveAttempt
<1>9. ASSUME NEW a \in Attempts, Fail(a) PROVE ConfirmationsGrow
  BY <1>5, <1>9 DEF Fail
<1>10. ASSUME NEW i \in Insts, CancelInstallment(i) \/ WaiveInstallment(i) \/ MarkDue(i) PROVE ConfirmationsGrow
  BY <1>5, <1>10 DEF CancelInstallment, WaiveInstallment, MarkDue
<1>11. CASE \/ CancelOrder \/ ReopenOrder \/ MarkLate \/ ExpireOrder \/ SuspendOrder \/ ResumeOrder
            \/ RefreshOrder \/ NextDay \/ UNCHANGED db
  BY <1>5, <1>11 DEF CancelOrder, ReopenOrder, MarkLate, ExpireOrder, SuspendOrder, ResumeOrder,
     RefreshOrder, NextDay, db
<1> QED
  BY <1>1, <1>2, <1>3, <1>4, <1>6, <1>7, <1>8, <1>9, <1>10, <1>11
  DEF Next, AttemptStep, AdminStep, OrderStep

\* The attempt behind a payment is the only succeeded one, so it is the one the
\* confirmation was created for.
LEMMA ConfirmationStep ==
  /\ TypeOK /\ OneActiveAttempt /\ PaidHasPayer /\ ConfirmationFollowsPayment
  /\ [Next]_db
  => ConfirmationFollowsPayment'
<1> SUFFICES ASSUME TypeOK, OneActiveAttempt, PaidHasPayer, ConfirmationFollowsPayment, [Next]_db
             PROVE  ConfirmationFollowsPayment'
  OBVIOUS
<1>1. TypeOK' /\ OneActiveAttempt'
  BY TypeStep, OneActiveStep
<1>2. AttemptsAreFinal /\ ConfirmationsGrow /\ PaidTogether
  BY AttemptsFinalStep, ConfirmationsGrowStep, PaidTogetherStep
<1>3. ASSUME NEW a \in Attempts, conf'[a] PROVE attStatus'[a] = "SUCCEEDED"
  BY <1>2, <1>3 DEF ConfirmationsGrow, AttemptsAreFinal, ConfirmationFollowsPayment
<1>4. ASSUME NEW a \in Attempts, attStatus'[a] = "SUCCEEDED", inst'[attInst'[a]] = "PAID" PROVE conf'[a]
  <2>1. attInst'[a] \in Insts
    BY <1>1, <1>4 DEF TypeOK
  <2>2. PICK b \in Attempts : attInst'[b] = attInst'[a] /\ attStatus'[b] = "SUCCEEDED" /\ conf'[b]
    <3>1. CASE inst[attInst'[a]] # "PAID"
      BY <1>2, <1>4, <2>1, <3>1 DEF PaidTogether
    <3>2. CASE inst[attInst'[a]] = "PAID"
      <4>1. PICK b \in Attempts : attInst[b] = attInst'[a] /\ attStatus[b] = "SUCCEEDED"
        BY <2>1, <3>2 DEF PaidHasPayer, HasSucceeded, AttemptsOf
      <4>2. conf[b]
        BY <3>2, <4>1 DEF ConfirmationFollowsPayment
      <4> QED BY <1>2, <4>1, <4>2 DEF AttemptsAreFinal, ConfirmationsGrow
    <3> QED BY <3>1, <3>2
  <2>3. a = b
    BY <1>1, <1>4, <2>2 DEF OneActiveAttempt, ActiveStatuses
  <2> QED BY <2>2, <2>3
<1> QED BY <1>3, <1>4 DEF ConfirmationFollowsPayment

\* A paid installment can always name the succeeded attempt that paid it.
THEOREM PaidHasPayerAlways == Spec => []PaidHasPayer
<1>1. Init => PaidHasPayer
  BY DEF Init, PaidHasPayer
<1> QED BY <1>1, TypeCorrect, PaidHasPayerStep, PTL DEF Spec

\* Confirmation rows and payments always commit together.
THEOREM ConfirmationFollowsPaymentAlways == Spec => []ConfirmationFollowsPayment
<1>1. Init => ConfirmationFollowsPayment
  BY DEF Init, ConfirmationFollowsPayment
<1> QED
  BY <1>1, TypeCorrect, OneActiveAttemptAlways, PaidHasPayerAlways, ConfirmationStep, PTL DEF Spec

-----------------------------------------------------------------------------
\* The order and the access it gives, as they follow from the installments

\* What an order may become in one step: the status derived from the new
\* installments, a hop between two running statuses or two unpaid ones, or
\* CANCELLED with every unpaid installment.
OrderMoves ==
  \/ order' = order
  \/ order' = OrderAfter(order, inst', today)
  \/ order \in {"ACTIVE", "PAST_DUE", "SUSPENDED"} /\ order' \in {"ACTIVE", "PAST_DUE", "SUSPENDED"}
  \/ order \in {"PENDING", "EXPIRED"} /\ order' \in {"PENDING", "EXPIRED"}
  \/ /\ order # "COMPLETED" /\ order' = "CANCELLED"
     /\ \A i \in Insts : inst'[i] \notin UnpaidStatuses

\* Which installments become settled in one step. When none is, access stays as
\* it was; when one is, the order and the access are derived anew.
NothingSettled ==
  /\ \A i \in Insts : inst'[i] \in SettledStatuses => inst'[i] = inst[i]
  /\ access' = access

SomethingSettled ==
  /\ order' = OrderAfter(order, inst', today)
  /\ access' = (access \/ AccessEligible(inst'))

SaleStep == OrderMoves /\ (NothingSettled \/ SomethingSettled)

LEMMA SaleStepStep == TypeOK /\ [Next]_db => SaleStep
<1> SUFFICES ASSUME TypeOK, [Next]_db PROVE SaleStep
  OBVIOUS
<1> USE DEF SaleStep
<1>1. ASSUME OrderMoves, inst' = inst, access' = access PROVE SaleStep
  BY <1>1 DEF NothingSettled
<1>2. ASSUME NEW a \in Attempts, Credit(a) PROVE SaleStep
  BY <1>2 DEF Credit, RecordPayment, OrderMoves, SomethingSettled
<1>3. ASSUME NEW a \in Attempts, NEW i \in Insts, AttributeToNew(a, i) PROVE SaleStep
  BY <1>3 DEF AttributeToNew, RecordPayment, OrderMoves, SomethingSettled
<1>4. ASSUME NEW a \in Attempts, NEW i \in Insts, AttributeToOpen(a, i) PROVE SaleStep
  BY <1>2, <1>4 DEF AttributeToOpen
<1>5. ASSUME NEW i \in Insts, WaiveInstallment(i) PROVE SaleStep
  <2>1. CASE InstAllows(inst[i], "WAIVED")
    BY <1>5, <2>1 DEF WaiveInstallment, OrderMoves, SomethingSettled
  <2>2. CASE ~InstAllows(inst[i], "WAIVED")
    BY <1>1, <1>5, <2>2 DEF WaiveInstallment, OrderMoves
  <2> QED BY <2>1, <2>2
<1>6. ASSUME NEW a \in Attempts, Fail(a) PROVE SaleStep
  BY <1>6 DEF Fail, OrderMoves, NothingSettled, SettledStatuses, TypeOK
<1>7. CASE CancelOrder
  BY <1>7 DEF CancelOrder, OrderAllows, OrderMoves, NothingSettled, SettledStatuses, UnpaidStatuses, TypeOK
<1>8. ASSUME NEW i \in Insts, CancelInstallment(i) PROVE SaleStep
  BY <1>8 DEF CancelInstallment, OrderMoves, NothingSettled, SettledStatuses, TypeOK
<1>9. ASSUME NEW i \in Insts, MarkDue(i) PROVE SaleStep
  BY <1>9 DEF MarkDue, OrderMoves, NothingSettled, SettledStatuses, TypeOK
<1>10. ASSUME NEW a \in Attempts, NEW i \in Insts, CreateAttempt(a, i) \/ AttributionConflict(a, i) PROVE SaleStep
  BY <1>1, <1>10 DEF CreateAttempt, AttributionConflict, OrderMoves
<1>11. ASSUME NEW a \in Attempts, NEW url \in BOOLEAN, StoreLink(a, url) PROVE SaleStep
  BY <1>1, <1>11 DEF StoreLink, OrderMoves
<1>12. ASSUME NEW a \in Attempts, NEW st, MoveAttempt(a, st) PROVE SaleStep
  BY <1>1, <1>12 DEF MoveAttempt, OrderMoves
<1>13. ASSUME NEW a \in Attempts, RepairConfirmation(a) PROVE SaleStep
  BY <1>1, <1>13 DEF RepairConfirmation, OrderMoves
<1>14. CASE ReopenOrder \/ ExpireOrder
  BY <1>1, <1>14 DEF ReopenOrder, ExpireOrder, CanExpire, OrderMoves
<1>15. CASE MarkLate \/ SuspendOrder \/ ResumeOrder
  BY <1>1, <1>15 DEF MarkLate, SuspendOrder, ResumeOrder, OrderAllows, OrderMoves
<1>16. CASE RefreshOrder
  BY <1>1, <1>16 DEF RefreshOrder, OrderMoves
<1>17. CASE NextDay \/ UNCHANGED db
  BY <1>1, <1>17 DEF NextDay, db, OrderMoves
<1> QED
  BY <1>2, <1>3, <1>4, <1>5, <1>6, <1>7, <1>8, <1>9, <1>10, <1>11, <1>12, <1>13, <1>14, <1>15, <1>16, <1>17
  DEF Next, AttemptStep, AdminStep, OrderStep

\* What is settled stays settled, and what is paid stays paid.
LEMMA SettledGrows ==
  ASSUME InstallmentsAreFinal
  PROVE  /\ AllSettled(inst) => AllSettled(inst')
         /\ AnyPaid(inst) => AnyPaid(inst')
         /\ AccessEligible(inst) => AccessEligible(inst')
  BY DEF InstallmentsAreFinal, AllSettled, AnyPaid, AccessEligible, SettledStatuses

\* When nothing becomes settled, nothing that depends on it changes.
LEMMA NothingSettledKeeps ==
  ASSUME InstallmentsAreFinal, NothingSettled
  PROVE  /\ AllSettled(inst) <=> AllSettled(inst')
         /\ AnyPaid(inst) <=> AnyPaid(inst')
         /\ AccessEligible(inst) <=> AccessEligible(inst')
<1>1. AllSettled(inst') => AllSettled(inst)
  BY DEF NothingSettled, AllSettled
<1>2. AnyPaid(inst') => AnyPaid(inst)
  BY DEF NothingSettled, AnyPaid, SettledStatuses
<1> QED BY <1>1, <1>2, SettledGrows DEF AccessEligible

LEMMA ClosedStep == TypeOK /\ ClosedSaleIsClosed /\ [Next]_db => ClosedSaleIsClosed'
<1> SUFFICES ASSUME TypeOK, ClosedSaleIsClosed, [Next]_db PROVE ClosedSaleIsClosed'
  OBVIOUS
<1>1. InstallmentsAreFinal /\ OrderMoves /\ TypeOK'
  BY InstallmentsFinalStep, SaleStepStep, TypeStep DEF SaleStep
<1>2. order' = "COMPLETED" => order = "COMPLETED" \/ AllSettled(inst')
  BY <1>1 DEF OrderMoves, OrderAfter
<1>3. order' = "CANCELLED" => order = "CANCELLED" \/ \A i \in Insts : inst'[i] \notin UnpaidStatuses
  BY <1>1 DEF OrderMoves, OrderAfter
<1>4. (\A i \in Insts : inst[i] \notin UnpaidStatuses) => (\A i \in Insts : inst'[i] \notin UnpaidStatuses)
  BY <1>1 DEF InstallmentsAreFinal, UnpaidStatuses, TypeOK, InstStatuses
<1> QED BY <1>1, <1>2, <1>3, <1>4, SettledGrows DEF ClosedSaleIsClosed

LEMMA OrderMatchesStep == TypeOK /\ OrderMatchesPayments /\ [Next]_db => OrderMatchesPayments'
<1> SUFFICES ASSUME TypeOK, OrderMatchesPayments, [Next]_db PROVE OrderMatchesPayments'
  OBVIOUS
<1> DEFINE Worth(ins) == AnyPaid(ins) \/ AllSettled(ins)
<1>1. InstallmentsAreFinal /\ SaleStep
  BY InstallmentsFinalStep, SaleStepStep
<1>2. Worth(inst) => Worth(inst')
  BY <1>1, SettledGrows
<1>3. CASE NothingSettled
  <2>1. Worth(inst') <=> Worth(inst)
    BY <1>1, <1>3, NothingSettledKeeps
  <2>2. CASE order' = OrderAfter(order, inst', today)
    BY <2>1, <2>2 DEF OrderMatchesPayments, OrderAfter
  <2>3. CASE order' # OrderAfter(order, inst', today)
    BY <1>1, <2>1, <2>3 DEF SaleStep, OrderMoves, OrderMatchesPayments
  <2> QED BY <2>2, <2>3
<1>4. CASE SomethingSettled
  BY <1>2, <1>4 DEF SomethingSettled, OrderMatchesPayments, OrderAfter
<1> QED BY <1>1, <1>3, <1>4 DEF SaleStep

LEMMA AccessStep == TypeOK /\ AccessFollowsPolicy /\ [Next]_db => AccessFollowsPolicy'
<1> SUFFICES ASSUME TypeOK, AccessFollowsPolicy, [Next]_db PROVE AccessFollowsPolicy'
  OBVIOUS
<1>1. InstallmentsAreFinal /\ SaleStep
  BY InstallmentsFinalStep, SaleStepStep
<1>2. CASE NothingSettled
  BY <1>1, <1>2, NothingSettledKeeps, Zenon DEF AccessFollowsPolicy, NothingSettled
<1>3. CASE SomethingSettled
  BY <1>1, <1>3, SettledGrows, Zenon DEF AccessFollowsPolicy, SomethingSettled
<1> QED BY <1>1, <1>2, <1>3 DEF SaleStep

\* COMPLETED sales owe nothing; CANCELLED sales can no longer be paid.
THEOREM ClosedSaleIsClosedAlways == Spec => []ClosedSaleIsClosed
<1>1. Init => ClosedSaleIsClosed
  BY DEF Init, ClosedSaleIsClosed
<1> QED BY <1>1, TypeCorrect, ClosedStep, PTL DEF Spec

\* Before anything is paid or waived, and only then, a sale is unpaid or expired.
THEOREM OrderMatchesPaymentsAlways == Spec => []OrderMatchesPayments
<1>1. ASSUME Init PROVE ~AnyPaid(inst) /\ ~AllSettled(inst)
  BY <1>1, SaleAssumption DEF Init, AnyPaid, AllSettled, SettledStatuses, Insts
<1>2. Init => OrderMatchesPayments
  BY <1>1 DEF Init, OrderMatchesPayments
<1> QED BY <1>2, TypeCorrect, OrderMatchesStep, PTL DEF Spec

\* Access is requested exactly when the frozen access policy grants it.
THEOREM AccessFollowsPolicyAlways == Spec => []AccessFollowsPolicy
<1>1. ASSUME Init PROVE ~AccessEligible(inst)
  BY <1>1, SaleAssumption DEF Init, AccessEligible, AnyPaid, AllSettled, SettledStatuses, Insts
<1>2. Init => AccessFollowsPolicy
  BY <1>1 DEF Init, AccessFollowsPolicy
<1> QED BY <1>2, TypeCorrect, AccessStep, PTL DEF Spec

\* Succeeded attempts, closed installments and closed orders are never rewritten.
THEOREM HistoryIsFinalAlways == Spec => HistoryIsFinal
<1>1. ASSUME TypeOK, ClosedSaleIsClosed, [Next]_db, order \in {"COMPLETED", "CANCELLED"}
      PROVE  order' = order
  <2>1. OrderMoves /\ InstallmentsAreFinal
    BY <1>1, SaleStepStep, InstallmentsFinalStep DEF SaleStep
  <2>2. order = "COMPLETED" => AllSettled(inst')
    BY <1>1, <2>1, SettledGrows DEF ClosedSaleIsClosed
  <2> QED BY <1>1, <2>1, <2>2 DEF OrderMoves, OrderAfter
<1>2. TypeOK /\ ClosedSaleIsClosed /\ [Next]_db =>
         [/\ \A a \in Attempts : attStatus[a] = "SUCCEEDED" =>
                attStatus'[a] = "SUCCEEDED" /\ attInst'[a] = attInst[a]
          /\ \A i \in Insts : inst[i] \in {"PAID", "WAIVED", "CANCELLED"} => inst'[i] = inst[i]
          /\ order \in {"COMPLETED", "CANCELLED"} => order' = order]_db
  BY <1>1, AttemptsFinalStep, InstallmentsFinalStep DEF AttemptsAreFinal, InstallmentsAreFinal
<1> QED BY <1>2, TypeCorrect, ClosedSaleIsClosedAlways, PTL DEF Spec, HistoryIsFinal

-----------------------------------------------------------------------------
\* The rows of a sale implement the ledger (SaleLedger), for any number of
\* installments and attempts and for both access policies.

LEMMA FateValues ==
  ASSUME NEW st \in InstStatuses
  PROVE  /\ FateOf[st] = "owed" <=> st \in UnpaidStatuses
         /\ FateOf[st] = "paid" <=> st = "PAID"
         /\ FateOf[st] = "excused" <=> st = "WAIVED"
         /\ FateOf[st] = "dropped" <=> st = "CANCELLED"
         /\ FateOf[st] \in {"paid", "excused"} <=> st \in SettledStatuses
  BY DEF FateOf, InstStatuses, UnpaidStatuses, SettledStatuses

\* The ledger's two rules are those of the records.
LEMMA LedgerRules ==
  ASSUME NEW ins \in [Insts -> InstStatuses], NEW f, f = [i \in Insts |-> FateOf[ins[i]]]
  PROVE  /\ Ledger!Settled(f) <=> AllSettled(ins)
         /\ Ledger!AccessDue(f) <=> AccessEligible(ins)
<1>1. \A i \in Insts : /\ f[i] = "paid" <=> ins[i] = "PAID"
                       /\ f[i] \in {"paid", "excused"} <=> ins[i] \in SettledStatuses
  BY FateValues
<1>2. Ledger!Settled(f) <=> AllSettled(ins)
  BY <1>1 DEF Ledger!Settled, AllSettled
<1>3. (\E i \in Insts : f[i] = "paid") <=> AnyPaid(ins)
  BY <1>1 DEF AnyPaid
<1> QED BY <1>2, <1>3 DEF Ledger!AccessDue, AccessEligible

LEMMA LedgerInitial == Init => Ledger!LedgerInit
<1> SUFFICES ASSUME Init PROVE Ledger!LedgerInit
  OBVIOUS
<1>1. Fates = [i \in Insts |-> "owed"]
  BY DEF Init, Fates, FateOf, InstStatuses
<1> QED BY <1>1 DEF Init, SaleEnd, Ledger!LedgerInit

-----------------------------------------------------------------------------
\* The kinds of step the records take, as the ledger sees them

LEMMA Unseen ==
  ASSUME TypeOK, TypeOK', \A i \in Insts : FateOf[inst'[i]] = FateOf[inst[i]],
         SaleEnd' = SaleEnd, access' = access
  PROVE  UNCHANGED Ledger!ledger
  BY DEF TypeOK, Fates, Ledger!ledger

\* An order goes on, and its installments are as they were.
LEMMA OrderOnly ==
  ASSUME TypeOK, TypeOK', inst' = inst, access' = access,
         SaleEnd' = SaleEnd \/ (SaleEnd = "open" /\ SaleEnd' = "complete" /\ AllSettled(inst))
  PROVE  [Ledger!LedgerNext]_(Ledger!ledger)
<1>1. CASE SaleEnd' = SaleEnd
  BY <1>1, Unseen
<1>2. CASE SaleEnd = "open" /\ SaleEnd' = "complete" /\ AllSettled(inst)
  <2>1. Ledger!Settled(Fates)
    BY <1>2, LedgerRules DEF TypeOK, Fates
  <2>2. Fates' = Fates
    BY DEF Fates
  <2> QED BY <1>2, <2>1, <2>2 DEF Ledger!Complete, Ledger!LedgerNext
<1> QED BY <1>1, <1>2

\* Where OrderAfter may lead, seen from the ledger.
LEMMA OrderAfterEnds ==
  ASSUME NEW o \in OrderStatuses, NEW ins, NEW d
  PROVE  /\ OrderAfter(o, ins, d) = "CANCELLED" <=> o = "CANCELLED"
         /\ o = "COMPLETED" => OrderAfter(o, ins, d) = "COMPLETED"
         /\ OrderAfter(o, ins, d) = "COMPLETED" => o = "COMPLETED" \/ AllSettled(ins)
  BY DEF OrderAfter, OrderStatuses

\* A payment or a waiver: one installment is settled and the rest follows from it.
LEMMA SettleStep ==
  ASSUME TypeOK, TypeOK', ClosedSaleIsClosed, AccessFollowsPolicy, AccessFollowsPolicy',
         NEW i \in Insts, inst[i] \in UnpaidStatuses \/ inst'[i] = inst[i],
         NEW st \in SettledStatuses, inst' = [inst EXCEPT ![i] = st],
         order' = OrderAfter(order, inst', today)
  PROVE  [Ledger!LedgerNext]_(Ledger!ledger)
<1>1. SaleEnd' = SaleEnd \/ (SaleEnd = "open" /\ SaleEnd' = "complete" /\ AllSettled(inst'))
  BY OrderAfterEnds DEF TypeOK, SaleEnd, OrderStatuses
<1>2. CASE inst'[i] = inst[i]
  <2>1. inst' = inst
    BY <1>2 DEF TypeOK
  <2>2. access' = access
    <3>1. AccessEligible(inst)' <=> AccessEligible(inst)
      BY <2>1 DEF AccessEligible, AllSettled, AnyPaid
    <3>2. access' <=> access
      BY <3>1, Zenon DEF AccessFollowsPolicy
    <3> QED BY <3>2, Zenon DEF TypeOK
  <2> QED BY <1>1, <2>1, <2>2, OrderOnly
<1>3. CASE inst'[i] # inst[i]
  <2>1. inst[i] \in UnpaidStatuses /\ inst'[i] = st
    BY <1>3 DEF TypeOK
  <2>2. SaleEnd = "open"
    BY <2>1 DEF SaleEnd, ClosedSaleIsClosed, AllSettled, UnpaidStatuses, SettledStatuses
  <2>3. Fates[i] = "owed" /\ Fates'[i] \in {"paid", "excused"}
    BY <2>1, FateValues DEF TypeOK, Fates
  <2>4. Fates' = [Fates EXCEPT ![i] = Fates'[i]]
    BY DEF TypeOK, Fates
  <2>5. access' = Ledger!AccessDue(Fates')
    <3>1. Ledger!AccessDue(Fates') <=> AccessEligible(inst')
      BY LedgerRules DEF TypeOK, Fates
    <3>2. access' \in BOOLEAN /\ (access' <=> AccessEligible(inst'))
      BY Zenon DEF TypeOK, AccessFollowsPolicy
    <3>3. Ledger!AccessDue(Fates') \in BOOLEAN
      BY DEF Ledger!AccessDue, Ledger!Settled
    <3> QED BY <3>1, <3>2, <3>3
  <2>6. AllSettled(inst') => Ledger!Settled(Fates')
    BY LedgerRules DEF TypeOK, Fates
  <2>7. Ledger!Settle(i)
    BY <1>1, <2>2, <2>3, <2>4, <2>5, <2>6 DEF Ledger!Settle
  <2> QED BY <2>7 DEF Ledger!LedgerNext
<1> QED BY <1>2, <1>3

\* One installment becomes CANCELLED, or moves among the unpaid statuses.
LEMMA MoveStep ==
  ASSUME TypeOK, TypeOK', ClosedSaleIsClosed, NEW i \in Insts, inst[i] \in UnpaidStatuses,
         NEW st \in UnpaidStatuses \cup {"CANCELLED"}, inst' = [inst EXCEPT ![i] = st],
         order' = order, access' = access
  PROVE  [Ledger!LedgerNext]_(Ledger!ledger)
<1>1. SaleEnd' = SaleEnd /\ SaleEnd = "open"
  BY DEF SaleEnd, ClosedSaleIsClosed, AllSettled, UnpaidStatuses, SettledStatuses
<1>2. CASE st \in UnpaidStatuses
  <2>1. \A j \in Insts : FateOf[inst'[j]] = FateOf[inst[j]]
    BY <1>2, FateValues DEF TypeOK
  <2> QED BY <1>1, <2>1, Unseen
<1>3. CASE st = "CANCELLED"
  <2>1. Fates[i] = "owed" /\ Fates'[i] = "dropped"
    BY <1>3, FateValues DEF TypeOK, Fates
  <2>2. Fates' = [Fates EXCEPT ![i] = "dropped"]
    BY <1>3, <2>1 DEF TypeOK, Fates
  <2>3. Ledger!Drop(i)
    BY <1>1, <2>1, <2>2 DEF Ledger!Drop
  <2> QED BY <2>3 DEF Ledger!LedgerNext
<1> QED BY <1>2, <1>3

LEMMA CancelStep ==
  ASSUME TypeOK, TypeOK', CancelOrder
  PROVE  [Ledger!LedgerNext]_(Ledger!ledger)
<1>1. SaleEnd = "open" /\ SaleEnd' = "cancelled"
  BY DEF CancelOrder, OrderAllows, SaleEnd
<1>2. \A i \in Insts : FateOf[inst'[i]] = IF FateOf[inst[i]] = "owed" THEN "dropped" ELSE FateOf[inst[i]]
  <2> TAKE i \in Insts
  <2>1. CASE inst[i] \in UnpaidStatuses
    <3>1. inst'[i] = "CANCELLED"
      BY <2>1 DEF CancelOrder
    <3> QED BY <2>1, <3>1, FateValues DEF TypeOK, FateOf, InstStatuses
  <2>2. CASE inst[i] \notin UnpaidStatuses
    <3>1. inst'[i] = inst[i]
      BY <2>2 DEF CancelOrder
    <3> QED BY <2>2, <3>1, FateValues DEF TypeOK
  <2> QED BY <2>1, <2>2
<1>3. Fates' = [i \in Insts |-> IF Fates[i] = "owed" THEN "dropped" ELSE Fates[i]]
  BY <1>2 DEF Fates
<1>4. access' = access
  BY DEF CancelOrder
<1> QED BY <1>1, <1>3, <1>4 DEF Ledger!Cancel, Ledger!LedgerNext

\* Where the installment table lets an installment be moved, it is unpaid.
LEMMA MovesAreOfUnpaid ==
  ASSUME NEW from, NEW to \in InstStatuses, InstAllows(from, to)
  PROVE  from \in UnpaidStatuses /\ to \in UnpaidStatuses \cup SettledStatuses \cup {"CANCELLED"}
  BY DEF InstAllows, InstStatuses, UnpaidStatuses, SettledStatuses

LEMMA LedgerStep ==
  /\ TypeOK /\ ClosedSaleIsClosed /\ AccessFollowsPolicy /\ AccessFollowsPolicy'
  /\ [Next]_db
  => [Ledger!LedgerNext]_(Ledger!ledger)
<1> SUFFICES ASSUME TypeOK, ClosedSaleIsClosed, AccessFollowsPolicy, AccessFollowsPolicy', [Next]_db
             PROVE  [Ledger!LedgerNext]_(Ledger!ledger)
  OBVIOUS
<1>1. TypeOK'
  BY TypeStep
<1>2. ASSUME inst' = inst, access' = access, order' = order PROVE [Ledger!LedgerNext]_(Ledger!ledger)
  BY <1>1, <1>2, OrderOnly DEF SaleEnd
<1>3. ASSUME inst' = inst, access' = access, order' \in OrderStatuses \ {"COMPLETED", "CANCELLED"},
             order \notin {"COMPLETED", "CANCELLED"}
      PROVE  [Ledger!LedgerNext]_(Ledger!ledger)
  BY <1>1, <1>3, OrderOnly DEF SaleEnd
<1>4. ASSUME NEW a \in Attempts, Credit(a) PROVE [Ledger!LedgerNext]_(Ledger!ledger)
  <2>1. attInst[a] \in Insts
    BY <1>4 DEF Credit, Creditable, Created, TypeOK
  <2>2. inst[attInst[a]] \in UnpaidStatuses \/ inst[attInst[a]] = "PAID"
    BY <1>4, <2>1, MovesAreOfUnpaid DEF Credit, Creditable, InstStatuses
  <2>3. inst' = [inst EXCEPT ![attInst[a]] = "PAID"] /\ order' = OrderAfter(order, inst', today)
    BY <1>4 DEF Credit, RecordPayment
  <2>4. inst[attInst[a]] \in UnpaidStatuses \/ inst'[attInst[a]] = inst[attInst[a]]
    BY <2>1, <2>2, <2>3 DEF TypeOK
  <2>5. "PAID" \in SettledStatuses
    BY DEF SettledStatuses
  <2> QED BY <1>1, <2>1, <2>3, <2>4, <2>5, SettleStep
<1>5. ASSUME NEW a \in Attempts, NEW i \in Insts, AttributeToNew(a, i)
      PROVE  [Ledger!LedgerNext]_(Ledger!ledger)
  <2>1. inst[i] \in UnpaidStatuses
    BY <1>5 DEF AttributeToNew, Attributable, TypeOK, InstStatuses, UnpaidStatuses
  <2>2. inst' = [inst EXCEPT ![i] = "PAID"] /\ order' = OrderAfter(order, inst', today)
    BY <1>5 DEF AttributeToNew, RecordPayment
  <2>3. "PAID" \in SettledStatuses
    BY DEF SettledStatuses
  <2> QED BY <1>1, <2>1, <2>2, <2>3, SettleStep
<1>6. ASSUME NEW i \in Insts, WaiveInstallment(i) PROVE [Ledger!LedgerNext]_(Ledger!ledger)
  <2>1. CASE InstAllows(inst[i], "WAIVED")
    <3>1. inst[i] \in UnpaidStatuses
      BY <2>1, MovesAreOfUnpaid DEF InstStatuses
    <3>2. inst' = [inst EXCEPT ![i] = "WAIVED"] /\ order' = OrderAfter(order, inst', today)
      BY <1>6, <2>1 DEF WaiveInstallment
    <3>3. "WAIVED" \in SettledStatuses
      BY DEF SettledStatuses
    <3> QED BY <1>1, <3>1, <3>2, <3>3, SettleStep
  <2>2. CASE ~InstAllows(inst[i], "WAIVED")
    BY <1>2, <1>6, <2>2 DEF WaiveInstallment
  <2> QED BY <2>1, <2>2
<1>7. ASSUME NEW i \in Insts, NEW st \in {"FAILED", "CANCELLED", "DUE"}, order' = order, access' = access,
             inst' = [inst EXCEPT ![i] = IF InstAllows(@, st) THEN st ELSE @]
      PROVE  [Ledger!LedgerNext]_(Ledger!ledger)
  <2>1. CASE InstAllows(inst[i], st)
    <3>1. inst[i] \in UnpaidStatuses /\ st \in UnpaidStatuses \cup {"CANCELLED"}
      BY <2>1, MovesAreOfUnpaid DEF InstStatuses, UnpaidStatuses
    <3> QED BY <1>1, <1>7, <2>1, <3>1, MoveStep
  <2>2. CASE ~InstAllows(inst[i], st)
    <3>1. inst' = inst
      BY <1>7, <2>2 DEF TypeOK
    <3> QED BY <1>2, <1>7, <3>1
  <2> QED BY <2>1, <2>2
<1>8. ASSUME NEW a \in Attempts, Fail(a) PROVE [Ledger!LedgerNext]_(Ledger!ledger)
  <2>1. attInst[a] \in Insts
    BY <1>8 DEF Fail, Created, TypeOK
  <2> QED BY <1>7, <1>8, <2>1 DEF Fail
<1>9. ASSUME NEW i \in Insts, CancelInstallment(i) PROVE [Ledger!LedgerNext]_(Ledger!ledger)
  BY <1>7, <1>9 DEF CancelInstallment
<1>10. ASSUME NEW i \in Insts, MarkDue(i) PROVE [Ledger!LedgerNext]_(Ledger!ledger)
  BY <1>7, <1>10 DEF MarkDue
<1>11. CASE CancelOrder
  BY <1>1, <1>11, CancelStep
<1>12. CASE RefreshOrder
  <2>1. inst' = inst /\ access' = access /\ order' = OrderAfter(order, inst, today)
    BY <1>12 DEF RefreshOrder
  <2>2. SaleEnd' = SaleEnd \/ (SaleEnd = "open" /\ SaleEnd' = "complete" /\ AllSettled(inst))
    BY <1>1, <2>1, OrderAfterEnds DEF TypeOK, SaleEnd
  <2> QED BY <1>1, <2>1, <2>2, OrderOnly
<1>13. CASE ReopenOrder \/ MarkLate \/ ExpireOrder \/ SuspendOrder \/ ResumeOrder
  BY <1>3, <1>13 DEF ReopenOrder, MarkLate, ExpireOrder, CanExpire, SuspendOrder, ResumeOrder,
     OrderAllows, OrderStatuses
<1>14. ASSUME NEW a \in Attempts, NEW i \in Insts,
              CreateAttempt(a, i) \/ AttributeToOpen(a, i) \/ AttributionConflict(a, i)
       PROVE  [Ledger!LedgerNext]_(Ledger!ledger)
  BY <1>2, <1>4, <1>14 DEF CreateAttempt, AttributeToOpen, AttributionConflict
<1>15. ASSUME NEW a \in Attempts, NEW url \in BOOLEAN, StoreLink(a, url) PROVE [Ledger!LedgerNext]_(Ledger!ledger)
  BY <1>2, <1>15 DEF StoreLink
<1>16. ASSUME NEW a \in Attempts, NEW st, MoveAttempt(a, st) PROVE [Ledger!LedgerNext]_(Ledger!ledger)
  BY <1>2, <1>16 DEF MoveAttempt
<1>17. ASSUME NEW a \in Attempts, RepairConfirmation(a) PROVE [Ledger!LedgerNext]_(Ledger!ledger)
  BY <1>2, <1>17 DEF RepairConfirmation
<1>18. CASE NextDay \/ UNCHANGED db
  BY <1>2, <1>18 DEF NextDay, db
<1> QED
  BY <1>4, <1>5, <1>6, <1>8, <1>9, <1>10, <1>11, <1>12, <1>13, <1>14, <1>15, <1>16, <1>17, <1>18
  DEF Next, AttemptStep, AdminStep, OrderStep

\* The sale's transactions implement the ledger: installments are decided once
\* and for all, access opens with the decision that makes it due, and the sale
\* ends once.
THEOREM RecordsImplementLedger == Spec => LedgerIsKept
<1>1. Init => Ledger!LedgerInit
  BY LedgerInitial
<1> QED
  BY <1>1, TypeCorrect, ClosedSaleIsClosedAlways, AccessFollowsPolicyAlways, LedgerStep, PTL
  DEF Spec, LedgerIsKept, Ledger!LedgerSpec
=============================================================================
