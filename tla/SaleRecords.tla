----------------------------- MODULE SaleRecords -----------------------------
(***************************************************************************)
(* The rows of one sale - the Order, its Installments, its PaymentAttempts *)
(* and the durable follow-up rows - and every database transaction that    *)
(* writes them (apps/payments/services.py, admin_services.py,              *)
(* reconciliation_services.py).  A transaction holds row locks from its    *)
(* first read to its commit and is one atomic action here; when it raises, *)
(* it rolls back and is no step at all.                                    *)
(*                                                                         *)
(* Nothing is said about who runs a transaction, in what order, or what    *)
(* Tara answered: whatever holds of this specification holds for every     *)
(* caller.  Checkout and Webhooks add callers.                             *)
(***************************************************************************)
EXTENDS SaleStates, FiniteSets

CONSTANT MaxAttempts   \* bound: PaymentAttempt rows ever created for the sale

ASSUME RecordsAssumption == MaxAttempts \in Nat \ {0}

\* Rows are created in increasing order, so "latest by created_at" is "greatest".
Attempts == 1..MaxAttempts

VARIABLES
    order,      \* Order.status
    inst,       \* Installment.status of each installment
    attInst,    \* the installment an attempt pays, 0 while the row does not exist
    attStatus,  \* PaymentAttempt.status, "NONE" while the row does not exist
    attLink,    \* whether PaymentAttempt.general_link is stored
    conf,       \* whether the attempt has a PaymentConfirmation row
    access,     \* whether a ProvisioningRequest exists for the sale
    today       \* days since start_date, from 1 to one past the last due day

db == <<order, inst, attInst, attStatus, attLink, conf, access, today>>

TypeOK ==
    /\ order \in OrderStatuses
    /\ inst \in [Insts -> InstStatuses]
    /\ attInst \in [Attempts -> Insts \cup {0}]
    /\ attStatus \in [Attempts -> AttemptStatuses \cup {"NONE"}]
    /\ attLink \in [Attempts -> BOOLEAN]
    /\ conf \in [Attempts -> BOOLEAN]
    /\ access \in BOOLEAN
    /\ today \in 1..(NumInstallments + 1)
    /\ \A a \in Attempts : attInst[a] = 0 <=> attStatus[a] = "NONE"

\* OrderService.create_order: the order and all its installments in one transaction.
Init ==
    /\ order = "PENDING"
    /\ inst = [i \in Insts |-> "SCHEDULED"]
    /\ attInst = [a \in Attempts |-> 0]
    /\ attStatus = [a \in Attempts |-> "NONE"]
    /\ attLink = [a \in Attempts |-> FALSE]
    /\ conf = [a \in Attempts |-> FALSE]
    /\ access = FALSE
    /\ today = 1

-----------------------------------------------------------------------------
\* Queries

Created(a) == attStatus[a] # "NONE"
AttemptsOf(i) == {a \in Attempts : attInst[a] = i}
ActiveOn(i) == {a \in AttemptsOf(i) : attStatus[a] \in ActiveStatuses}
HasSucceeded(i) == \E a \in AttemptsOf(i) : attStatus[a] = "SUCCEEDED"
IsLatest(a, i) == a \in AttemptsOf(i) /\ \A b \in AttemptsOf(i) : b <= a
IsFree(a) == ~Created(a) /\ \A b \in Attempts : b < a => Created(b)

\* The partial unique index: would attempt a, given status st, be the only active one of i?
IndexAllows(a, i, st) == st \in ActiveStatuses => ActiveOn(i) \subseteq {a}

\* A new row is needed unless the latest one can still be continued.
NeedsAttempt(i) == \A a \in Attempts : IsLatest(a, i) => attStatus[a] \in {"FAILED", "EXPIRED"}

-----------------------------------------------------------------------------
\* Checkout: PaymentAttemptService and CheckoutService

\* start_checkout / pay_next_installment reopening an expired order
ReopenOrder ==
    /\ order = "EXPIRED"
    /\ order' = "PENDING"
    /\ UNCHANGED <<inst, attInst, attStatus, attLink, conf, access, today>>

\* Mutant of InsertAttempt: the row does not name its installment.
InsertAttemptOfNothing(a, i, st) ==
    /\ IsFree(a)
    /\ IndexAllows(a, i, st)
    /\ attStatus' = [attStatus EXCEPT ![a] = st]
    /\ UNCHANGED attInst

InsertAttempt(a, i, st) ==
    /\ IsFree(a)
    /\ IndexAllows(a, i, st)
    /\ attInst' = [attInst EXCEPT ![a] = i]
    /\ attStatus' = [attStatus EXCEPT ![a] = st]

\* The creating half of _get_or_create_current_attempt. The installment's own
\* status is not looked at.
CreateAttempt(a, i) ==
    /\ NeedsAttempt(i)
    /\ InsertAttempt(a, i, "CREATED")
    /\ UNCHANGED <<order, inst, attLink, conf, access, today>>

\* Mutant of StoreLink: the link is kept and the status forgotten.
StoreLinkOnly(a, url) ==
    /\ attStatus[a] = "CREATED"
    /\ attLink' = [attLink EXCEPT ![a] = url]
    /\ UNCHANGED <<order, inst, attInst, attStatus, conf, access, today>>

\* _persist_link_result_locked: only a CREATED attempt takes the link.
StoreLink(a, url) ==
    /\ attStatus[a] = "CREATED"
    /\ attStatus' = [attStatus EXCEPT ![a] = "LINK_CREATED"]
    /\ attLink' = [attLink EXCEPT ![a] = url]
    /\ UNCHANGED <<order, inst, attInst, conf, access, today>>

\* _transition_attempt_locked, with the index refusing what the table allows
CanMove(a, st) ==
    /\ AttemptAllows(attStatus[a], st)
    /\ IndexAllows(a, attInst[a], st)

MoveAttempt(a, st) ==
    /\ CanMove(a, st)
    /\ attStatus' = [attStatus EXCEPT ![a] = st]
    /\ UNCHANGED <<order, inst, attInst, attLink, conf, access, today>>

-----------------------------------------------------------------------------
\* Crediting: PaymentCreditService

\* Mutant of LateSuccess: an expired attempt is not reopened by its payment.
LateSuccessOfFailed(a) == attStatus[a] = "FAILED"

LateSuccess(a) == attStatus[a] \in {"FAILED", "EXPIRED"}

\* DuplicatePaymentError
PaidByAnother(a) ==
    /\ LateSuccess(a)
    /\ inst[attInst[a]] = "PAID" \/ HasSucceeded(attInst[a])

\* apply_verified_success reaches its commit with something to credit. A late
\* success is first reopened to UNKNOWN (_reopen_for_late_success).
Creditable(a) ==
    /\ Created(a)
    /\ ~PaidByAnother(a)
    /\ AttemptAllows(IF LateSuccess(a) THEN "UNKNOWN" ELSE attStatus[a], "SUCCEEDED")
    /\ inst[attInst[a]] = "PAID" \/ InstAllows(inst[attInst[a]], "PAID")

\* Mutant of RecordPayment: the confirmation is left to a later step.
RecordPaymentSilently(a, i) ==
    /\ inst' = [inst EXCEPT ![i] = "PAID"]
    /\ order' = OrderAfter(order, inst', today)
    /\ access' = (access \/ AccessEligible(inst'))
    /\ UNCHANGED <<conf, attLink, today>>

\* What a payment by attempt a settles: the installment, the order's status,
\* the confirmation e-mail to send and the access to open.
RecordPayment(a, i) ==
    /\ inst' = [inst EXCEPT ![i] = "PAID"]
    /\ order' = OrderAfter(order, inst', today)
    /\ conf' = [conf EXCEPT ![a] = TRUE]
    /\ access' = (access \/ AccessEligible(inst'))
    /\ UNCHANGED <<attLink, today>>

\* Mutant of Credit: a late success leaves a newer open attempt as it is.
CreditKeepsOthers(a) ==
    /\ Creditable(a)
    /\ attStatus' = [attStatus EXCEPT ![a] = "SUCCEEDED"]
    /\ RecordPayment(a, attInst[a])
    /\ UNCHANGED attInst

Credit(a) ==
    /\ Creditable(a)
    /\ attStatus' = [b \in Attempts |->
            IF b = a THEN "SUCCEEDED"
            ELSE IF LateSuccess(a) /\ attInst[b] = attInst[a] /\ attStatus[b] \in OpenStatuses
                 THEN "EXPIRED" ELSE attStatus[b]]
    /\ RecordPayment(a, attInst[a])
    /\ UNCHANGED attInst

\* Mutant of Fail: the attempt's own table is not asked.
FailAnyway(a) ==
    LET i == attInst[a] IN
    /\ Created(a)
    /\ attStatus' = [attStatus EXCEPT ![a] = "FAILED"]
    /\ inst' = [inst EXCEPT ![i] = IF InstAllows(@, "FAILED") THEN "FAILED" ELSE @]
    /\ UNCHANGED <<order, attInst, attLink, conf, access, today>>

\* apply_verified_failure: both transitions only where the tables allow them
Fail(a) ==
    LET i == attInst[a] IN
    /\ Created(a)
    /\ attStatus' = [attStatus EXCEPT ![a] = IF AttemptAllows(@, "FAILED") THEN "FAILED" ELSE @]
    /\ inst' = [inst EXCEPT ![i] = IF InstAllows(@, "FAILED") THEN "FAILED" ELSE @]
    /\ UNCHANGED <<order, attInst, attLink, conf, access, today>>

\* _repair_missing_followups, confirmation half
RepairConfirmation(a) ==
    /\ attStatus[a] = "SUCCEEDED"
    /\ ~conf[a]
    /\ conf' = [conf EXCEPT ![a] = TRUE]
    /\ UNCHANGED <<order, inst, attInst, attStatus, attLink, access, today>>

-----------------------------------------------------------------------------
\* Hourly collection and expiry

\* Mutant of MarkDue: the selected row is written without asking the table.
MarkDueUnasked(i) ==
    /\ i <= today
    /\ inst[i] # "PAID"
    /\ inst' = [inst EXCEPT ![i] = "DUE"]
    /\ UNCHANGED <<order, attInst, attStatus, attLink, conf, access, today>>

\* _mark_due and _mark_late select rows first and go through the transition
\* tables afterwards: only the tables and the date still hold when they write.
MarkDue(i) ==
    /\ i <= today
    /\ InstAllows(inst[i], "DUE")
    /\ inst' = [inst EXCEPT ![i] = "DUE"]
    /\ UNCHANGED <<order, attInst, attStatus, attLink, conf, access, today>>

MarkLate ==
    /\ \E i \in Insts : i < today
    /\ OrderAllows(order, "PAST_DUE")
    /\ order' = "PAST_DUE"
    /\ UNCHANGED <<inst, attInst, attStatus, attLink, conf, access, today>>

\* OrderExpiryService._expire_one: the order and its attempts are rechecked
\* under lock, the webhook events are not.
CanExpire ==
    /\ order = "PENDING"
    /\ \A a \in Attempts : attStatus[a] \notin {"SUCCEEDED", "PENDING", "UNKNOWN"}

ExpireOrder ==
    /\ CanExpire
    /\ order' = "EXPIRED"
    /\ attStatus' = [a \in Attempts |->
            IF attStatus[a] \in {"CREATED", "LINK_CREATED"} THEN "EXPIRED" ELSE attStatus[a]]
    /\ UNCHANGED <<inst, attInst, attLink, conf, access, today>>

-----------------------------------------------------------------------------
\* Administration: OrderAdministrationService, ReconciliationAdministrationService

\* Mutant of CloseAttempts: a succeeded attempt is closed with the others.
CloseAttemptsOfAnyKind(S) ==
    attStatus' = [a \in Attempts |->
        IF attInst[a] \in S /\ attStatus[a] \in ActiveStatuses THEN "EXPIRED" ELSE attStatus[a]]

\* The open attempts of the installments in S end as EXPIRED.
CloseAttempts(S) ==
    attStatus' = [a \in Attempts |->
        IF attInst[a] \in S /\ attStatus[a] \in OpenStatuses THEN "EXPIRED" ELSE attStatus[a]]

CancelOrder ==
    LET unpaid == {i \in Insts : inst[i] \in UnpaidStatuses} IN
    /\ OrderAllows(order, "CANCELLED")
    /\ order' = "CANCELLED"
    /\ inst' = [i \in Insts |-> IF i \in unpaid THEN "CANCELLED" ELSE inst[i]]
    /\ CloseAttempts(unpaid)
    /\ UNCHANGED <<attInst, attLink, conf, access, today>>

\* Both single-installment decisions refuse one that is paid or has a
\* SUCCEEDED attempt, then close its attempts before the table is asked.
NotPaid(i) == inst[i] # "PAID" /\ ~HasSucceeded(i)

CancelInstallment(i) ==
    /\ NotPaid(i)
    /\ inst[i] # "CANCELLED"
    /\ CloseAttempts({i})
    /\ inst' = [inst EXCEPT ![i] = IF InstAllows(@, "CANCELLED") THEN "CANCELLED" ELSE @]
    /\ UNCHANGED <<order, attInst, attLink, conf, access, today>>

\* Mutant of WaiveInstallment: access is opened without asking the policy.
WaiveOpensAccess(i) ==
    /\ NotPaid(i)
    /\ inst[i] # "WAIVED"
    /\ CloseAttempts({i})
    /\ InstAllows(inst[i], "WAIVED")
    /\ inst' = [inst EXCEPT ![i] = "WAIVED"]
    /\ order' = OrderAfter(order, inst', today)
    /\ access' = TRUE
    /\ UNCHANGED <<attInst, attLink, conf, today>>

WaiveInstallment(i) ==
    /\ NotPaid(i)
    /\ inst[i] # "WAIVED"
    /\ CloseAttempts({i})
    /\ IF InstAllows(inst[i], "WAIVED")
       THEN /\ inst' = [inst EXCEPT ![i] = "WAIVED"]
            /\ order' = OrderAfter(order, inst', today)
            /\ access' = (access \/ AccessEligible(inst'))
       ELSE UNCHANGED <<inst, order, access>>
    /\ UNCHANGED <<attInst, attLink, conf, today>>

\* attribute_webhook_event credits an open attempt of the installment, or a
\* new one; when the paymentId is already taken, the new row stays behind.
Attributable(i) == inst[i] \notin {"PAID", "CANCELLED", "WAIVED"}
OpenOn(i) == {a \in AttemptsOf(i) : attStatus[a] \in OpenStatuses}

AttributeToNew(a, i) ==
    /\ Attributable(i)
    /\ OpenOn(i) = {}
    /\ IndexAllows(a, i, "PENDING")
    /\ IsFree(a)
    /\ attInst' = [attInst EXCEPT ![a] = i]
    /\ attStatus' = [attStatus EXCEPT ![a] = "SUCCEEDED"]
    /\ RecordPayment(a, i)

AttributeToOpen(a, i) ==
    /\ Attributable(i)
    /\ a \in OpenOn(i)
    /\ Credit(a)

AttributionConflict(a, i) ==
    /\ Attributable(i)
    /\ OpenOn(i) = {}
    /\ InsertAttempt(a, i, "PENDING")
    /\ UNCHANGED <<order, inst, attLink, conf, access, today>>

-----------------------------------------------------------------------------
\* Suspension of access, as far as it shows on the order. A freeze is asked for
\* on an ACTIVE or PAST_DUE order, which never becomes PENDING again.

SuspendOrder ==
    /\ access
    /\ order \in {"ACTIVE", "PAST_DUE"}
    /\ order' = "SUSPENDED"
    /\ UNCHANGED <<inst, attInst, attStatus, attLink, conf, access, today>>

\* The mirror step of resume_order_enrollment: the order was SUSPENDED when it
\* was asked for, another resume and _mark_late may have come first.
ResumeOrder ==
    /\ order \in {"SUSPENDED", "PAST_DUE"}
    /\ order' = "ACTIVE"
    /\ UNCHANGED <<inst, attInst, attStatus, attLink, conf, access, today>>

\* The closing transaction of resume_if_settled, whatever became of the order
\* since it was resumed.
RefreshOrder ==
    /\ order' = OrderAfter(order, inst, today)
    /\ UNCHANGED <<inst, attInst, attStatus, attLink, conf, access, today>>

NextDay ==
    /\ today <= NumInstallments
    /\ today' = today + 1
    /\ UNCHANGED <<order, inst, attInst, attStatus, attLink, conf, access>>

-----------------------------------------------------------------------------
AttemptStep(a) ==
    \/ \E i \in Insts : CreateAttempt(a, i)
    \/ \E url \in BOOLEAN : StoreLink(a, url)
    \/ \E st \in {"SUCCEEDED", "FAILED", "EXPIRED", "UNKNOWN"} : MoveAttempt(a, st)
    \/ Credit(a)
    \/ Fail(a)
    \/ RepairConfirmation(a)

AdminStep ==
    \/ CancelOrder
    \/ \E i \in Insts : CancelInstallment(i) \/ WaiveInstallment(i)
    \/ \E a \in Attempts, i \in Insts :
          AttributeToNew(a, i) \/ AttributeToOpen(a, i) \/ AttributionConflict(a, i)

OrderStep ==
    \/ ReopenOrder
    \/ \E i \in Insts : MarkDue(i)
    \/ MarkLate
    \/ ExpireOrder
    \/ SuspendOrder
    \/ ResumeOrder
    \/ RefreshOrder
    \/ NextDay

Next ==
    \/ \E a \in Attempts : AttemptStep(a)
    \/ AdminStep
    \/ OrderStep

Spec == Init /\ [][Next]_db

-----------------------------------------------------------------------------
\* Correctness

\* At most one attempt of an installment is open or succeeded: the customer is
\* never credited for it twice. The index guards the inserts and the generic
\* transition; crediting, expiry and the admin operations keep it on their own.
OneActiveAttempt ==
    \A a, b \in Attempts :
        /\ attInst[a] = attInst[b]
        /\ attStatus[a] \in ActiveStatuses
        /\ attStatus[b] \in ActiveStatuses
        => a = b

\* A paid installment can always name the succeeded attempt that paid it
\* (PAID is written by apply_verified_success only, SUCCEEDED is terminal).
PaidHasPayer == \A i \in Insts : inst[i] = "PAID" => HasSucceeded(i)

\* The confirmation row exists only for a succeeded attempt, and the attempt
\* behind a paid installment always has its row: both commit together.
ConfirmationFollowsPayment ==
    \A a \in Attempts :
        /\ conf[a] => attStatus[a] = "SUCCEEDED"
        /\ attStatus[a] = "SUCCEEDED" /\ inst[attInst[a]] = "PAID" => conf[a]

\* A sale with money on it, or with nothing left to pay, is not shown as
\* unpaid or expired, and a running sale has one or the other.
OrderMatchesPayments ==
    /\ (AnyPaid(inst) \/ AllSettled(inst)) => order \notin {"PENDING", "EXPIRED"}
    /\ order \in {"ACTIVE", "PAST_DUE", "SUSPENDED", "COMPLETED"} =>
          AnyPaid(inst) \/ AllSettled(inst)

\* COMPLETED means nothing is owed; CANCELLED means nothing can still be paid.
ClosedSaleIsClosed ==
    /\ order = "COMPLETED" => AllSettled(inst)
    /\ order = "CANCELLED" => \A i \in Insts : inst[i] \notin UnpaidStatuses

\* Course access is requested exactly when the frozen access policy grants it,
\* and what was granted is never withdrawn by a later installment decision.
AccessFollowsPolicy == access <=> AccessEligible(inst)

\* Payment history is never rewritten: no step changes a succeeded attempt, a
\* paid, waived or cancelled installment, or a completed or cancelled order.
HistoryIsFinal ==
    [][/\ \A a \in Attempts : attStatus[a] = "SUCCEEDED" =>
             attStatus'[a] = "SUCCEEDED" /\ attInst'[a] = attInst[a]
       /\ \A i \in Insts : inst[i] \in {"PAID", "WAIVED", "CANCELLED"} => inst'[i] = inst[i]
       /\ order \in {"COMPLETED", "CANCELLED"} => order' = order]_db

\* What the rows say of each installment and of the sale, as a ledger would.
FateOf == [st \in InstStatuses |->
    IF st = "PAID" THEN "paid"
    ELSE IF st = "WAIVED" THEN "excused"
    ELSE IF st = "CANCELLED" THEN "dropped" ELSE "owed"]
Fates == [i \in Insts |-> FateOf[inst[i]]]
SaleEnd == IF order = "COMPLETED" THEN "complete" ELSE IF order = "CANCELLED" THEN "cancelled" ELSE "open"

Ledger == INSTANCE SaleLedger WITH fate <- Fates, sale <- SaleEnd, opened <- access

\* Every transaction is a step of the ledger or shows nothing in it: one
\* installment is decided at a time, except by a cancellation, which takes all
\* that is owed; the access opens in the transaction of the payment or waiver
\* that makes it due; no decision comes after the sale's end.
LedgerIsKept == Ledger!LedgerSpec
=============================================================================
