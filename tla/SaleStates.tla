----------------------------- MODULE SaleStates -----------------------------
(***************************************************************************)
(* The three state machines of a sale (apps/payments): the Order, its      *)
(* Installments and the PaymentAttempts made to pay one of them, with the  *)
(* transition tables every service goes through, and the two rules derived *)
(* from installments alone: the status an order takes and whether course   *)
(* access is due.                                                          *)
(***************************************************************************)
EXTENDS Integers

CONSTANTS
    NumInstallments,  \* Order.installment_count, frozen from the plan
    FullPayment       \* TRUE: AccessPolicy.FULL_PAYMENT, FALSE: FIRST_INSTALLMENT

ASSUME SaleAssumption ==
    /\ NumInstallments \in Nat \ {0}
    /\ FullPayment \in BOOLEAN

\* Installment.sequence; installment i falls due on day i.
Insts == 1..NumInstallments

-----------------------------------------------------------------------------
\* Statuses

OrderStatuses ==
    {"PENDING", "ACTIVE", "PAST_DUE", "COMPLETED", "CANCELLED", "SUSPENDED", "EXPIRED"}

InstStatuses ==
    {"SCHEDULED", "DUE", "PENDING", "PAID", "FAILED", "WAIVED", "CANCELLED"}

AttemptStatuses ==
    {"CREATED", "LINK_CREATED", "PENDING", "SUCCEEDED", "FAILED", "EXPIRED", "UNKNOWN"}

\* An installment somebody still has to pay, and one that needs no more money.
UnpaidStatuses == {"SCHEDULED", "DUE", "PENDING", "FAILED"}
SettledStatuses == {"PAID", "WAIVED"}

\* The statuses the partial unique index one_active_payment_attempt_per_installment covers.
ActiveStatuses == {"CREATED", "LINK_CREATED", "PENDING", "SUCCEEDED", "UNKNOWN"}
OpenStatuses == ActiveStatuses \ {"SUCCEEDED"}

-----------------------------------------------------------------------------
\* Transition tables. A transition to the status a row already has is a no-op
\* in every service, never an error.

OrderAllows(from, to) ==
    \/ from = "PENDING"   /\ to \in {"ACTIVE", "CANCELLED", "SUSPENDED", "EXPIRED"}
    \/ from = "EXPIRED"   /\ to \in {"ACTIVE", "PENDING", "CANCELLED"}
    \/ from = "ACTIVE"    /\ to \in {"PAST_DUE", "COMPLETED", "CANCELLED", "SUSPENDED"}
    \/ from = "PAST_DUE"  /\ to \in {"ACTIVE", "COMPLETED", "CANCELLED", "SUSPENDED"}
    \/ from = "SUSPENDED" /\ to \in {"ACTIVE", "CANCELLED"}

InstAllows(from, to) ==
    \/ from = "SCHEDULED" /\ to \in {"DUE", "PAID", "FAILED", "WAIVED", "CANCELLED"}
    \/ from = "DUE"       /\ to \in {"PENDING", "PAID", "FAILED", "WAIVED", "CANCELLED"}
    \/ from = "PENDING"   /\ to \in {"PAID", "FAILED", "WAIVED", "CANCELLED"}
    \/ from = "FAILED"    /\ to \in {"DUE", "PENDING", "PAID", "WAIVED", "CANCELLED"}

AttemptAllows(from, to) ==
    \/ from = "CREATED"      /\ to \in {"LINK_CREATED", "FAILED", "EXPIRED", "UNKNOWN"}
    \/ from = "LINK_CREATED" /\ to \in {"PENDING", "SUCCEEDED", "FAILED", "EXPIRED", "UNKNOWN"}
    \/ from = "PENDING"      /\ to \in {"SUCCEEDED", "FAILED", "EXPIRED", "UNKNOWN"}
    \/ from = "FAILED"       /\ to = "UNKNOWN"
    \/ from = "EXPIRED"      /\ to = "UNKNOWN"
    \/ from = "UNKNOWN"      /\ to \in {"SUCCEEDED", "FAILED", "EXPIRED"}

-----------------------------------------------------------------------------
\* What follows from the installments: `ins` maps each of them to its status.

AnyPaid(ins) == \E i \in Insts : ins[i] = "PAID"
AllSettled(ins) == \A i \in Insts : ins[i] \in SettledStatuses
StillLate(ins, today) == \E i \in Insts : ins[i] \in UnpaidStatuses /\ i < today

\* Order.is_access_eligible
AccessEligible(ins) == IF FullPayment THEN AllSettled(ins) ELSE AnyPaid(ins)

\* Mutant of OrderAfter: only a PENDING order is woken by a payment.
OrderAfterKeepsExpired(o, ins, today) ==
    LET woken == IF (AnyPaid(ins) \/ AllSettled(ins)) /\ o = "PENDING" THEN "ACTIVE" ELSE o
    IN  IF o \in {"CANCELLED", "SUSPENDED"} THEN o
        ELSE IF AllSettled(ins) THEN "COMPLETED"
        ELSE IF woken = "PAST_DUE" /\ ~StillLate(ins, today) THEN "ACTIVE" ELSE woken

\* PaymentCreditService._update_order_status: the status an order `o` takes,
\* through the hops the order table allows.
OrderAfter(o, ins, today) ==
    LET woken == IF (AnyPaid(ins) \/ AllSettled(ins)) /\ o \in {"PENDING", "EXPIRED"}
                 THEN "ACTIVE" ELSE o
        caught == IF woken = "PAST_DUE" /\ ~StillLate(ins, today) THEN "ACTIVE" ELSE woken
    IN  IF o \in {"CANCELLED", "SUSPENDED"} THEN o
        ELSE IF AllSettled(ins) THEN "COMPLETED"
        ELSE caught
=============================================================================
