------------------------------ MODULE SaleView ------------------------------
(***************************************************************************)
(* What staff are shown of a sale while payments become known: the state   *)
(* every screen describes it by (apps/operations/presentation.py), the     *)
(* "À traiter" inbox (apps/dashboard/views.py), the alert e-mail's         *)
(* "Paiement à vérifier" (apps/operations/alerts.py) and the "À vérifier"  *)
(* filter of the sales list (apps/operations/views.py).  Reads only: the   *)
(* behaviours are those of Webhooks.                                       *)
(***************************************************************************)
EXTENDS Webhooks

\* Statuses an installment has once nobody has to pay it any more.
ClosedStatuses == {"PAID", "WAIVED", "CANCELLED"}
Unconfirmed == {"PENDING", "UNKNOWN"}

-----------------------------------------------------------------------------
\* presentation.py

\* Attempts whose product Tara reported as paid and that did not succeed.
ReportedAttempts == {a \in Attempts : Reported(a) /\ attStatus[a] # "SUCCEEDED"}

Confirming == \E a \in Attempts : attStatus[a] \in Unconfirmed

\* The due date decides, whether or not the hourly run marked the order.
Late == order = "PAST_DUE" \/ \E i \in Insts : inst[i] \notin ClosedStatuses /\ i < today

Closing == [COMPLETED |-> "paid", CANCELLED |-> "cancelled",
            EXPIRED |-> "expired", SUSPENDED |-> "suspended"]

\* sale_state: the first of these that applies.
SaleState ==
    IF order \in DOMAIN Closing THEN Closing[order]
    ELSE IF ReportedAttempts # {} THEN "to_verify"
    ELSE IF Confirming THEN "confirming"
    ELSE IF order \in {"ACTIVE", "PAST_DUE"} THEN IF Late THEN "late" ELSE "in_progress"
    ELSE IF \E a \in Attempts : attLink[a] THEN "awaiting_payment" ELSE "not_started"

NeedsAttention == SaleState \in {"suspended", "to_verify", "confirming", "late"}

\* attempt_to_verify: what the button "Vérifier le paiement" may offer
Verifiable == {a \in Attempts : attStatus[a] \in Recheckable /\ inst[attInst[a]] \notin ClosedStatuses}

\* Mutant of Offered: only attempts still open are offered.
OfferedWhileOpen == {a \in Verifiable : attStatus[a] \in Unconfirmed \cup {"LINK_CREATED"}}

\* A reported attempt goes before one that only has a link or waits for Tara;
\* the latest of them is the button's.
Offered ==
    LET reported == {a \in Verifiable : Reported(a)} IN
    IF reported # {} THEN reported
    ELSE {a \in Verifiable : attLink[a] \/ attStatus[a] \in Unconfirmed}

Button(a) == a \in Offered /\ \A b \in Offered : b <= a

-----------------------------------------------------------------------------
\* The lists

\* _payment_items, categories "verifier" and "confirmation"
InInbox ==
    /\ order \notin {"COMPLETED", "CANCELLED"}
    /\ Confirming \/ \E a \in Attempts : Reported(a)
    /\ SaleState \in {"to_verify", "confirming"}

\* collect_alert_items: the report is an hour old
InAlert ==
    /\ order # "CANCELLED"
    /\ \E a \in Attempts : Reported(a)
    /\ SaleState = "to_verify"

\* Mutant of InFilter: only a sale that was confirmed is waiting for something.
InFilterConfirmed ==
    \/ order \in {"ACTIVE", "PAST_DUE", "SUSPENDED"} /\ (ReportedAttempts # {} \/ Confirming)
    \/ order \in {"PAST_DUE", "SUSPENDED"}
    \/ order = "ACTIVE" /\ \E i \in Insts : inst[i] \in {"DUE", "FAILED"}

\* _needs_attention_q
InFilter ==
    \/ /\ order \in {"PENDING", "ACTIVE", "PAST_DUE", "SUSPENDED"}
       /\ ReportedAttempts # {} \/ Confirming
    \/ order \in {"PAST_DUE", "SUSPENDED"}
    \/ order = "ACTIVE" /\ \E i \in Insts : inst[i] \in {"DUE", "FAILED"}

-----------------------------------------------------------------------------
\* Correctness

\* Nobody owes what the attempt was to pay: it is paid, or staff excused it.
NothingOwed(a) == inst[attInst[a]] \in ClosedStatuses

\* A sale with a report is where staff look for one. A suspended sale is in the
\* filter alone, and an expired one in no list.
Listed ==
    /\ order \in {"PENDING", "ACTIVE", "PAST_DUE"} => InInbox /\ InAlert
    /\ order # "EXPIRED" => InFilter

\* The sale's own page offers to check a payment that was reported.
HasButton == \E b \in Attempts : Button(b) /\ Reported(b) /\ MayCheck("staff", b)

\* What Tara reported as paid and has is settled sooner or later - or the hourly
\* run gave up on it, and then the sale is listed, with a button that checks a
\* reported payment; unless the report was taken back (UnconfirmedReportIsKept is
\* about that) or the recheck made the attempt SUCCEEDED, which leaves its
\* installment unpaid and hides the report. "An unprocessed webhook" does keep an
\* order from being selected as stale (OrderExpiryService), but one that comes
\* after the selection, or after the expiry, is on a sale that Listed says nothing of.
ReportedPaymentIsSeenTo ==
    \A a \in Attempts :
        (Reported(a) /\ tara[a] = "success" /\ attStatus[a] \in Recheckable) ~>
            \/ ~Reported(a) \/ NothingOwed(a) \/ a \in rechecked
            \/ checks[a] = MaxChecks /\ Listed /\ HasButton

\* "Same rule as sale_state(...).needs_attention, as one ORM filter": written
\* twice, over rows that several processes change, the two agree on every sale
\* that wants attention for more than an installment that is late by its date
\* and that no hourly run has marked yet.
FilterMissesOnlyLate == NeedsAttention /\ SaleState # "late" => InFilter
=============================================================================
