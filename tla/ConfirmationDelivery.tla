------------------------ MODULE ConfirmationDelivery ------------------------
(***************************************************************************)
(* The e-mail "paiement confirmé" of one payment: the PaymentConfirmation  *)
(* row and the workers that claim it, send outside any transaction and     *)
(* write the outcome back (PaymentConfirmationDeliveryService), with the   *)
(* staff retry (retry_confirmation).  Workers are the thread started after *)
(* the payment, the hourly run and, where it is scheduled, the frequent    *)
(* job.  Backoff is left out: enough time can always have passed.          *)
(***************************************************************************)
EXTENDS Integers, FiniteSets

CONSTANTS
    Workers,      \* threads and jobs that may handle the row
    MaxSends,     \* PAYMENT_CONFIRMATION_MAX_ATTEMPTS
    MaxRetries,   \* bound: times staff asks for another try
    FrequentJob   \* whether process_payment_confirmations is scheduled

ASSUME DeliveryAssumption ==
    /\ IsFiniteSet(Workers)
    /\ MaxSends \in Nat \ {0}
    /\ MaxRetries \in Nat
    /\ FrequentJob \in BOOLEAN

VARIABLES
    status,    \* PaymentConfirmation.status
    count,     \* PaymentConfirmation.attempt_count
    address,   \* whether recipient_snapshot is filled in
    doing,     \* per worker: idle, claimed, or how its send ended
    mails,     \* history: e-mails the customer received
    retries    \* how often staff asked for another try

vars == <<status, count, address, doing, mails, retries>>

Claimable == {"PENDING", "FAILED"}
Ends == {"sent", "bounced", "broken"}

DeliveryTypeOK ==
    /\ status \in {"PENDING", "SENDING", "SENT", "FAILED", "MANUAL_REVIEW"}
    /\ count \in 0..MaxSends
    /\ address \in BOOLEAN
    /\ doing \in [Workers -> {"idle", "claimed"} \cup Ends]
    /\ mails \in Nat
    /\ retries \in 0..MaxRetries
    /\ status = "SENDING" => count > 0

\* create_confirmation, inside the payment's transaction
Init ==
    /\ status = "PENDING"
    /\ count = 0
    /\ address \in BOOLEAN
    /\ doing = [w \in Workers |-> "idle"]
    /\ mails = 0
    /\ retries = 0

-----------------------------------------------------------------------------
\* Mutant of Claim: no limit on the attempts.
ClaimWithoutLimit(w) ==
    /\ doing[w] = "idle"
    /\ status \in Claimable
    /\ status' = "SENDING"
    /\ count' = count + 1
    /\ doing' = [doing EXCEPT ![w] = "claimed"]
    /\ UNCHANGED <<address, mails, retries>>

\* Mutant of Claim: a row that used up its attempts is skipped.
ClaimSkipsExhausted(w) ==
    /\ doing[w] = "idle"
    /\ status \in Claimable
    /\ count < MaxSends
    /\ status' = "SENDING"
    /\ count' = count + 1
    /\ doing' = [doing EXCEPT ![w] = "claimed"]
    /\ UNCHANGED <<address, mails, retries>>

Claim(w) ==
    /\ doing[w] = "idle"
    /\ status \in Claimable
    /\ IF count >= MaxSends
       THEN status' = "MANUAL_REVIEW" /\ UNCHANGED <<count, doing>>
       ELSE /\ status' = "SENDING"
            /\ count' = count + 1
            /\ doing' = [doing EXCEPT ![w] = "claimed"]
    /\ UNCHANGED <<address, mails, retries>>

\* send_mail holds no lock and may take any time: no EMAIL_TIMEOUT is set. A
\* connection lost after the server took the message counts as a failure; an
\* error of any other kind, or an empty address, goes straight to staff.
Send(w, end, arrived) ==
    /\ doing[w] = "claimed"
    /\ end = "sent" => arrived
    /\ arrived \/ end = "bounced" => address
    /\ doing' = [doing EXCEPT ![w] = end]
    /\ mails' = IF arrived THEN mails + 1 ELSE mails
    /\ UNCHANGED <<status, count, address, retries>>

\* Mutant of Finish: every send that returned counts as sent.
FinishAsSent(w) ==
    /\ doing[w] \in Ends
    /\ status' = IF doing[w] = "broken" THEN "MANUAL_REVIEW" ELSE "SENT"
    /\ doing' = [doing EXCEPT ![w] = "idle"]
    /\ UNCHANGED <<count, address, mails, retries>>

\* _mark_sent, _finish_retryable_failure and _finish_manual_review: each locks
\* the row, and none looks at the status it has by then.
Finish(w) ==
    /\ doing[w] \in Ends
    /\ status' = CASE doing[w] = "sent" -> "SENT"
                   [] doing[w] = "broken" -> "MANUAL_REVIEW"
                   [] OTHER -> IF count >= MaxSends THEN "MANUAL_REVIEW" ELSE "FAILED"
    /\ doing' = [doing EXCEPT ![w] = "idle"]
    /\ UNCHANGED <<count, address, mails, retries>>

\* The process stops between the claim and the result.
Die(w) ==
    /\ doing[w] # "idle"
    /\ doing' = [doing EXCEPT ![w] = "idle"]
    /\ UNCHANGED <<status, count, address, mails, retries>>

\* Mutant of ReleaseStuck: a released send starts counting again.
ReleaseStuckAnew ==
    /\ status = "SENDING"
    /\ status' = "FAILED"
    /\ count' = 0
    /\ UNCHANGED <<address, doing, mails, retries>>

\* release_stuck_sends, 15 minutes after the claim. The hourly run gets here only
\* when some confirmation is claimable, the frequent job always.
ReleaseStuck ==
    /\ status = "SENDING"
    /\ status' = "FAILED"
    /\ UNCHANGED <<count, address, doing, mails, retries>>

\* retry_confirmation, after staff filled in the customer's address
Retry ==
    /\ status \in {"FAILED", "MANUAL_REVIEW"}
    /\ retries < MaxRetries
    /\ status' = "PENDING"
    /\ count' = 0
    /\ address' = TRUE
    /\ retries' = retries + 1
    /\ UNCHANGED <<doing, mails>>

Work(w) ==
    \/ \E end \in Ends, arrived \in BOOLEAN : Send(w, end, arrived)
    \/ Finish(w)

Next ==
    \/ \E w \in Workers : Claim(w) \/ Work(w) \/ Die(w)
    \/ ReleaseStuck
    \/ Retry

\* A worker goes on or dies; an hourly run comes again; only the frequent job
\* is sure to look for interrupted sends.
Fairness ==
    /\ \A w \in Workers : WF_vars(Claim(w)) /\ WF_vars(Work(w) \/ Die(w))
    /\ FrequentJob => WF_vars(ReleaseStuck)

Spec == Init /\ [][Next]_vars /\ Fairness

-----------------------------------------------------------------------------
\* Correctness

\* A confirmation counts as sent only when the customer has received one.
SentWasDelivered == status = "SENT" => mails > 0

\* However claims, crashes, releases and outdated results interleave, the
\* customer gets no more e-mails than the attempts each request for one allows.
MailsAreBounded == mails <= MaxSends * (retries + 1)

\* "after this long it is simply retried" (STUCK_SENDING_AFTER): no confirmation
\* stays on its way for ever; it is sent or handed to staff.
DeliverySettles ==
    status \in {"PENDING", "SENDING", "FAILED"} ~> status \in {"SENT", "MANUAL_REVIEW"}
=============================================================================
