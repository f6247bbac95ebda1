-------------------------------- MODULE Tara --------------------------------
(***************************************************************************)
(* The payment provider beside the records of a sale: what Tara itself     *)
(* knows of each attempt's productId, what the customer does on the        *)
(* payment page, and what a server-to-server status request may be told.   *)
(* Tara is no part of the repository; it is modelled from how the code     *)
(* uses it (integrations/payments/tara, TaraVerificationService).          *)
(***************************************************************************)
EXTENDS SaleRecords

VARIABLES
    tara,      \* per attempt: what happened to its payment on Tara's side
    shown,     \* per attempt: whether a customer was ever handed its link
    rechecked  \* history: attempts that the checkout's recheck made SUCCEEDED, crediting nothing

TaraStates == {"none", "open", "pending", "failure", "success"}

\* SUCCESS, FAILURE, PENDING and UNKNOWN are TaraTransactionStatus. ERROR is a
\* call that raised; REFUSED an answer that names another payment or amount.
Verdicts == {"SUCCESS", "FAILURE", "PENDING", "UNKNOWN", "ERROR", "REFUSED"}

TaraTypeOK ==
    /\ tara \in [Attempts -> TaraStates]
    /\ shown \in [Attempts -> BOOLEAN]
    /\ rechecked \subseteq Attempts

TaraInit ==
    /\ tara = [a \in Attempts |-> "none"]
    /\ shown = [a \in Attempts |-> FALSE]
    /\ rechecked = {}

\* Any call may fail, not find the payment, or be told of another one; any
\* definite answer is the truth of that moment.
Answers(a) ==
    {"UNKNOWN", "ERROR", "REFUSED"} \cup
    {v \in {"SUCCESS", "FAILURE", "PENDING"} :
        \/ v = "SUCCESS" /\ tara[a] = "success"
        \/ v = "FAILURE" /\ tara[a] = "failure"
        \/ v = "PENDING" /\ tara[a] = "pending"}

\* create_payment_link reaching Tara; asking again for a productId changes nothing.
OpenAtTara(a) == tara' = [tara EXCEPT ![a] = IF @ = "none" THEN "open" ELSE @]

\* The customer on a payment page they were sent to. A declined try can be
\* followed by a successful one on the same page; a success is final.
CustomerPays(a, st) ==
    /\ shown[a]
    /\ tara[a] \notin {"none", "success"}
    /\ st \in {"pending", "failure", "success"}
    /\ st # tara[a]
    /\ tara' = [tara EXCEPT ![a] = st]
    /\ UNCHANGED <<db, shown, rechecked>>

\* _recheck_unknown_attempt writes Tara's answer to the attempt alone.
NoteRecheck(a) ==
    rechecked' = IF attStatus[a] # "SUCCEEDED" /\ attStatus'[a] = "SUCCEEDED"
                 THEN rechecked \cup {a} ELSE rechecked

-----------------------------------------------------------------------------
\* Correctness of records and money together, for every module that has both

\* No attempt is succeeded unless its money was received: the answers
\* heard by the checkout, by webhooks and by checks are never mixed up between
\* attempts, or with a declined, pending or unknown payment.
NoFalseSuccess == \A a \in Attempts : attStatus[a] = "SUCCEEDED" => tara[a] = "success"

\* Where the recheck took an attempt of a's installment for paid, nothing credits
\* the installment by either of them any more.
SpoiltByRecheck(a) == \E b \in rechecked : attInst[b] = attInst[a]

\* What is SUCCEEDED has settled its installment, unless the recheck wrote it:
\* "the only path allowed to transition PaymentAttempt -> SUCCEEDED / Installment
\* -> PAID" (PaymentCreditService) has that one rival (SucceedingCredits).
SucceededIsCredited ==
    \A a \in Attempts : attStatus[a] = "SUCCEEDED" => inst[attInst[a]] = "PAID" \/ a \in rechecked

\* Money stays within reach: a payment Tara received on a link has its installment
\* paid, can still be credited, or is for an installment staff closed. Every step
\* that closes, replaces or overwrites an attempt keeps the way back to it. One
\* step does not, and is the exception: a recheck that makes an attempt of the
\* installment SUCCEEDED leaves it unpaid and its payments uncreditable.
PaymentStaysReachable ==
    \A a \in Attempts : tara[a] = "success" =>
        \/ inst[attInst[a]] \in {"PAID", "CANCELLED", "WAIVED"}
        \/ Creditable(a)
        \/ SpoiltByRecheck(a)
=============================================================================
