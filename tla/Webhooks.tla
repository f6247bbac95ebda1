------------------------------ MODULE Webhooks ------------------------------
(***************************************************************************)
(* How a payment becomes known: Tara's webhooks (WebhookProcessingService),*)
(* the hourly reconciliation (ReconciliationService._verify_one_attempt),  *)
(* the staff check (PaymentAttemptAdministrationService.check_tara_status) *)
(* and the attribution of a payment that names no attempt.                 *)
(* Each of them asks Tara while holding no lock, applies the answer in one *)
(* transaction, and writes the event afterwards from its own memory.  The  *)
(* checkout appears as the whole transactions it runs meanwhile.           *)
(***************************************************************************)
EXTENDS Tara

CONSTANTS
    Events,      \* webhook deliveries with distinct dedup keys
    Checkers,    \* who checks: the hourly run, staff, or both at once
    MaxChecks    \* RECONCILIATION_STALE_ATTEMPT_MAX_CHECKS

ASSUME EventsAssumption ==
    /\ IsFiniteSet(Events)
    /\ Checkers \subseteq {"hourly", "staff"}
    /\ MaxChecks \in Nat \ {0}

EventStatuses == {"NONE", "RECEIVED", "PROCESSED", "FAILED", "UNCORRELATED", "REJECTED"}

VARIABLES
    evStatus,    \* TaraWebhookEvent.processing_status, NONE before the delivery
    evFor,       \* the attempt its tara_product_id names, 0 when none
    evSaysPaid,  \* whether raw_provider_status is SUCCESS, as stored
    worker,      \* per event: where the request processing it stands
    heard,       \* per event: Tara's answer in that request's memory
    outcome,     \* per event: the processing_status that request will save
    willSay,     \* per event: whether the raw status it will save is SUCCESS
    checking,    \* per checker: the attempt it is looking at, 0 when none
    answer,      \* per checker: Tara's answer, "" before it came, "credited" after
    checks,      \* PaymentAttempt.reconciliation_check_count
    expiring     \* the hourly run has selected the order as stale

events == <<evStatus, evFor, evSaysPaid>>
processing == <<worker, heard, outcome, willSay>>
checker == <<checking, answer, checks>>
vars == <<db, tara, shown, rechecked, events, processing, checker, expiring>>

WebhooksTypeOK ==
    /\ TypeOK
    /\ TaraTypeOK
    /\ evStatus \in [Events -> EventStatuses]
    /\ evFor \in [Events -> Attempts \cup {0}]
    /\ evSaysPaid \in [Events -> BOOLEAN]
    /\ worker \in [Events -> {"none", "ask", "apply", "resolve", "save"}]
    /\ heard \in [Events -> Verdicts \cup {""}]
    /\ outcome \in [Events -> {"", "PROCESSED", "FAILED"}]
    /\ willSay \in [Events -> BOOLEAN]
    /\ checking \in [Checkers -> Attempts \cup {0}]
    /\ answer \in [Checkers -> {"", "SUCCESS", "FAILURE", "inconclusive", "credited"}]
    /\ checks \in [Attempts -> 0..MaxChecks]
    /\ expiring \in BOOLEAN
    /\ \A e \in Events : evStatus[e] \in {"RECEIVED", "PROCESSED", "FAILED"} => Created(evFor[e])
    /\ \A e \in Events : heard[e] # "" <=> worker[e] = "apply"
    /\ \A e \in Events : outcome[e] # "" <=> worker[e] \in {"resolve", "save"}

WebhooksInit ==
    /\ Init
    /\ TaraInit
    /\ evStatus = [e \in Events |-> "NONE"]
    /\ evFor = [e \in Events |-> 0]
    /\ evSaysPaid = [e \in Events |-> FALSE]
    /\ worker = [e \in Events |-> "none"]
    /\ heard = [e \in Events |-> ""]
    /\ outcome = [e \in Events |-> ""]
    /\ willSay = [e \in Events |-> FALSE]
    /\ checking = [v \in Checkers |-> 0]
    /\ answer = [v \in Checkers |-> ""]
    /\ checks = [a \in Attempts |-> 0]
    /\ expiring = FALSE

-----------------------------------------------------------------------------
\* Webhook deliveries. Anybody can send one; an identical redelivery finds its
\* dedup key taken and changes nothing, so it is no action here.

Record(e, status, a, says) ==
    /\ evStatus[e] = "NONE"
    /\ evStatus' = [evStatus EXCEPT ![e] = status]
    /\ evFor' = [evFor EXCEPT ![e] = a]
    /\ evSaysPaid' = [evSaysPaid EXCEPT ![e] = says]

\* Somebody, Tara or not, sends a payload naming an attempt of ours.
Deliver(e, a, says) ==
    /\ Created(a)
    /\ Record(e, "RECEIVED", a, says)
    /\ worker' = [worker EXCEPT ![e] = "ask"]
    /\ UNCHANGED <<db, tara, shown, rechecked, heard, outcome, willSay, checker, expiring>>

\* A payload under another businessId, or one that names no attempt of ours
Dismiss(e, status, a, says) ==
    /\ \/ status = "REJECTED" /\ (a # 0 => Created(a))
       \/ status = "UNCORRELATED" /\ a = 0
    /\ Record(e, status, a, says)
    /\ UNCHANGED <<db, tara, shown, rechecked, processing, checker, expiring>>

AskTara(e, v) ==
    /\ worker[e] = "ask"
    /\ v \in Answers(evFor[e])
    /\ heard' = [heard EXCEPT ![e] = v]
    /\ worker' = [worker EXCEPT ![e] = "apply"]
    /\ UNCHANGED <<db, tara, shown, rechecked, events, outcome, willSay, checker, expiring>>

\* Mutant of Crediting: a refused credit is reported as done.
CreditingNeverRefuses(a, ok) ==
    \/ ok /\ Credit(a)
    \/ ok /\ UNCHANGED db

\* Mutant of Crediting: the statuses read before the call are relied on.
CreditingUnchecked(a, ok) ==
    \/ /\ ok
       /\ attStatus' = [attStatus EXCEPT ![a] = "SUCCEEDED"]
       /\ RecordPayment(a, attInst[a])
       /\ UNCHANGED attInst
    \/ ~ok /\ UNCHANGED db

\* apply_verified_success by a caller that catches its refusals: TRUE is a
\* credit or the idempotent no-op, FALSE a refusal that rolled back. Besides
\* what Creditable rules out, the payment's id may be linked to another attempt,
\* of this sale or any other (PaymentIdConflictError).
Crediting(a, ok) ==
    \/ ok /\ Credit(a)
    \/ ok /\ attStatus[a] = "SUCCEEDED" /\ UNCHANGED db
    \/ ~ok /\ attStatus[a] # "SUCCEEDED" /\ UNCHANGED db

\* _verify_and_apply, up to and including its transaction. What it will save:
\* an answer replaces the status the payload reported, an error leaves it.
\* A payload that reports another amount ends like a REFUSED answer.
Decide(e, next, result, says) ==
    /\ worker' = [worker EXCEPT ![e] = next]
    /\ heard' = [heard EXCEPT ![e] = ""]
    /\ outcome' = [outcome EXCEPT ![e] = result]
    /\ willSay' = [willSay EXCEPT ![e] = says]

ApplyAnswer(e) ==
    LET a == evFor[e] IN
    /\ worker[e] = "apply"
    /\ \/ /\ heard[e] = "SUCCESS"
          /\ \/ Crediting(a, TRUE) /\ Decide(e, "resolve", "PROCESSED", TRUE)
             \/ Crediting(a, FALSE) /\ Decide(e, "save", "FAILED", TRUE)
       \/ heard[e] = "FAILURE" /\ Fail(a) /\ Decide(e, "save", "PROCESSED", FALSE)
       \/ heard[e] \in {"PENDING", "UNKNOWN"} /\ UNCHANGED db /\ Decide(e, "save", "PROCESSED", FALSE)
       \/ heard[e] = "ERROR" /\ UNCHANGED db /\ Decide(e, "save", "FAILED", evSaysPaid[e])
       \/ \E says \in BOOLEAN :
             heard[e] = "REFUSED" /\ UNCHANGED db /\ Decide(e, "save", "FAILED", says)
    /\ UNCHANGED <<tara, shown, rechecked, events, checker, expiring>>

\* resolve_reported_events, in a transaction of its own
Resolved(a) == [e \in Events |->
    IF evFor[e] = a /\ evSaysPaid[e] /\ attStatus[a] = "SUCCEEDED" THEN "PROCESSED" ELSE evStatus[e]]

ResolveOthers(e) ==
    /\ worker[e] = "resolve"
    /\ evStatus' = Resolved(evFor[e])
    /\ worker' = [worker EXCEPT ![e] = "save"]
    /\ UNCHANGED <<db, tara, shown, rechecked, evFor, evSaysPaid, heard, outcome, willSay, checker, expiring>>

Forget(e) ==
    /\ worker' = [worker EXCEPT ![e] = "none"]
    /\ heard' = [heard EXCEPT ![e] = ""]
    /\ outcome' = [outcome EXCEPT ![e] = ""]
    /\ willSay' = [willSay EXCEPT ![e] = FALSE]

\* event.save() writes every column from memory, whatever happened to the row.
SaveEvent(e) ==
    /\ worker[e] = "save"
    /\ evStatus' = [evStatus EXCEPT ![e] = outcome[e]]
    /\ evSaysPaid' = [evSaysPaid EXCEPT ![e] = willSay[e]]
    /\ Forget(e)
    /\ UNCHANGED <<db, tara, shown, rechecked, evFor, checker, expiring>>

\* The request dies between two steps: a killed worker, a deadlock victim. The
\* event stays as it was last stored, and its redelivery is a duplicate.
Die(e) ==
    /\ worker[e] # "none"
    /\ Forget(e)
    /\ UNCHANGED <<db, tara, shown, rechecked, events, checker, expiring>>

-----------------------------------------------------------------------------
\* Checks that start on our side

\* Tara reported a payment we have not confirmed.
Reported(a) == \E e \in Events :
    evFor[e] = a /\ evSaysPaid[e] /\ evStatus[e] # "PROCESSED"

Recheckable == {"PENDING", "UNKNOWN", "LINK_CREATED", "FAILED", "EXPIRED"}

\* _verify_stale_attempts for the hourly run, CHECKABLE_ATTEMPT_STATUSES for staff
MayCheck(v, a) ==
    IF v = "staff" THEN attStatus[a] \in Recheckable
    ELSE /\ checks[a] < MaxChecks
         /\ attStatus[a] \in {"PENDING", "UNKNOWN"} \/ (Reported(a) /\ attStatus[a] \in Recheckable)

StartCheck(v, a) ==
    /\ checking[v] = 0
    /\ MayCheck(v, a)
    /\ checking' = [checking EXCEPT ![v] = a]
    /\ UNCHANGED <<db, tara, shown, rechecked, events, processing, answer, checks, expiring>>

\* Mutant of HearCheck: a payment still pending is taken for a paid one.
HearPendingAsPaid(v, w) ==
    /\ checking[v] # 0
    /\ answer[v] = ""
    /\ w \in Answers(checking[v])
    /\ answer' = [answer EXCEPT ![v] =
            CASE w \in {"SUCCESS", "PENDING"} -> "SUCCESS" [] w = "FAILURE" -> w
              [] OTHER -> "inconclusive"]
    /\ UNCHANGED <<db, tara, shown, rechecked, events, processing, checking, checks, expiring>>

HearCheck(v, w) ==
    /\ checking[v] # 0
    /\ answer[v] = ""
    /\ w \in Answers(checking[v])
    /\ answer' = [answer EXCEPT ![v] = IF w \in {"SUCCESS", "FAILURE"} THEN w ELSE "inconclusive"]
    /\ UNCHANGED <<db, tara, shown, rechecked, events, processing, checking, checks, expiring>>

EndCheck(v) ==
    /\ checking' = [checking EXCEPT ![v] = 0]
    /\ answer' = [answer EXCEPT ![v] = ""]

\* _bump_check_count: the last check of a PENDING attempt leaves it UNKNOWN.
Bump(a) ==
    IF attStatus[a] \notin Recheckable THEN UNCHANGED <<db, checks>>
    ELSE /\ checks' = [checks EXCEPT ![a] = IF @ < MaxChecks THEN @ + 1 ELSE @]
         /\ IF checks'[a] = MaxChecks /\ attStatus[a] = "PENDING"
            THEN MoveAttempt(a, "UNKNOWN") ELSE UNCHANGED db

Inconclusive(v, a) ==
    /\ IF v = "hourly" THEN Bump(a) ELSE UNCHANGED <<db, checks>>
    /\ EndCheck(v)

ApplyCheck(v) ==
    LET a == checking[v] IN
    /\ \/ /\ answer[v] = "SUCCESS"
          /\ \/ /\ Crediting(a, TRUE)
                /\ answer' = [answer EXCEPT ![v] = "credited"]
                /\ UNCHANGED <<checking, checks>>
             \/ attStatus[a] # "SUCCEEDED" /\ Inconclusive(v, a)
       \/ answer[v] = "FAILURE" /\ Fail(a) /\ EndCheck(v) /\ UNCHANGED checks
       \/ answer[v] = "inconclusive" /\ Inconclusive(v, a)
    /\ UNCHANGED <<tara, shown, rechecked, events, processing, expiring>>

ResolveCheck(v) ==
    /\ answer[v] = "credited"
    /\ evStatus' = Resolved(checking[v])
    /\ EndCheck(v)
    /\ UNCHANGED <<db, tara, shown, rechecked, evFor, evSaysPaid, processing, checks, expiring>>

\* The run or the request dies between two steps.
StopCheck(v) ==
    /\ checking[v] # 0
    /\ EndCheck(v)
    /\ UNCHANGED <<db, tara, shown, rechecked, events, processing, checks, expiring>>

-----------------------------------------------------------------------------
\* attribute_webhook_event: the administrator vouches for the money.
Attribute(e, a, i) ==
    /\ evStatus[e] = "UNCORRELATED"
    /\ \/ /\ AttributeToNew(a, i) \/ AttributeToOpen(a, i)
          /\ evStatus' = [evStatus EXCEPT ![e] = "PROCESSED"]
          /\ evFor' = [evFor EXCEPT ![e] = a]
          /\ tara' = [tara EXCEPT ![a] = "success"]
       \/ AttributionConflict(a, i) /\ UNCHANGED <<evStatus, evFor, tara>>
    /\ UNCHANGED <<shown, rechecked, evSaysPaid, processing, checker, expiring>>

-----------------------------------------------------------------------------
\* OrderExpiryService: eligible_orders looks at the events, _expire_one does not.
Unresolved(e) == evFor[e] # 0 /\ evStatus[e] # "PROCESSED"

SelectStale ==
    /\ ~expiring
    /\ CanExpire
    /\ \A i \in Insts : inst[i] \notin SettledStatuses
    /\ \A e \in Events : ~Unresolved(e)
    /\ expiring' = TRUE
    /\ UNCHANGED <<db, tara, shown, rechecked, events, processing, checker>>

ExpireSelected ==
    /\ expiring
    /\ IF CanExpire THEN ExpireOrder ELSE UNCHANGED db
    /\ expiring' = FALSE
    /\ UNCHANGED <<tara, shown, rechecked, events, processing, checker>>

-----------------------------------------------------------------------------
\* What the checkout and staff do meanwhile, one transaction at a time

Paying(a) ==
    \/ (\E i \in Insts : CreateAttempt(a, i)) /\ UNCHANGED <<tara, shown, rechecked>>
    \/ StoreLink(a, TRUE) /\ OpenAtTara(a) /\ shown' = [shown EXCEPT ![a] = TRUE] /\ UNCHANGED rechecked
    \/ MoveAttempt(a, "UNKNOWN") /\ UNCHANGED <<tara, shown, rechecked>>
    \/ MoveAttempt(a, "EXPIRED") /\ UNCHANGED <<tara, shown, rechecked>>
    \/ \E st \in TaraStates : CustomerPays(a, st)

\* _recheck_unknown_attempt
Rechecking(a) ==
    /\ attStatus[a] = "UNKNOWN"
    /\ \/ tara[a] = "success" /\ MoveAttempt(a, "SUCCEEDED")
       \/ tara[a] = "failure" /\ MoveAttempt(a, "FAILED")
    /\ NoteRecheck(a)
    /\ UNCHANGED <<tara, shown>>

Deciding ==
    /\ \/ ReopenOrder
       \/ CancelOrder
       \/ \E i \in Insts : CancelInstallment(i) \/ WaiveInstallment(i)
    /\ UNCHANGED <<tara, shown, rechecked>>

Elsewhere ==
    /\ (\E a \in Attempts : Paying(a) \/ Rechecking(a)) \/ Deciding
    /\ UNCHANGED <<events, processing, checker, expiring>>

-----------------------------------------------------------------------------
EventStep(e) ==
    \/ \E v \in Verdicts : AskTara(e, v)
    \/ ApplyAnswer(e) \/ ResolveOthers(e) \/ SaveEvent(e)

CheckStep(v) ==
    \/ \E w \in Verdicts : HearCheck(v, w)
    \/ ApplyCheck(v) \/ ResolveCheck(v)

WebhooksNext ==
    \/ \E e \in Events, a \in Attempts, says \in BOOLEAN : Deliver(e, a, says)
    \/ \E e \in Events, status \in EventStatuses, a \in Attempts \cup {0}, says \in BOOLEAN :
          Dismiss(e, status, a, says)
    \/ \E e \in Events : EventStep(e) \/ Die(e)
    \/ \E v \in Checkers, a \in Attempts : StartCheck(v, a)
    \/ \E v \in Checkers : CheckStep(v) \/ StopCheck(v)
    \/ \E e \in Events, a \in Attempts, i \in Insts : Attribute(e, a, i)
    \/ SelectStale \/ ExpireSelected
    \/ Elsewhere

\* The hourly job looks at every candidate each time it runs, and it does not
\* die at the same point of the same attempt for ever.
OfHourly(a, step) == step /\ checking["hourly"] = a

Fairness == \A a \in Attempts :
    /\ SF_vars(StartCheck("hourly", a))
    /\ SF_vars(OfHourly(a, \E w \in Verdicts : HearCheck("hourly", w)))
    /\ SF_vars(OfHourly(a, ApplyCheck("hourly")))

WebhooksSafety == WebhooksInit /\ [][WebhooksNext]_vars
WebhooksSpec == WebhooksSafety /\ Fairness

-----------------------------------------------------------------------------
\* Correctness

\* An event that says "paid" is marked PROCESSED - and so leaves the staff's
\* list and the hourly recheck - only once the attempt it names is SUCCEEDED and
\* its installment paid, whoever marked it and whatever was in flight meanwhile;
\* or the recheck made the attempt SUCCEEDED, which "processes" its events though
\* the installment stays unpaid.
ProcessedMeansRecorded ==
    \A e \in Events : evStatus[e] = "PROCESSED" /\ evSaysPaid[e] =>
        LET a == evFor[e] IN
        /\ attStatus[a] = "SUCCEEDED"
        /\ inst[attInst[a]] = "PAID" \/ a \in rechecked

\* "rechecked with the same backoff/cap, so a lost confirmation fixes itself":
\* a report of a payment Tara has is not dropped before the payment is recorded.
UnconfirmedReportIsKept ==
    [][\A e \in Events :
        /\ evSaysPaid[e] /\ Unresolved(e)
        /\ tara[evFor[e]] = "success" /\ attStatus'[evFor[e]] # "SUCCEEDED"
        => evSaysPaid'[e] /\ Unresolved(e)']_vars
=============================================================================
