# ValueCRM in TLA+

ValueCRM sells online courses: a customer pays a plan in one or more
installments through Tara (a mobile-money provider), the application records
the payment and opens access to the course in ClickFunnels. This directory
models the part of it where money, access and messages can go wrong: the
records of a sale, the checkout, how payments become known, what customer and
staff are shown, the e-mails, the opening of access and its suspension for
non-payment.

## Inventory

The application is Django on PostgreSQL (READ COMMITTED). Several processes act
on one sale: web workers serving customers, Tara's webhooks and staff, a thread
started after each payment (`PAYMENT_FOLLOWUPS_MODE = "thread"`), the hourly
`run_hourly_reconciliation`, and, optionally, frequent jobs for e-mails, access,
collection and alerts. They meet in the database. Rows are changed in short
transactions that lock what they read (`select_for_update`); calls to Tara,
ClickFunnels and the mail server are made outside them.

| Component | State | Operations | What makes it hard | Correct when |
|---|---|---|---|---|
| Sale records (`payments/models.py`, `services.py`) | Order, Installment, PaymentAttempt | transitions by table; credit, fail, cancel, waive, attribute, expire | several attempts per installment; payments that arrive after an attempt was closed | one active attempt per installment; PAID has a payer; order and access follow the installments; history is final |
| Checkout (`CheckoutService`) and the status page (`payments/views.py`) | nothing of their own; a request's memory | pick installment, find or create attempt, recheck, replace, create link, store link, display | two tabs, timeouts after Tara acted, writes based on old reads | no wrong success; a payment on any link handed out can be recorded; "nothing was charged" is true |
| Webhooks (`WebhookProcessingService`) | TaraWebhookEvent | record, verify, apply, resolve, save | anyone can send one; duplicates; crash between steps; two at once | an event is PROCESSED only when its payment is recorded (a recheck apart) |
| Verification (`TaraVerificationService`) | none | candidates, bind each answer, conclude | foreign, stray and contradictory answers | success only on proof; proof always taken |
| Hourly run (`ReconciliationService`) | advisory lock; check count of an attempt | eight steps: check, pull, confirm, provision, repair, collect, expire, alert | outdated answers; the cap on checks; steps that fail, runs cut off | a reported payment is recorded or left to staff; the last step is reached |
| Expiry (`OrderExpiryService`) | none | select, expire | selection is not the expiry | nothing that might be paid expires |
| Collection (`InstallmentCollectionService`) | InstallmentReminder, `suspended_for_nonpayment_at` | mark due/late, remind, freeze, resume | rows and e-mails in separate steps; runs without a lock | reminders neither lost nor repeated without cause; debts suspended, settled ones lifted |
| Suspension (`EnrollmentAdministrationService`) | `cf_suspended`, ClickFunnels | freeze, resume, by order or by enrollment | ClickFunnels, column, order and marker are four writes | the column is true; automatic suspensions are marked |
| Staff operations (`admin_services.py`) | AdminAuditLog | cancel, waive, attribute, check, retry | act between any two steps of the others | as for the sale records |
| Confirmation e-mails | PaymentConfirmation | claim, send, result, release, retry | crash after the claim; slow mail server | sent or handed to staff; bounded e-mails |
| Provisioning (`apps/provisioning`) | ProvisioningRequest, ProvisioningAttempt | create, claim, enroll, note, finish, retry, cancel | four commits per execution; lost answers; outdated saves | access recorded only when given; one worker per row |
| Enrollment calls (`apps/enrollments`, `apps/contacts`) | Contact, EnrollmentAttempt, ClickFunnels | look up, create contact, link, enroll, record | lost answers; two callers for one customer | a second enrollment or contact has a named cause |
| Staff alerts and lists (`operations/alerts.py`, `presentation.py`) | StaffAlert | collect, send, record; derive a sale's state | mail before record; one rule written three times | told at least once, repeated only with cause; lists agree |
| Courses, configuration, other screens, HTTP clients | single rows, or none | CRUD, display, HTTP | - | - |

`PROJECT.json` lists the hazards of this code at their lines, with the
properties that cover them.

## Modules

    SaleStates                statuses, tables, and what follows from installments
      SaleRecords             one sale's rows; every transaction that writes them   MCSaleRecords
        SaleLedger            what the sale promises; SaleRecords implements it
        Tara                  the provider and the customer on its page (external)
          Checkout            concurrent checkout requests
            StatusPage        what the customer reads meanwhile     MCCheckout
          Webhooks            webhooks, checks, expiry              MCWebhooks
            SaleView          what staff are shown meanwhile
        Suspension            freeze and resume: ClickFunnels, column, order, marker
    TaraVerification          one verification (what Tara!Answers abstracts)
    Reminders                 the e-mails about one unpaid installment
    ConfirmationDelivery      the e-mail of one payment
      HourlyRun               lock, steps and failures of the hourly run around it
        StaffAlerts           the digest to the team (an instance)
    Provisioning              access of one contact to one course
      Enrolling               the same with every call to ClickFunnels spelled out

**SaleRecords** is the abstract specification of the payment side: an atomic
action per transaction, enabled whenever the transaction would commit, with
nothing said about who runs it or what Tara answered. Transactions lock what
they read and re-read it under the lock (`OrderService.transition` and its
siblings), so this granularity is the code's. `IndexAllows` is the partial
unique index `one_active_payment_attempt_per_installment`, `OrderAfter` is
`_update_order_status`, `Credit` is `apply_verified_success` including
`_reopen_for_late_success`, the confirmation row and the access request.
`MarkDue` and `MarkLate` come from rows selected earlier, so only the table and
the date restrict them; a freeze and a resume come from an order read earlier,
so only the table restricts them too. Checkout, Webhooks and Suspension each
implement it, which is proved for each of them.

**SaleLedger** is what a customer may expect and no row shows: an installment is
owed until it is paid, excused or dropped, for ever; access is asked for in the
step that makes it due; a sale ends once. `SaleRecords` instantiates it with
`fate <- Fates, sale <- SaleEnd, opened <- access`, which leaves out attempts,
orders that are late, suspended or expired, links and dates.

**Checkout** adds the requests. `stage`, `target`, `mine`, `told` and `retried`
are a request's local variables; `Ask` and `RequestLink` are the calls to Tara,
and `Recheck`, `Retire` and `StoreReply` the locked sections after them. Other
writers of the sale run between any two steps (`Others`), and a request may die
anywhere (`Abandon`). **StatusPage** reads its states the way `checkout_status`
does. **Webhooks** does for events (`worker`, `heard`, `outcome`, `willSay` are
a request's memory) and for the two checkers what Checkout does for requests;
the checkout appears there as whole transactions. A redelivered webhook finds
its dedup key taken and changes nothing, so it has no action. **SaleView** reads
its states the way `sale_state`, the inbox, the alert and the filter do.

**Tara** is what the code cannot see: whether a page is open, whether the money
was received. `Answers` lets every lookup fail, find nothing, or be refused,
and makes every definite answer true when given. `rechecked` is a history
variable: which attempts the checkout's recheck made SUCCEEDED. (An attempt may have several
paymentIds, so that a declined older try can still be heard of after a payment
on the same page; `Answers` has that failure before the payment only, from where
the steps after it may be as late as they like.) **TaraVerification** models how
such an answer comes about and shows that SUCCESS needs proof: `Collect` takes
one of the given ids a step, as the loop of `candidate_payment_ids` does, `Hear`
one answer a step, and `Conclude`, `FallBack` or `Raise` end it.

**Suspension** follows one call of `_set_order_suspension` or
`_set_attempt_suspension` through `job[p].at`: picked (by the collection) or
asked for (by staff), admitted, at the ClickFunnels call, at the column's write,
at the order's mirror, at the marker. `frozenBy` is what ClickFunnels does and
for whom, `trouble` remembers whether an answer was lost or two calls
overlapped. A payment enters as one transaction of the records and may leave a
request behind that resumes (`_lift_nonpayment_suspension`).

**Reminders** follows one installment through `_send_reminders`, `_deliver` and
the notice of `_suspend_overdue`. `job` holds the copies a collector works with,
since the row is saved from them.

**ConfirmationDelivery**, **Provisioning** and **Enrolling** model the workers.
Claims, external calls and results are separate steps; saves that ignore the
current row (`Finish`, `SaveStatus`, `Cancel`) ignore it in the model.
**HourlyRun** puts the advisory lock, the eight steps in their order, their
errors and cut-off runs around the confirmation, with the thread, the frequent
job and the alert command beside it; **StaffAlerts** is instantiated for the
digest, with the confirmation handed to staff as the item followed.

Definitions whose comment starts with "Mutant of" are faulty variants of the
definition that follows; each property is checked to fail when its mutant
takes the place of the definition.

## Runs

| Run | Instance | Shows |
|---|---|---|
| records | 2 installments, 3 attempts, first-installment access | TypeOK, OneActiveAttempt, PaidHasPayer, ConfirmationFollowsPayment, OrderMatchesPayments, AccessFollowsPolicy, HistoryIsFinal; SaleRecords implements SaleLedger |
| checkout | 1 installment, 2 attempts, 2 requests | NoFalseSuccess, PaymentStaysReachable, ShownLinkIsKnown, NotStartedIsUncharged |
| webhooks_hourly | 2 attempts, 1 event, hourly checker | NoFalseSuccess, ProcessedMeansRecorded |
| webhooks_liveness | 1 attempt, 1 event, hourly and staff checks, no suspension | Webhooks implements SaleRecords; ReportedPaymentIsSeenTo; FilterMissesOnlyLate |
| delivery | hourly runs, thread, alert command; 2 sends, 1 staff retry, 1 cut-off run, 1 repeated digest | delivery of the confirmation and of the team's alert |
| provisioning | 2 workers, 1 page, 2 rows, 1 try, 1 retry | Enrolling implements Provisioning (with its fairness) and its properties; RepeatsWereLost, ContactsAreShared |
| verification | 3 paymentIds, 2 candidates, 1 earlier webhook | the four verification properties |
| suspension | 2 installments, 2 attempts, the hourly collection, 1 request, faults | RecordIsTrue, AutomaticIsMarked, DebtIsSuspended, SettledIsLifted |
| reminders | hourly run and command, 2 tries | SentWasMailed, RepeatsAreExcused, ReminderSettles |

The type invariant of the records, `TypeOK`, is checked in the run `records`; the
other modules' type invariants are proved instead (see Proofs). StatusPage and
SaleView state none.

Three further runs each state what a comment or docstring says and find it
violated; `findings` in `PROJECT.json` quotes the line:

- `checkout_succeeding`: the recheck of an UNKNOWN attempt writes SUCCEEDED
  without crediting the installment. Nothing can credit it afterwards, and
  cancelling, waiving and attributing are refused for it.
- `webhooks_kept`: "not found" turns a reported payment into a PROCESSED event
  that no longer says SUCCESS.
- `suspension_manual`: staff restore an access (the marker stays), suspend it
  again themselves, and the next settled payment lifts their suspension.

### What the properties except, and why

Properties that hold with an exception name it in the formula, so that the
exception is the only way out; each is something the code really lets happen.

- `NotStartedIsUncharged` (`crossed`): Tara's link comes for an attempt that is
  no longer CREATED - two tabs at once, an answer without a usable link,
  an attempt opened by an attribution. The link is handed out but not stored,
  and the page goes on saying that nothing was charged.
- `PaymentStaysReachable`, `ProcessedMeansRecorded` and
  `ReportedPaymentIsSeenTo` (`rechecked`, the attempts made SUCCEEDED by the
  checkout's recheck, `services.py:755`): the recheck settles nothing, so the
  installment stays unpaid, no payment of it can be credited afterwards, its
  events may be resolved as if it were paid, and staff are shown no report of
  it. `SucceededIsCreditedAlways` proves that this recheck is the only way to a
  SUCCEEDED attempt whose installment is not PAID. `PaymentStaysReachable` also
  counts an installment that staff waived or cancelled as done with: its money
  is then for staff to see to.
- `ReportedPaymentIsSeenTo`: a report taken back (`webhooks_kept`); an
  installment that is no longer owed, for which a sale has no button; and, for
  what `Listed` says, an expired sale, which is in no list, and a suspended one,
  which is in the filter but in neither the inbox nor the alert. The docstring of
  OrderExpiryService says that an unprocessed webhook "keeps the order visible
  for review" (`services.py:1594-1596`). The selection of stale orders does look
  at webhooks, `_expire_one` does not look again, and a webhook may also come
  after the expiry: either way the order is EXPIRED with a reported payment on
  it. What remains is that the hourly run goes on checking it up to the cap, which
  the run shows, and that the order's page has the button, which
  `ReportIsShownAlways` proves too. TLC
  finds the property violated when `Listed` makes no exception of EXPIRED, and
  again when `rechecked` is left out of it.
- `FilterMissesOnlyLate`: an installment late by its date that no hourly run has
  marked yet.
- `RecordIsTrue` (`trouble = "doubt"`): an answer of ClickFunnels that was lost,
  a stop before the column's write, calls that overlapped. The column may then
  differ from ClickFunnels, and the next call that finds it as wanted does
  nothing and reports success.
- `AutomaticIsMarked` (`trouble`): a freeze stopped before its marker looks
  manual and is never lifted automatically; two calls of the collection may
  overlap, because the command and a payment's request do not take the hourly
  run's lock.
- `RepeatsAreExcused`, `DigestsDoNotRepeat`, `RepeatsWereLost`,
  `ContactsAreShared`: a send or enrollment that was cut off before its record
  or whose record failed, that succeeded although it seemed to fail, or that overlapped another.
- `DebtIsSuspended` is about the order's status. After a lost answer or
  overlapping calls (`trouble`) the order may be SUSPENDED while ClickFunnels
  still gives access; `RecordIsTrue` names that.
- `WaitingEnds` (`Orphaned`): a worker that stops after its claim leaves the row
  IN_PROGRESS; nothing looks for such rows.

Also seen while modelling, and claimed by no property: staff restoring an access
leaves the marker, so the sale is never suspended automatically again; an order
completed between the selection and the freeze stays COMPLETED, frozen and
marked; the notice of a suspension is not retried although a comment says so;
a confirmation handed to staff a second time is not alerted again, because an
item's key is recorded once for ever; an installment paid while the loop is
sending to others is still reminded of; a sale's freeze concerns the enrollment
of its last successful provisioning only; a refresh asks Tara about the first
installment's latest attempt even while the page shows another; a contact is
saved whole from the copy read before the calls to ClickFunnels; an event
resolved by a check is turned back to FAILED by the request still processing it
(`services.py:1949`); a refused ClickFunnels token is retried like an outage,
because `enroll_contact` swallows the error.

### Bounds

`MaxAttempts`, `MaxChecks`, `MaxSends`, `MaxTries`, `MaxRetries`, `MaxRequests`,
`MaxCandidates`, `MaxNamed`, `MaxBreaks` and `MaxExcuses` bound counters or
limit rows; all are CONSTANTS. Two attempts of one installment are the smallest
instance with a late success beside a newer attempt, and the index allows no
more than two in play at once; three let a third be created after both. Access
opens with the first payment in the runs, so that open sales can be suspended;
the proofs cover the full-payment policy too. Two installments distinguish
"some paid" from "all settled". Two requests, workers, collectors or events are
what a race needs. The caps the code sets to 3, 5 or 10 are 1 or 2 here: what
matters is below, at and beyond the cap; in `provisioning` one try and one staff
retry give a row two, and the proofs cover all values. `Grace = 0` puts the
suspension's deadline at the end of the due day; `RemindsBefore` is FALSE in the
run, so that a single kind is reminded before the notice. In `suspension` one
collector runs beside one request; the request is a payment's or staff's, which
gives the overlaps of manual and automatic calls. `today` stops a day after the
last due day, when everything unpaid is late. Histories that count e-mails,
enrollments or contacts stop at "several". Two runs use a VIEW,
so that states whose difference no later step and no property sees count once:
`records` leaves out the stored links, which nothing in the records reads;
`webhooks_hourly` takes RECEIVED, FAILED and REJECTED events as equally
unresolved, PENDING and UNKNOWN answers as equally inconclusive, and forgets the
check count of a SUCCEEDED attempt and the selection of an order that cannot
expire any more.

Backoffs, ages and grace periods are left out: any time may have passed.
Amounts are left out: an answer with another amount is a refused one.

`CHECK_DEADLOCK FALSE` is set where a system may rightly come to rest: a
bounded number of requests, events and retries was used up.

### Fairness

- `Webhooks`: strong fairness of the hourly run's three steps per attempt: the
  job comes back every hour to each candidate (docs/OPERATIONS.md schedules
  it), and does not stop for ever at the same point of the same attempt. Tara's
  answers are not assumed to be useful; the cap ends the waiting. Nothing is
  assumed of webhooks, customers or staff.
- `ConfirmationDelivery`: a claimable row is claimed in the end, a worker goes
  on or dies, and stuck sends are released only where the frequent job is
  scheduled (`FrequentJob`). With the hourly job alone `DeliverySettles` does not
  hold: `_process_confirmations` returns early when nothing is claimable.
- `HourlyRun`: runs start again and go on to their next step; a run that claims
  or collects is not cut off every time (the bound on cut-off runs makes this
  the case anyway); the mail server takes the team's digest now and then. A step
  may fail every time, and nobody has to start the alert command.
- `Suspension`: the hourly collection is not stopped at the same place for ever,
  and ClickFunnels answers again and again. Nothing is assumed of payments and
  staff.
- `Reminders`: the same for the hourly run; the command goes on or stops.
  Nothing is assumed of the mail server, so a reminder may also end as FAILED
  with its tries used up.
- `Provisioning` and `Enrolling`: a claimable row is claimed in the end; a worker
  goes on or dies. Nothing releases the row of a dead worker, as in the code.
  That Enrolling's fairness implies Provisioning's is checked in the run.

## Proofs

All theorems are for every value of the constants; they assume only the named
assumptions of the modules. `M_proofs` holds the theorems about `M` and about the
modules that extend it and have none of their own (StatusPage, SaleView,
Enrolling).

**SaleRecords_proofs**: `TypeCorrect`, `OneActiveAttemptAlways`,
`PaidHasPayerAlways`, `ConfirmationFollowsPaymentAlways`,
`OrderMatchesPaymentsAlways`, `ClosedSaleIsClosedAlways`,
`AccessFollowsPolicyAlways` (each `Spec => []Inv`) and `HistoryIsFinalAlways`,
for either access policy. The invariants are inductive in layers. `TypeOK`
stands alone. `OneActiveAttempt` needs only it: every action that makes an
attempt active either asks the index or closes the others. `AttemptsFinalStep`
then says a succeeded attempt stays so: `CloseAttempts` closes open statuses
only, and a late success has no succeeded rival. With it, `PaidHasPayer` and
`ConfirmationFollowsPayment` are kept because an installment becomes PAID only
together with its attempt and its confirmation (`PaidTogetherStep`,
`ConfirmationsGrowStep`). For the order and the access, `SaleStepStep` sorts all
actions into two kinds: either something was settled and order and access
were recomputed from the new installments, or nothing was settled and the order
moved within what `OrderMoves` allows. `OrderMatchesPayments`,
`AccessFollowsPolicy` and `ClosedSaleIsClosed` follow from that distinction.

`RecordsImplementLedger` (`Spec => LedgerIsKept`) comes from the same
distinction and those invariants: a step that settles maps to `Settle`,
one that cancels an installment to `Drop`, one that closes the order to
`Cancel` or `Complete`, every other to a stutter.

**Checkout_proofs**, for every set of requests: `CheckoutTypeCorrect`,
`CheckoutImplementsRecords` (`CheckoutSpec => Spec`: every step of a request,
whatever it remembers, is one of the records' transactions or changes no row),
and from these `CheckoutKeepsOneActive` and `CheckoutKeepsTheSale` (the ledger,
the final history and the records' invariants hold beside any requests).
`SucceededIsCreditedAlways` follows step by step from the records' invariants:
`CreditPays` says that a credited attempt's installment is PAID, and a recheck is
noted in `rechecked`. `CheckoutSucceedsPaid` (`NoFalseSuccess`),
`ShownLinkIsKnownAlways` and, with `SucceededIsCredited`,
`PaymentStaysReachableAlways` come from `MoneyInv`:
`Remembers` says that the attempt a request holds exists and that what Tara told
it of that attempt is still so; `PaidIsStarted` that Tara has money only for
attempts past CREATED, from where the transition table leaves the payment a way
to be credited. `NotStartedIsUnchargedAlways`, of the status page beside the
checkout (`PageSpec`), adds `PageInv`: a stored link is on an attempt past
CREATED, a link the customer was shown is stored unless its attempt had moved
on when it came, and only such links bring money.

**Suspension_proofs**, for any number of collectors and requests:
`SuspensionTypeCorrect`; `SuspensionImplementsRecords` (`SuspensionSpec =>
Spec`), whose invariant `RecordsInv` adds that a job past its admission has an
open access, without which mirroring a freeze would not be a step of the
records; `SuspensionKeepsTheSale`, which follows; `RecordIsTrueAlways` from `ColumnInv` (short of trouble at most one
answer is on its way to the column and it says what ClickFunnels does); and
`AutomaticIsMarkedAlways` from `MarkedInv` (short of trouble the collection has
one call at work, and while ClickFunnels is frozen for it either the marker is
set or that call is a freeze on its way to it).

**Provisioning_proofs**: `ProvisioningTypeCorrect`,
`CompletedMeansEnrolledAlways`, `ClaimIsExclusiveAlways`,
`GrantedIsNotQueuedAlways`. The strengthening: a held row is IN_PROGRESS or
CANCELLED, so nobody else can claim it; and a row has its SUCCESS attempt while
held exactly when its holder wrote it.

**Provisioning_proofs**, about the detailed calls: `EnrollingTypeCorrect`,
`EnrollingImplementsProvisioning` (initial states and steps) and through it
`EnrolledWhenCompleted`, `EnrollingClaimIsExclusive` and
`EnrollingGrantedIsNotQueued`; `RepeatsWereLostAlways`, `ContactsAreSharedAlways`.
The strengthening: an enrollment that landed and was not lost is either recorded
or in the hands of the one worker that holds the row; while no contact exists,
callers about to create one are alone unless they overlapped.

**Webhooks_proofs**, about the safety part `WebhooksSafety` (no fairness), for
any number of events, checkers and checks: `WebhooksTypeCorrect`,
`WebhooksImplementRecords` (`WebhooksSafety => Spec`) and from it
`WebhooksKeepOneActive`; `SucceededIsCreditedAlways`,
`ProcessedMeansRecordedAlways` and `NoFalseSuccessAlways`. The strengthening `Inv` says where an event, a request
and a check can be: a request at work has a stored event, a stored event names
an attempt that exists, an answer belongs to an attempt being checked. A
request's memory is outdated as soon as it is read, so both properties rest on
what stays true of it: `OutcomeIsTrue` (a request about to save PROCESSED has
its attempt SUCCEEDED, and SUCCEEDED is final by `AttemptsFinalStep`), which
gives `ProcessedIsSucceeded` and with `SucceededIsCredited` the installment, and
`HeardIsTrue` (a success heard of is money Tara has, and Tara keeps it). The records'
other invariants, the ledger and the final history follow with
`WebhooksKeepTheSale`. `PaymentStaysReachableAlways` rests on `MoneyIsStarted`:
links go out and money moves on attempts past CREATED only, which none comes back
to, and from every other status the tables leave the payment a way to be
credited, unless an attempt of the installment is SUCCEEDED: then
`SucceededIsCredited` says that it is paid or that the recheck is to blame. Of what staff see meanwhile, `FilterMissesOnlyLateAlways` and
`ReportIsShownAlways`: a report on an attempt that may be checked and whose
installment is owed is `Listed` and has a button that checks it, in any sale,
suspended and expired ones included (`ClosedSaleIsClosed` leaves no others).
That is the safety half of `ReportedPaymentIsSeenTo`; that the hourly run gets there or gives up is left to TLC.

**Reminders_proofs**, for any number of collectors and tries:
`RemindersTypeCorrect`, `SentWasMailedAlways`, `RepeatsAreExcusedAlways`. The
first needs that a collector about to send has a try left (`TryIsLeft`), the
second that a send which returned was received (`OkIsMailed`), so that whichever
copy is saved last tells the truth. For the third, `Once(k)` describes a kind of
reminder nothing has excused yet: at most one collector has its row in hand, and
between collectors the row tells whether the e-mail went out.

**HourlyRun_proofs**, for any number of runs, workers and alert commands:
`HourlyTypeCorrect`; `HourlyDelivers` (every step of the run, its failures and
its crashes included, is a step of ConfirmationDelivery or leaves the
confirmation alone); `SentWasDeliveredAlways` and `MailsAreBoundedAlways`, the
latter from `Budget`: e-mails received plus claims not yet sent never exceed
what the attempts counted so far allow; `AlertedWasMailedAlways`; and
`DigestsDoNotRepeatAlways` from `Tellings`: e-mails about an item plus digests
on their way with it number at most one more than the excuses, and not even that
many once an item is in no digest and still unrecorded.

**TaraVerification_proofs**, for any paymentIds, any limit and any number of
earlier webhooks: `VerificationTypeCorrect`, `SuccessIsProvedAlways`,
`ProofIsTakenAlways`, `FailureIsUnopposedAlways`, `TrustedIdsComeFirstAlways`.
Of the candidates, `Listed` says what the list is after each given id: without
repeats, with every id the caller and the attempt know that was looked at, those
first; `Selected` that the slice to MAX_CANDIDATES keeps that. Of the answers,
`AnswersInv` ties `rejected`, `definitive` and `verdict` to what was heard: no
proof was heard before the verdict SUCCESS; while nothing is rejected every
answer was acceptable; and while there is no definitive answer either, nothing
usable was heard short of a proof.

Every safety property of the passing runs is stated by a theorem. Model-checked
only is liveness (`ReportedPaymentIsSeenTo`, `DeliverySettles`,
`ReviewReachesTeam`, `WaitingEnds`, `DebtIsSuspended`, `SettledIsLifted`,
`ReminderSettles`, and the fairness part of `ProvisioningSpec`): it rests on
fairness and ENABLED, which are out of the prover's reach, as are induction over
data and RECURSIVE operators; the project declares none of the latter. Where a
loop over data matters, in TaraVerification, it is one action per round, so that
an invariant of the state can be proved of it.

## Not modelled

- The ReconciliationRun row and the pulled transaction list: reports that no
  code reads. Audit rows and manual dispositions, for the same reason.
- Lock waits and which transactions deadlock: a victim appears as a request that
  stops (`Die`, `StopCheck`, `Abandon`, `Stop`).
- Finding a reusable order, guest identity beyond the contact's address, several
  enrollments of one customer for one course.
- `request_status_refresh`: it asks Tara to send again and writes nothing.
- Editing a provisioning request by hand: Django's change form leaves its status
  editable (`provisioning/admin.py:36-39`), so staff may set any value there at
  any time. The properties of Provisioning and Enrolling are about requests whose
  status only the code's own operations write. The other records followed here
  are read-only in the admin.
- Configuration of ClickFunnels and Tara, courses and offers, imports, exports,
  lists, forms and templates: single-row screens of one user at a time, without
  a protocol to check. Making a ClickFunnels configuration the active one is two
  statements without a transaction; nobody else writes these rows.
- HTTP, signatures and parsing of the two clients; their outcomes are the
  replies in the models.
- Installment status PENDING and request status AWAITING_APPROVAL exist in the
  tables but no code writes them.

## Plan

Done: the records and their ledger, checkout and status page, webhooks, checks
and staff's view, verification, delivery, the hourly run and alerts,
provisioning with its calls, suspension, reminders, and the proofs above.
Left: the locks each transaction takes, for which pairs can deadlock; the safety
halves of the other liveness properties, as `ReportIsShown` is that of
`ReportedPaymentIsSeenTo`.
