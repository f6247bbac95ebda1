------------------------------ MODULE Reminders ------------------------------
(***************************************************************************)
(* The e-mails to the customer about one unpaid installment                *)
(* (InstallmentCollectionService: _send_reminders, _deliver and the notice *)
(* of _suspend_overdue): one InstallmentReminder row per kind, created     *)
(* before the first send and saved after each, with no lock in between.    *)
(* The hourly run and the process_installments command can both be at it.  *)
(* The freeze itself is in Suspension; here it succeeds or it does not.    *)
(***************************************************************************)
EXTENDS Integers, FiniteSets

CONSTANTS
    Collectors,  \* hourly runs and process_installments commands
    Hourly,      \* the one that is started again and again
    MaxTries,    \* _REMINDER_MAX_ATTEMPTS
    RemindsBefore \* INSTALLMENT_REMINDER_DAYS_BEFORE > 0

ASSUME RemindersAssumption ==
    /\ IsFiniteSet(Collectors)
    /\ Hourly \in Collectors
    /\ MaxTries \in Nat \ {0}
    /\ RemindsBefore \in BOOLEAN

VARIABLES
    day,      \* where the business day stands towards the due date
    sale,     \* whether the installment is collectable, frozen or closed
    marked,   \* Order.suspended_for_nonpayment_at is set
    address,  \* whether the customer has an e-mail address
    row,      \* InstallmentReminder.status by kind, NONE when there is no row
    tries,    \* InstallmentReminder.attempts by kind
    job,      \* per collector: where it is and the copies it works with
    mails,    \* history: e-mails the customer received, by kind (2: several)
    excused   \* history: the kinds something happened to that lets one be repeated

facts == <<day, sale, marked, address>>
vars == <<facts, row, tries, job, mails, excused>>

Kinds == {"BEFORE_DUE", "DUE_DAY", "SUSPENDED"}
Days == {"before", "due", "late"}
Statuses == {"NONE", "FAILED", "SENT", "SKIPPED_NO_EMAIL"}
Points == {"idle", "freeze", "look", "create", "send", "save"}

Idle == [at |-> "idle", kind |-> "DUE_DAY", to |-> FALSE, tries |-> 0, ok |-> FALSE]

RemindersTypeOK ==
    /\ day \in Days
    /\ sale \in {"collectable", "frozen", "closed"}
    /\ marked \in BOOLEAN
    /\ address \in BOOLEAN
    /\ row \in [Kinds -> Statuses]
    /\ tries \in [Kinds -> 0..MaxTries]
    /\ job \in [Collectors -> [at : Points, kind : Kinds, to : BOOLEAN, tries : 0..MaxTries, ok : BOOLEAN]]
    /\ mails \in [Kinds -> 0..2]
    /\ excused \subseteq Kinds
    /\ \A k \in Kinds : tries[k] > 0 => row[k] # "NONE"

Init ==
    /\ day = "before"
    /\ sale = "collectable"
    /\ marked = FALSE
    /\ address \in BOOLEAN
    /\ row = [k \in Kinds |-> "NONE"]
    /\ tries = [k \in Kinds |-> 0]
    /\ job = [c \in Collectors |-> Idle]
    /\ mails = [k \in Kinds |-> 0]
    /\ excused = {}

-----------------------------------------------------------------------------
At(c, point) == job[c].at = point
Kind(c) == job[c].kind
Goto(c, point) == job' = [job EXCEPT ![c].at = point]
Rest(c) == job' = [job EXCEPT ![c] = Idle]

Excuse(c, happens) == excused' = IF happens THEN excused \cup {Kind(c)} ELSE excused

-----------------------------------------------------------------------------
\* _send_reminders: the candidates, with their customers' addresses, are read
\* once; their reminders are looked up one after the other.

DueKind == IF day = "before" THEN "BEFORE_DUE" ELSE "DUE_DAY"

Select(c) ==
    /\ At(c, "idle")
    /\ sale = "collectable" /\ (day = "before" => RemindsBefore)
    /\ job' = [job EXCEPT ![c] = [Idle EXCEPT !.at = "look", !.kind = DueKind, !.to = address]]
    /\ UNCHANGED <<facts, row, tries, mails, excused>>

\* Another collector has the row in hand already.
Overlapping(c) ==
    \E d \in Collectors \ {c} : Kind(d) = Kind(c) /\ job[d].at \in {"send", "save"}

Retryable(k) == row[k] = "FAILED" /\ tries[k] < MaxTries

\* Mutant of Look: a reminder that failed once is given up.
LookWithoutRetry(c) ==
    /\ At(c, "look")
    /\ IF row[Kind(c)] = "NONE" THEN Goto(c, "create") ELSE Rest(c)
    /\ UNCHANGED <<facts, row, tries, mails, excused>>

Look(c) ==
    /\ At(c, "look")
    /\ IF Retryable(Kind(c))
       THEN /\ job' = [job EXCEPT ![c].at = "send", ![c].tries = tries[Kind(c)]]
            /\ Excuse(c, Overlapping(c))
       ELSE /\ IF row[Kind(c)] = "NONE" THEN Goto(c, "create") ELSE Rest(c)
            /\ UNCHANGED excused
    /\ UNCHANGED <<facts, row, tries, mails>>

-----------------------------------------------------------------------------
\* _suspend_overdue: an order past its deadline and not marked is frozen; once it
\* is, it gets the marker and the customer the notice.

SelectOverdue(c) ==
    /\ At(c, "idle")
    /\ sale = "collectable" /\ day = "late" /\ ~marked
    /\ job' = [job EXCEPT ![c] = [Idle EXCEPT !.at = "freeze", !.kind = "SUSPENDED"]]
    /\ UNCHANGED <<facts, row, tries, mails, excused>>

Freeze(c) ==
    /\ At(c, "freeze")
    /\ sale \in {"collectable", "closed"}
    /\ sale' = IF sale = "closed" THEN "closed" ELSE "frozen"
    /\ marked' = TRUE
    /\ job' = [job EXCEPT ![c].at = "create", ![c].to = address]
    /\ UNCHANGED <<day, address, row, tries, mails, excused>>

FreezeRefused(c) ==
    /\ At(c, "freeze")
    /\ Rest(c)
    /\ UNCHANGED <<facts, row, tries, mails, excused>>

-----------------------------------------------------------------------------
\* _deliver

\* Mutant of Create: get_or_create, without regard to who created the row.
CreateOrTake(c) ==
    /\ At(c, "create")
    /\ row' = IF row[Kind(c)] = "NONE" THEN [row EXCEPT ![Kind(c)] = "FAILED"] ELSE row
    /\ Goto(c, "send")
    /\ UNCHANGED <<facts, tries, mails, excused>>

\* The unique index on (installment, kind): "a concurrent run already handles it".
Create(c) ==
    /\ At(c, "create")
    /\ IF row[Kind(c)] = "NONE"
       THEN row' = [row EXCEPT ![Kind(c)] = "FAILED"] /\ Goto(c, "send")
       ELSE Rest(c) /\ UNCHANGED row
    /\ UNCHANGED <<facts, tries, mails, excused>>

Skip(c) ==
    /\ At(c, "send")
    /\ ~job[c].to
    /\ row' = [row EXCEPT ![Kind(c)] = "SKIPPED_NO_EMAIL"]
    /\ Rest(c)
    /\ UNCHANGED <<facts, tries, mails, excused>>

\* send_mail returns, or raises; an e-mail can arrive although it raised.
Send(c, ok, arrived) ==
    /\ At(c, "send")
    /\ job[c].to
    /\ ok => arrived
    /\ job' = [job EXCEPT ![c].at = "save", ![c].ok = ok, ![c].tries = @ + 1]
    /\ mails' = IF arrived THEN [mails EXCEPT ![Kind(c)] = IF @ = 0 THEN 1 ELSE 2] ELSE mails
    /\ Excuse(c, arrived /\ ~ok)
    /\ UNCHANGED <<facts, row, tries>>

\* Mutant of Save: every attempt counts as sent.
SaveAsSent(c) ==
    /\ At(c, "save")
    /\ row' = [row EXCEPT ![Kind(c)] = "SENT"]
    /\ tries' = [tries EXCEPT ![Kind(c)] = job[c].tries]
    /\ Rest(c)
    /\ UNCHANGED <<facts, mails, excused>>

\* Status and attempts are the copies in hand, whatever was saved meanwhile.
Save(c) ==
    /\ At(c, "save")
    /\ row' = [row EXCEPT ![Kind(c)] = IF job[c].ok THEN "SENT" ELSE "FAILED"]
    /\ tries' = [tries EXCEPT ![Kind(c)] = job[c].tries]
    /\ Rest(c)
    /\ UNCHANGED <<facts, mails, excused>>

\* The process stops; what was sent and not saved will be sent again.
Stop(c) ==
    /\ ~At(c, "idle")
    /\ Rest(c)
    /\ Excuse(c, At(c, "save") /\ job[c].ok)
    /\ UNCHANGED <<facts, row, tries, mails>>

-----------------------------------------------------------------------------
\* Time, the customer and staff

NextDay ==
    /\ day # "late"
    /\ day' = IF day = "before" THEN "due" ELSE "late"
    /\ UNCHANGED <<sale, marked, address, row, tries, job, mails, excused>>

\* Paid, waived or cancelled; resume_if_settled may clear the marker with it.
CloseSale ==
    /\ sale # "closed"
    /\ sale' = "closed"
    /\ marked' \in {marked, FALSE}
    /\ UNCHANGED <<day, address, row, tries, job, mails, excused>>

\* Staff restores the access, the marker stays; or they fill in an address.
StaffActs ==
    /\ \/ sale = "frozen" /\ sale' = "collectable" /\ UNCHANGED address
       \/ ~address /\ address' = TRUE /\ UNCHANGED sale
    /\ UNCHANGED <<day, marked, row, tries, job, mails, excused>>

-----------------------------------------------------------------------------
Mail(c) == Skip(c) \/ \E ok, arrived \in BOOLEAN : Send(c, ok, arrived)

Work(c) == Look(c) \/ Create(c) \/ Mail(c) \/ Save(c)

Next ==
    \/ \E c \in Collectors :
          \/ Select(c) \/ SelectOverdue(c) \/ Freeze(c) \/ FreezeRefused(c)
          \/ Work(c) \/ Stop(c)
    \/ NextDay \/ CloseSale \/ StaffActs

\* The hourly run comes again and again and is not always stopped at the same
\* place; the command, once started, goes on or stops. Nothing is assumed of the
\* mail server.
Fairness ==
    /\ \A c \in Collectors : WF_vars(Work(c) \/ Freeze(c) \/ FreezeRefused(c) \/ Stop(c))
    /\ SF_vars(Select(Hourly)) /\ SF_vars(Look(Hourly)) /\ SF_vars(Create(Hourly))
    /\ SF_vars(Mail(Hourly)) /\ SF_vars(Save(Hourly))

Spec == Init /\ [][Next]_vars /\ Fairness

-----------------------------------------------------------------------------
\* Correctness

\* What staff see as sent did reach the customer, whichever collector's copy of
\* the row was saved last.
SentWasMailed == \A k \in Kinds : row[k] = "SENT" => mails[k] > 0

\* "the unique constraint is what makes the hourly job safe to re-run": a kind is
\* mailed once, save for a send that was cut off before it was saved, one that
\* arrived although it failed, or a collector that found the row of another at
\* work, which looks like a failure to retry.
RepeatsAreExcused == \A k \in Kinds : mails[k] > 1 => k \in excused

\* While the installment stays collectable its due-day reminder is sent, skipped
\* for want of an address, or tried as often as allowed: no stop between the row
\* and the e-mail leaves it out.
ReminderSettles ==
    (day \in {"due", "late"} /\ sale = "collectable") ~>
        \/ row["DUE_DAY"] \in {"SENT", "SKIPPED_NO_EMAIL"}
        \/ row["DUE_DAY"] = "FAILED" /\ tries["DUE_DAY"] = MaxTries
        \/ sale # "collectable"
=============================================================================
