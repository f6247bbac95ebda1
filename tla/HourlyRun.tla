------------------------------ MODULE HourlyRun ------------------------------
(***************************************************************************)
(* The hourly reconciliation (ReconciliationService) around one payment's  *)
(* confirmation e-mail: invocations that may overlap, the advisory lock,   *)
(* the ReconciliationRun row, the eight steps in their order, and the two  *)
(* steps followed into their work: sending confirmations                   *)
(* (ConfirmationDelivery) and alerting the team of those it was handed     *)
(* (StaffAlerts).  What the other steps do is in Webhooks, Provisioning,   *)
(* SaleRecords and Suspension; here they end, with an error or without.    *)
(***************************************************************************)
EXTENDS ConfirmationDelivery, Sequences

CONSTANTS
    Runs,         \* invocations of run_hourly_reconciliation
    Commands,     \* send_staff_alerts commands started beside them
    NoRun,        \* nobody holds the advisory lock
    MaxBreaks,    \* bound: runs that crash or end in an uncaught error
    MaxExcuses    \* bound: digests that may be repeated (see StaffAlerts)

ASSUME HourlyAssumption ==
    /\ Runs \subseteq Workers
    /\ IsFiniteSet(Commands) /\ Commands \cap Workers = {}
    /\ NoRun \notin Runs
    /\ MaxBreaks \in Nat
    /\ MaxExcuses \in Nat

Senders == Runs \cup Commands
Items == {"email"}   \* the only item followed here: "email:<confirmation>"

VARIABLES
    lock,      \* pg_try_advisory_lock: the run that holds it
    step,      \* the number of that run's step, 0 when none is running
    breaks,    \* how many runs were cut off so far
    enabled,   \* NotificationSettings: alerts are on and have an address
    alerted, digest, gone, mailed, excuses   \* see StaffAlerts

Alerts == INSTANCE StaffAlerts

runVars == <<lock, step, breaks>>
alertVars == <<alerted, digest, gone, mailed, excuses>>
hourlyVars == <<vars, runVars, enabled, alertVars>>

\* _run_locked, in order
Steps == <<"verify", "pull", "confirmations", "provisioning",
           "repair", "collect", "expire", "alerts">>
Last == Len(Steps)
Followed == {"confirmations", "alerts"}

At(r, name) == lock = r /\ step \in 1..Last /\ Steps[step] = name
Quiet(r) == doing[r] = "idle" /\ digest[r] = {}
Advance == step' = step + 1 /\ UNCHANGED <<lock, breaks>>

HourlyTypeOK ==
    /\ DeliveryTypeOK
    /\ Alerts!AlertsTypeOK
    /\ lock \in Runs \cup {NoRun}
    /\ step \in 0..(Last + 1)
    /\ breaks \in 0..MaxBreaks
    /\ enabled \in BOOLEAN
    /\ lock = NoRun <=> step = 0
    /\ \A r \in Runs \ {lock} : Quiet(r)

HourlyInit ==
    /\ Init
    /\ Alerts!AlertsInit
    /\ lock = NoRun
    /\ step = 0
    /\ breaks = 0
    /\ enabled \in BOOLEAN

-----------------------------------------------------------------------------
\* ReconciliationService.run

\* An invocation that finds the lock held ends at once.
Begin(r) ==
    /\ lock = NoRun
    /\ lock' = r
    /\ step' = 1
    /\ UNCHANGED <<vars, breaks, enabled, alertVars>>

EndRun ==
    /\ lock' = NoRun
    /\ step' = 0

EndStep ==
    /\ step \in 1..Last
    /\ Steps[step] \notin Followed
    /\ Advance
    /\ UNCHANGED <<vars, enabled, alertVars>>

\* Mutant of FailStep: the first error ends the run.
FailStepAndStop(r) ==
    /\ lock = r /\ step \in 1..Last
    /\ Quiet(r)
    /\ step' = Last + 1
    /\ UNCHANGED <<vars, lock, breaks, enabled, alertVars>>

\* Each step catches its errors, counts them and lets the next one run.
FailStep(r) ==
    /\ lock = r /\ step \in 1..Last
    /\ Quiet(r)
    /\ step' = step + 1
    /\ UNCHANGED <<vars, lock, breaks, enabled, alertVars>>

Complete ==
    /\ step = Last + 1
    /\ EndRun
    /\ UNCHANGED <<vars, breaks, enabled, alertVars>>

\* An error no step catches, of a step's first query say, ends the run.
Break(r) ==
    /\ lock = r
    /\ Quiet(r)
    /\ breaks < MaxBreaks
    /\ breaks' = breaks + 1
    /\ EndRun
    /\ UNCHANGED <<vars, enabled, alertVars>>

\* The process stops, and PostgreSQL frees the lock with its connection.
Crash(r) ==
    /\ lock = r
    /\ breaks < MaxBreaks
    /\ breaks' = breaks + 1
    /\ EndRun
    /\ IF doing[r] = "idle" THEN UNCHANGED vars ELSE Die(r)
    /\ IF digest[r] = {} THEN UNCHANGED alertVars ELSE Alerts!StopSender(r)
    /\ UNCHANGED enabled

-----------------------------------------------------------------------------
\* _process_confirmations: nothing is claimable, or what is is not due yet

NothingDue(r) ==
    /\ At(r, "confirmations")
    /\ doing[r] = "idle"
    /\ Advance
    /\ UNCHANGED <<vars, enabled, alertVars>>

ClaimInRun(r) ==
    /\ At(r, "confirmations")
    /\ Claim(r)
    /\ IF doing'[r] = "idle" THEN Advance ELSE UNCHANGED runVars
    /\ UNCHANGED <<enabled, alertVars>>

SendInRun(r) ==
    /\ \E end \in Ends, arrived \in BOOLEAN : Send(r, end, arrived)
    /\ UNCHANGED <<runVars, enabled, alertVars>>

FinishInRun(r) ==
    /\ Finish(r)
    /\ Advance
    /\ UNCHANGED <<enabled, alertVars>>

-----------------------------------------------------------------------------
\* _send_staff_alerts and the command

\* collect_alert_items, as far as this confirmation goes
Open == IF status = "MANUAL_REVIEW" THEN Items ELSE {}

NothingToTell(r) ==
    /\ At(r, "alerts")
    /\ digest[r] = {}
    /\ Alerts!NothingToSend(Open, enabled)
    /\ Advance
    /\ UNCHANGED <<vars, enabled, alertVars>>

\* The run's last step; the command needs no lock.
Tell(s) ==
    /\ s \in Runs => At(s, "alerts")
    /\ Alerts!Collect(s, Open, enabled)
    /\ UNCHANGED <<vars, runVars, enabled>>

\* An e-mail that could not be sent is nobody's error: the step just ends.
SendAlert(s, ok, arrived) ==
    /\ Alerts!SendDigest(s, ok, arrived)
    /\ IF s \in Runs /\ ~ok THEN Advance ELSE UNCHANGED runVars
    /\ UNCHANGED <<vars, enabled>>

RecordAlert(s) ==
    /\ Alerts!RecordDigest(s)
    /\ IF s \in Runs THEN Advance ELSE UNCHANGED runVars
    /\ UNCHANGED <<vars, enabled>>

StopCommand(c) ==
    /\ digest[c] # {}
    /\ Alerts!StopSender(c)
    /\ UNCHANGED <<vars, runVars, enabled>>

\* Réglages, Notifications
SwitchAlerts ==
    /\ enabled' = ~enabled
    /\ UNCHANGED <<vars, runVars, alertVars>>

-----------------------------------------------------------------------------
\* The thread started after the payment, the frequent job, and staff
Elsewhere ==
    /\ \/ \E w \in Workers \ Runs : Claim(w) \/ Work(w) \/ Die(w)
       \/ ReleaseStuck
       \/ Retry
    /\ UNCHANGED <<runVars, enabled, alertVars>>

RunStep(r) ==
    \/ FailStep(r)
    \/ NothingDue(r) \/ ClaimInRun(r) \/ SendInRun(r) \/ FinishInRun(r)
    \/ NothingToTell(r)

AlertStep(s) ==
    \/ Tell(s) \/ RecordAlert(s)
    \/ \E ok, arrived \in BOOLEAN : SendAlert(s, ok, arrived)

HourlyNext ==
    \/ EndStep \/ Complete
    \/ \E r \in Runs : Begin(r) \/ RunStep(r) \/ Break(r) \/ Crash(r)
    \/ \E s \in Senders : AlertStep(s)
    \/ \E c \in Commands : StopCommand(c)
    \/ SwitchAlerts
    \/ Elsewhere

\* Runs start again and again and each of them goes on; what is due is claimed
\* sooner or later, and the mail server takes the team's e-mails now and then.
\* Nothing makes anybody start the command.
HourlyFairness ==
    /\ WF_hourlyVars(\E r \in Runs : Begin(r))
    /\ WF_hourlyVars(EndStep) /\ WF_hourlyVars(Complete)
    /\ \A r \in Runs :
          /\ WF_hourlyVars(RunStep(r))
          /\ SF_hourlyVars(ClaimInRun(r))
          /\ SF_hourlyVars(Tell(r))
    /\ \A s \in Senders :
          /\ SF_hourlyVars(SendAlert(s, TRUE, TRUE))
          /\ WF_hourlyVars(RecordAlert(s) \/ \E ok, arrived \in BOOLEAN : SendAlert(s, ok, arrived))
    /\ \A w \in Workers \ Runs : WF_hourlyVars((Work(w) \/ Die(w)) /\ Elsewhere)
    /\ FrequentJob => WF_hourlyVars(ReleaseStuck /\ Elsewhere)

HourlySpec == HourlyInit /\ [][HourlyNext]_hourlyVars /\ HourlyFairness

-----------------------------------------------------------------------------
\* Correctness

\* "each item at most once", with the exceptions StaffAlerts names
DigestsDoNotRepeat == Alerts!DigestsDoNotRepeat
AlertedWasMailed == Alerts!AlertedWasMailed

\* A confirmation handed to staff is told to the team (or taken back by staff,
\* or alerts are off): no step that fails, run that is cut off or digest that
\* bounces keeps the last step of the hourly run from it for ever.
ReviewReachesTeam ==
    (status = "MANUAL_REVIEW" /\ enabled) ~>
        (alerted # {} \/ status # "MANUAL_REVIEW" \/ ~enabled)
=============================================================================
