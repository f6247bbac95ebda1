----------------------------- MODULE Suspension -----------------------------
(***************************************************************************)
(* Suspending and restoring the course access of one sale                  *)
(* (EnrollmentAdministrationService) and the hourly collection that does   *)
(* both for non-payment (InstallmentCollectionService).  One call reads    *)
(* the order, reads the enrollment, calls ClickFunnels with no lock held,  *)
(* writes the enrollment, mirrors the order and writes the non-payment     *)
(* marker: six steps between which payments, staff, other calls and        *)
(* crashes come.  `access` stands for access opened in ClickFunnels.       *)
(***************************************************************************)
EXTENDS SaleRecords

CONSTANTS
    Collectors,   \* hourly runs and process_installments commands
    Requests,     \* bound: requests at work, each a payment's or a staff member's
    Grace,        \* INSTALLMENT_SUSPENSION_GRACE_HOURS, in days
    Faults        \* whether processes stop and answers of ClickFunnels get lost

ASSUME SuspensionAssumption ==
    /\ IsFiniteSet(Collectors)
    /\ IsFiniteSet(Requests)
    /\ Collectors \cap Requests = {}
    /\ Grace \in Nat
    /\ Faults \in BOOLEAN

Procs == Collectors \cup Requests

VARIABLES
    frozenBy,     \* history: whose freeze is in effect at ClickFunnels
    cfSuspended,  \* EnrollmentAttempt.cf_suspended
    marker,       \* whether Order.suspended_for_nonpayment_at is set
    job,          \* per process: where its call is, what it wants, who asked for it
    trouble       \* history: "doubt" once an answer was lost or two calls overlapped,
                  \* else "cut" once a freeze of the collection stopped on its
                  \* way or two calls of the collection overlapped

own == <<frozenBy, cfSuspended, marker, job, trouble>>
suspensionVars == <<db, own>>

Goals == {"freeze", "resume"}
Points == {"idle", "paid", "picked", "admitted", "call", "write", "mirror", "close"}

\* The collection's own rules, staff on the sale's page, staff on the enrollment's.
Askers == {"system", "sale", "enrollment"}

Idle == [at |-> "idle", goal |-> "freeze", by |-> "system"]

SuspensionTypeOK ==
    /\ TypeOK
    /\ frozenBy \in {"nobody", "system", "staff"}
    /\ cfSuspended \in BOOLEAN
    /\ marker \in BOOLEAN
    /\ trouble \in {"none", "cut", "doubt"}
    /\ job \in [Procs -> [at : Points, goal : Goals, by : Askers]]
    /\ \A p \in Procs : job[p].by = "enrollment" => job[p].at \in {"admitted", "call", "write"}

SuspensionInit ==
    /\ Init
    /\ frozenBy = "nobody"
    /\ cfSuspended = FALSE
    /\ marker = FALSE
    /\ job = [p \in Procs |-> Idle]
    /\ trouble = "none"

-----------------------------------------------------------------------------
\* Rules

At(p, point) == job[p].at = point
Goto(p, point) == job' = [job EXCEPT ![p].at = point]
Rest(p) == job' = [job EXCEPT ![p] = Idle]

Wanted(p) == job[p].goal = "freeze"
Frozen == frozenBy # "nobody"

\* The collection at work: its calls past the check that admits them.
Collecting(p) == job[p].by = "system" /\ job[p].at \notin {"idle", "paid", "picked"}

Collectable == order \in {"ACTIVE", "PAST_DUE"}

\* suspension_deadline: Grace days after the end of the due day
BeyondDeadline == \E i \in Insts : inst[i] \in UnpaidStatuses /\ i + Grace < today

\* _suspend_overdue's selection
ToSuspend == Collectable /\ BeyondDeadline /\ access /\ ~marker

\* _resume_settled's selection and the first lines of resume_if_settled
ToResume == order = "SUSPENDED" /\ marker /\ ~BeyondDeadline

\* _set_order_suspension's required_status
Required(goal) == IF goal = "freeze" THEN {"ACTIVE", "PAST_DUE"} ELSE {"SUSPENDED"}

-----------------------------------------------------------------------------
\* The sale meanwhile. A payment enters as AttributeToNew, whichever way it was
\* verified; its request then runs _lift_nonpayment_suspension, best effort.

Pay ==
    /\ \E a \in Attempts, i \in Insts : AttributeToNew(a, i)
    /\ \/ \E p \in Requests : At(p, "idle") /\ Goto(p, "paid")
       \/ UNCHANGED job
    /\ UNCHANGED <<frozenBy, cfSuspended, marker, trouble>>

SaleMoves ==
    /\ \/ CancelOrder
       \/ \E i \in Insts : CancelInstallment(i) \/ WaiveInstallment(i) \/ MarkDue(i)
       \/ MarkLate
       \/ NextDay
    /\ UNCHANGED own

-----------------------------------------------------------------------------
\* Who asks

Pick(p, goal) ==
    /\ job' = [job EXCEPT ![p] = [at |-> "picked", goal |-> goal, by |-> "system"]]
    /\ UNCHANGED <<db, frozenBy, cfSuspended, marker, trouble>>

\* Mutant of PickFreeze: an order already marked late is not selected.
PickFreezeBeforeLate(p) ==
    /\ p \in Collectors
    /\ At(p, "idle")
    /\ ToSuspend /\ order = "ACTIVE"
    /\ Pick(p, "freeze")

\* _suspend_overdue
PickFreeze(p) ==
    /\ p \in Collectors
    /\ At(p, "idle")
    /\ ToSuspend
    /\ Pick(p, "freeze")

\* Mutant of PickResume: only the payment's own request lifts a suspension.
PickResumeOnPaymentOnly(p) ==
    /\ At(p, "paid")
    /\ ToResume
    /\ Pick(p, "resume")

\* _resume_settled, or the request of the payment
PickResume(p) ==
    /\ (p \in Collectors /\ At(p, "idle")) \/ At(p, "paid")
    /\ ToResume
    /\ Pick(p, "resume")

NothingToResume(p) ==
    /\ At(p, "paid")
    /\ ~ToResume
    /\ Rest(p)
    /\ UNCHANGED <<db, frozenBy, cfSuspended, marker, trouble>>

-----------------------------------------------------------------------------
\* _set_order_suspension and _set_attempt_suspension

\* The order is read, without a lock, and refused in any other state.
Admissible(goal) == order \in Required(goal) /\ access

\* Staff asks on the sale's page, or on the enrollment's, which knows no order.
Ask(p, goal, by) ==
    /\ p \in Requests
    /\ At(p, "idle")
    /\ IF by = "sale" THEN Admissible(goal) ELSE access
    /\ job' = [job EXCEPT ![p] = [at |-> "admitted", goal |-> goal, by |-> by]]
    /\ UNCHANGED <<db, frozenBy, cfSuspended, marker, trouble>>

\* The collection's selection may be outdated when its turn comes.
Admit(p) ==
    /\ At(p, "picked")
    /\ IF Admissible(job[p].goal)
       THEN /\ Goto(p, "admitted")
            /\ trouble' = IF trouble = "none" /\ \E q \in Procs \ {p} : Collecting(q) THEN "cut" ELSE trouble
       ELSE Rest(p) /\ UNCHANGED trouble
    /\ UNCHANGED <<db, frozenBy, cfSuspended, marker>>

\* What follows the enrollment's part: the order's mirror, or nothing.
Onward(p) == IF job[p].by = "enrollment" THEN Rest(p) ELSE Goto(p, "mirror")

\* NO_OP_ALREADY_IN_STATE: the column is believed, ClickFunnels is not asked.
Look(p) ==
    /\ At(p, "admitted")
    /\ IF cfSuspended = Wanted(p) THEN Onward(p) ELSE Goto(p, "call")
    /\ UNCHANGED <<db, frozenBy, cfSuspended, marker, trouble>>

\* ClickFunnels carries it out.
Land(p) ==
    frozenBy' = IF ~Wanted(p) THEN "nobody"
                ELSE IF Frozen THEN frozenBy
                ELSE IF job[p].by = "system" THEN "system" ELSE "staff"

Overlaps(p) == \E q \in Procs \ {p} : At(q, "write")

Call(p) ==
    /\ At(p, "call")
    /\ Land(p)
    /\ Goto(p, "write")
    /\ trouble' = IF Overlaps(p) THEN "doubt" ELSE trouble
    /\ UNCHANGED <<db, cfSuspended, marker>>

\* "rien n'a été modifié": unreachable, refused or not configured
CallRefused(p) ==
    /\ At(p, "call")
    /\ Rest(p)
    /\ UNCHANGED <<db, frozenBy, cfSuspended, marker, trouble>>

\* The same message, and it was carried out: the answer came too late.
CallLost(p) ==
    /\ Faults
    /\ At(p, "call")
    /\ Land(p)
    /\ Rest(p)
    /\ trouble' = "doubt"
    /\ UNCHANGED <<db, cfSuspended, marker>>

\* Mutant of Write: the column is written by freezes only.
WriteFreezeOnly(p) ==
    /\ At(p, "write")
    /\ cfSuspended' = (cfSuspended \/ Wanted(p))
    /\ Onward(p)
    /\ UNCHANGED <<db, frozenBy, marker, trouble>>

Write(p) ==
    /\ At(p, "write")
    /\ cfSuspended' = Wanted(p)
    /\ Onward(p)
    /\ UNCHANGED <<db, frozenBy, marker, trouble>>

\* The order follows where its table lets it; staff's call ends here, one of the
\* collection goes on to the marker.
AfterMirror(p) == IF job[p].by = "system" THEN Goto(p, "close") ELSE Rest(p)

Mirror(p) ==
    LET target == IF Wanted(p) THEN "SUSPENDED" ELSE "ACTIVE" IN
    /\ At(p, "mirror")
    /\ order' = IF OrderAllows(order, target) THEN target ELSE order
    /\ AfterMirror(p)
    /\ UNCHANGED <<inst, attInst, attStatus, attLink, conf, access, today>>
    /\ UNCHANGED <<frozenBy, cfSuspended, marker, trouble>>

\* Mutant of Close: the marker is only set on an order that is not suspended yet.
CloseOnlyOpen(p) ==
    /\ At(p, "close")
    /\ marker' = (Wanted(p) /\ order # "SUSPENDED")
    /\ IF Wanted(p) THEN UNCHANGED db ELSE RefreshOrder
    /\ Rest(p)
    /\ UNCHANGED <<frozenBy, cfSuspended, trouble>>

\* _suspend_overdue sets the marker without looking at the order again;
\* resume_if_settled clears it and derives the order's status anew.
Close(p) ==
    /\ At(p, "close")
    /\ marker' = Wanted(p)
    /\ IF Wanted(p) THEN UNCHANGED db ELSE RefreshOrder
    /\ Rest(p)
    /\ UNCHANGED <<frozenBy, cfSuspended, trouble>>

\* A process stops, or an error no caller catches ends its run.
Stop(p) ==
    /\ Faults
    /\ ~At(p, "idle")
    /\ Rest(p)
    /\ trouble' = IF At(p, "write") \/ trouble = "doubt" THEN "doubt"
                  ELSE IF Wanted(p) /\ job[p].at \in {"mirror", "close"} THEN "cut"
                  ELSE trouble
    /\ UNCHANGED <<db, frozenBy, cfSuspended, marker>>

-----------------------------------------------------------------------------
Work(p) == Admit(p) \/ Look(p) \/ Write(p) \/ Mirror(p) \/ Close(p)

SuspensionNext ==
    \/ Pay
    \/ SaleMoves
    \/ \E p \in Requests, goal \in Goals, by \in {"sale", "enrollment"} : Ask(p, goal, by)
    \/ \E p \in Procs :
          \/ PickFreeze(p) \/ PickResume(p) \/ NothingToResume(p)
          \/ Work(p) \/ Call(p) \/ CallRefused(p) \/ CallLost(p)
          \/ Stop(p)

\* The collection runs every hour, on a server that is not always stopped at
\* the same place, against a ClickFunnels that answers again and again.
CollectionIsFair(p) ==
    /\ SF_suspensionVars(PickFreeze(p) \/ PickResume(p))
    /\ SF_suspensionVars(Call(p))
    /\ SF_suspensionVars(Admit(p)) /\ SF_suspensionVars(Look(p)) /\ SF_suspensionVars(Write(p))
    /\ SF_suspensionVars(Mirror(p)) /\ SF_suspensionVars(Close(p))

SuspensionSpec ==
    /\ SuspensionInit
    /\ [][SuspensionNext]_suspensionVars
    /\ \A p \in Collectors : CollectionIsFair(p)

-----------------------------------------------------------------------------
\* Correctness

\* The suspension column tells what ClickFunnels does, except while an answer
\* is being recorded, after one was lost, and after calls that overlapped: the
\* NO_OP check of the next call relies on it.
RecordIsTrue ==
    trouble # "doubt" /\ (\A p \in Procs : ~At(p, "write")) => cfSuspended = Frozen

\* An access the collection froze carries the marker that lets it be restored
\* automatically; the marker is a write of its own after the order's. (Two
\* calls of the collection at once may end without it: nothing locks the
\* command or a payment's request out while the hourly run is at work.)
AutomaticIsMarked ==
    /\ frozenBy = "system"
    /\ trouble = "none"
    /\ \A p \in Procs : ~Collecting(p)
    => marker

\* A sale beyond its deadline does not keep its access: whatever staff, crashes
\* and refusals come between, a later run suspends it, unless it is paid, closed
\* or marked first.
DebtIsSuspended == ToSuspend ~> (order = "SUSPENDED" \/ ~ToSuspend)

\* "lifted automatically once paid": a suspension carrying the non-payment
\* marker ends once nothing is beyond its deadline, although resuming may fail
\* or be interrupted at every step.
SettledIsLifted == ToResume ~> ~ToResume

\* "A manual suspension (made from the order/enrollment admin screens) never is"
\* lifted automatically: a resume the collection decided leaves alone what staff
\* froze. (The code only asks whether the order carries the marker.)
ManualIsKept ==
    [][\A p \in Procs :
          At(p, "call") /\ job[p].by = "system" /\ ~Wanted(p) /\ frozenBy = "staff"
              => frozenBy' = "staff"]_suspensionVars
=============================================================================
