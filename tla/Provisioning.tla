---------------------------- MODULE Provisioning ----------------------------
(***************************************************************************)
(* Opening course access for one contact and one course: the               *)
(* ProvisioningRequest rows (apps/provisioning), the workers that claim    *)
(* one, call ClickFunnels outside any transaction and write the result     *)
(* back, and what staff does to the rows meanwhile.  Workers are the       *)
(* thread started after a payment, the hourly run, the frequent job and    *)
(* the admin's "Provision Now".  AWAITING_APPROVAL is never written by the *)
(* code and is left out.                                                   *)
(***************************************************************************)
EXTENDS Integers, FiniteSets

CONSTANTS
    Workers,       \* threads, jobs and pages that may run execute()
    MaxRequests,   \* bound: rows ever created for this contact and course
    MaxTries,      \* PROVISIONING_MAX_REQUEST_ATTEMPTS
    MaxRetries     \* bound: times staff queues a row again

ASSUME ProvisioningAssumption ==
    /\ IsFiniteSet(Workers)
    /\ MaxRequests \in Nat \ {0}
    /\ MaxTries \in Nat \ {0}
    /\ MaxRetries \in Nat

Requests == 1..MaxRequests

VARIABLES
    status,     \* ProvisioningRequest.status, NONE while the row does not exist
    tries,      \* ProvisioningRequest.attempt_count
    granted,    \* whether the row has a SUCCESS ProvisioningAttempt
    enrolled,   \* history: whether ClickFunnels enrolled the contact for the row
    holds,      \* per worker: the row it claimed, 0 when none
    result,     \* per worker: how its call ended, "" before that
    noted,      \* per worker: whether that end has its ProvisioningAttempt row
    selected,   \* rows the cancel page has loaded and not yet written
    retries     \* how often staff queued a row again

vars == <<status, tries, granted, enrolled, holds, result, noted, selected, retries>>

Statuses == {"PENDING", "IN_PROGRESS", "COMPLETED", "FAILED", "MANUAL_REVIEW", "CANCELLED"}
Claimable == {"PENDING", "FAILED"}

\* How _enroll_with_retry ends. enroll_contact turns every exception into a
\* FAILURE result, so a refused token looks like an outage (down); broken is an
\* exception raised outside it, a CONFIGURATION_ERROR.
Results == {"ok", "down", "broken"}

ProvisioningTypeOK ==
    /\ status \in [Requests -> Statuses \cup {"NONE"}]
    /\ tries \in [Requests -> 0..MaxTries]
    /\ granted \in [Requests -> BOOLEAN]
    /\ enrolled \in [Requests -> BOOLEAN]
    /\ holds \in [Workers -> Requests \cup {0}]
    /\ result \in [Workers -> Results \cup {""}]
    /\ noted \in [Workers -> BOOLEAN]
    /\ selected \subseteq Requests
    /\ retries \in 0..MaxRetries
    /\ \A w \in Workers : (noted[w] => result[w] # "") /\ (result[w] # "" => holds[w] # 0)

Init ==
    /\ status = [r \in Requests |-> "NONE"]
    /\ tries = [r \in Requests |-> 0]
    /\ granted = [r \in Requests |-> FALSE]
    /\ enrolled = [r \in Requests |-> FALSE]
    /\ holds = [w \in Workers |-> 0]
    /\ result = [w \in Workers |-> ""]
    /\ noted = [w \in Workers |-> FALSE]
    /\ selected = {}
    /\ retries = 0

-----------------------------------------------------------------------------
\* The partial unique index on (contact, course)
Live(r) == status[r] \notin {"NONE", "CANCELLED"}
IndexAllows(r) == \A q \in Requests \ {r} : ~Live(q)

\* create_request_from_order by a payment, a waiver or the hourly repair: the
\* live row of the contact and course is reused, whatever order it came from.
CreateRequest(r) ==
    /\ status[r] = "NONE"
    /\ \A q \in Requests : q < r => status[q] # "NONE"
    /\ IndexAllows(r)
    /\ status' = [status EXCEPT ![r] = "PENDING"]
    /\ UNCHANGED <<tries, granted, enrolled, holds, result, noted, selected, retries>>

-----------------------------------------------------------------------------
\* ProvisioningService.execute

\* Mutant of Claim: no limit on the tries.
ClaimWithoutLimit(w, r) ==
    /\ holds[w] = 0
    /\ status[r] \in Claimable
    /\ status' = [status EXCEPT ![r] = "IN_PROGRESS"]
    /\ tries' = [tries EXCEPT ![r] = @ + 1]
    /\ holds' = [holds EXCEPT ![w] = r]
    /\ UNCHANGED <<granted, enrolled, result, noted, selected, retries>>

\* Mutant of Claim: a row that used up its tries is skipped.
ClaimSkipsExhausted(w, r) ==
    /\ tries[r] < MaxTries
    /\ ClaimWithoutLimit(w, r)

\* Mutant of Claim: a row in progress is taken over, as if its worker had died.
ClaimTakesOver(w, r) ==
    \/ ClaimWithoutLimit(w, r) /\ tries[r] < MaxTries
    \/ /\ holds[w] = 0
       /\ status[r] = "IN_PROGRESS"
       /\ holds' = [holds EXCEPT ![w] = r]
       /\ UNCHANGED <<status, tries, granted, enrolled, result, noted, selected, retries>>

Claim(w, r) ==
    /\ holds[w] = 0
    /\ status[r] \in Claimable
    /\ IF tries[r] >= MaxTries
       THEN /\ status' = [status EXCEPT ![r] = "MANUAL_REVIEW"]
            /\ UNCHANGED <<tries, holds>>
       ELSE /\ status' = [status EXCEPT ![r] = "IN_PROGRESS"]
            /\ tries' = [tries EXCEPT ![r] = @ + 1]
            /\ holds' = [holds EXCEPT ![w] = r]
    /\ UNCHANGED <<granted, enrolled, result, noted, selected, retries>>

\* _enroll_with_retry: ClickFunnels may enroll the contact and its answer be
\* lost. A row that has its SUCCESS attempt is not enrolled again.
Enroll(w, end, landed) ==
    LET r == holds[w] IN
    /\ r # 0
    /\ result[w] = ""
    /\ end = "ok" => landed
    /\ end = "broken" => ~landed
    /\ IF granted[r]
       THEN /\ result' = [result EXCEPT ![w] = "ok"]
            /\ noted' = [noted EXCEPT ![w] = TRUE]
            /\ UNCHANGED enrolled
       ELSE /\ result' = [result EXCEPT ![w] = end]
            /\ enrolled' = [enrolled EXCEPT ![r] = @ \/ landed]
            /\ UNCHANGED noted
    /\ UNCHANGED <<status, tries, granted, holds, selected, retries>>

\* The ProvisioningAttempt row commits on its own, before the request's status.
NoteAttempt(w) ==
    /\ result[w] # ""
    /\ ~noted[w]
    /\ noted' = [noted EXCEPT ![w] = TRUE]
    /\ granted' = [granted EXCEPT ![holds[w]] = @ \/ result[w] = "ok"]
    /\ UNCHANGED <<status, tries, enrolled, holds, result, selected, retries>>

Release(w) ==
    /\ holds' = [holds EXCEPT ![w] = 0]
    /\ result' = [result EXCEPT ![w] = ""]
    /\ noted' = [noted EXCEPT ![w] = FALSE]
    /\ UNCHANGED <<tries, granted, enrolled, selected, retries>>

\* request.save() takes no lock and does not look at the status stored by then;
\* only the index can refuse it, when the row was cancelled and another is live.
SaveStatus(r, st) ==
    status' = IF IndexAllows(r) THEN [status EXCEPT ![r] = st] ELSE status

\* Mutant of Finish: a failed enrollment completes the row.
FinishAsCompleted(w) ==
    /\ noted[w]
    /\ SaveStatus(holds[w], IF result[w] = "broken" THEN "MANUAL_REVIEW" ELSE "COMPLETED")
    /\ Release(w)

Finish(w) ==
    /\ noted[w]
    /\ SaveStatus(holds[w], CASE result[w] = "ok" -> "COMPLETED"
                              [] result[w] = "broken" -> "MANUAL_REVIEW"
                              [] OTHER -> "FAILED")
    /\ Release(w)

\* _finish_non_retryable: no e-mail, no course snapshot, no active configuration
GiveUp(w) ==
    /\ holds[w] # 0
    /\ result[w] = ""
    /\ SaveStatus(holds[w], "MANUAL_REVIEW")
    /\ Release(w)

\* The process stops between two steps. Nothing ever looks for such a row.
Die(w) ==
    /\ holds[w] # 0
    /\ Release(w)
    /\ UNCHANGED status

-----------------------------------------------------------------------------
\* Staff: retry_request locks the row; the cancel page loads rows, then saves
\* each of them as CANCELLED without looking again.

\* Mutant of Retry: a completed row can be queued again.
RetryCompleted(r) ==
    /\ status[r] \in {"COMPLETED", "FAILED", "MANUAL_REVIEW"}
    /\ retries < MaxRetries
    /\ status' = [status EXCEPT ![r] = "PENDING"]
    /\ tries' = [tries EXCEPT ![r] = 0]
    /\ retries' = retries + 1
    /\ UNCHANGED <<granted, enrolled, holds, result, noted, selected>>

Retry(r) ==
    /\ status[r] \in {"FAILED", "MANUAL_REVIEW"}
    /\ retries < MaxRetries
    /\ status' = [status EXCEPT ![r] = "PENDING"]
    /\ tries' = [tries EXCEPT ![r] = 0]
    /\ retries' = retries + 1
    /\ UNCHANGED <<granted, enrolled, holds, result, noted, selected>>

SelectCancel(r) ==
    /\ status[r] \notin {"NONE", "COMPLETED", "CANCELLED"}
    /\ r \notin selected
    /\ selected' = selected \cup {r}
    /\ UNCHANGED <<status, tries, granted, enrolled, holds, result, noted, retries>>

Cancel(r) ==
    /\ r \in selected
    /\ status' = [status EXCEPT ![r] = "CANCELLED"]
    /\ selected' = selected \ {r}
    /\ UNCHANGED <<tries, granted, enrolled, holds, result, noted, retries>>

-----------------------------------------------------------------------------
Execute(w) ==
    \/ \E end \in Results, landed \in BOOLEAN : Enroll(w, end, landed)
    \/ NoteAttempt(w) \/ Finish(w) \/ GiveUp(w)

Next ==
    \/ \E r \in Requests : CreateRequest(r) \/ Retry(r) \/ SelectCancel(r) \/ Cancel(r)
    \/ \E w \in Workers, r \in Requests : Claim(w, r)
    \/ \E w \in Workers : Execute(w) \/ Die(w)

\* The hourly run claims whatever is claimable; a worker goes on or dies.
Fairness ==
    /\ \A r \in Requests : WF_vars(\E w \in Workers : Claim(w, r))
    /\ \A w \in Workers : WF_vars(Execute(w) \/ Die(w))

Spec == Init /\ [][Next]_vars /\ Fairness

-----------------------------------------------------------------------------
\* Correctness

\* COMPLETED is never reached without a recorded, real enrollment, although the
\* claim, the call, its record and the status are four separate commits.
CompletedMeansEnrolled ==
    \A r \in Requests : status[r] = "COMPLETED" => granted[r] /\ enrolled[r]

\* One worker at a time executes a row, whatever staff cancels or retries while
\* it runs and whatever status an outdated save brings back.
ClaimIsExclusive ==
    \A w, x \in Workers : holds[w] = holds[x] /\ holds[w] # 0 => w = x

\* A row that has recorded its success never waits for a worker again: no retry,
\* crash or outdated save puts it back in the queue.
GrantedIsNotQueued ==
    \A r \in Requests : granted[r] => status[r] \in {"IN_PROGRESS", "COMPLETED", "CANCELLED"}

\* A row waiting for a worker gets somewhere: to access, to staff, or - the one
\* way out nobody looks after - to a claim whose worker died.
Orphaned(r) == status[r] = "IN_PROGRESS" /\ \A w \in Workers : holds[w] # r

WaitingEnds ==
    \A r \in Requests :
        status[r] \in Claimable ~>
            (status[r] \in {"COMPLETED", "MANUAL_REVIEW", "CANCELLED"} \/ Orphaned(r))
=============================================================================
