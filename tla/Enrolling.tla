------------------------------ MODULE Enrolling ------------------------------
(***************************************************************************)
(* Provisioning with its calls to ClickFunnels spelled out: enroll_contact *)
(* looks the customer up here and there, creates the ClickFunnels contact, *)
(* saves the local one, enrolls and records, each step on its own.  The    *)
(* manual and bulk enrollment pages make the same calls for the same       *)
(* customer and course, without a ProvisioningRequest.                     *)
(***************************************************************************)
EXTENDS Provisioning

CONSTANT Pages    \* enrollment_new and enrollment_bulk requests

ASSUME EnrollingAssumption == IsFiniteSet(Pages) /\ Pages \cap Workers = {}

VARIABLES
    known,      \* the customer has a local Contact row
    contacts,   \* ClickFunnels contacts with the customer's address (2: several)
    call,       \* per caller: where its enroll_contact is, and what it read
    landed,     \* history: ClickFunnels enrollments for each request (2: several)
    lost,       \* history: requests one of whose enrollments went unrecorded
    overlapped  \* history: two calls were about to create the ClickFunnels contact

remote == <<known, contacts, call, landed, lost, overlapped>>
allVars == <<vars, remote>>

Callers == Workers \cup Pages
Steps == {"", "find", "create", "link", "post", "record"}
NoCall == [at |-> "", saw |-> FALSE]

EnrollingTypeOK ==
    /\ ProvisioningTypeOK
    /\ known \in BOOLEAN
    /\ contacts \in 0..2
    /\ call \in [Callers -> [at : Steps, saw : BOOLEAN]]
    /\ landed \in [Requests -> 0..2]
    /\ lost \subseteq Requests
    /\ overlapped \in BOOLEAN
    /\ \A c \in Callers : call[c].at \in {"link", "post", "record"} => contacts > 0
    /\ \A w \in Workers : call[w].at # "" => holds[w] # 0 /\ result[w] = ""

EnrollingInit ==
    /\ Init
    /\ known = FALSE
    /\ contacts = 0
    /\ call = [c \in Callers |-> NoCall]
    /\ landed = [r \in Requests |-> 0]
    /\ lost = {}
    /\ overlapped = FALSE

-----------------------------------------------------------------------------
At(c, step) == call[c].at = step
Goto(c, step) == call' = [call EXCEPT ![c].at = step]
Hang(c) == call' = [call EXCEPT ![c] = NoCall]
More(n) == IF n = 0 THEN 1 ELSE 2

\* The request a caller enrolls for, if it is a worker.
For(c) == IF c \in Workers THEN {holds[c]} ELSE {}

\* resolve_guest_contact at checkout: get_or_create on the unique address
Buy ==
    /\ ~known
    /\ known' = TRUE
    /\ UNCHANGED <<vars, contacts, call, landed, lost, overlapped>>

\* A request exists for the contact of an order only.
Ordered(r) ==
    /\ known
    /\ CreateRequest(r)
    /\ UNCHANGED remote

-----------------------------------------------------------------------------
\* EnrollmentService.enroll_contact and ContactService.get_or_create_remote_contact

\* How the call ends for its caller: a page shows it and forgets it.
Answer(c, end) ==
    IF c \in Workers
    THEN result' = [result EXCEPT ![c] = end]
    ELSE UNCHANGED result

\* The local contact is looked up; for a request that has its SUCCESS attempt,
\* execute calls nobody.
Begin(c) ==
    /\ At(c, "")
    /\ c \in Workers => holds[c] # 0 /\ result[c] = ""
    /\ IF c \in Workers /\ granted[holds[c]]
       THEN /\ result' = [result EXCEPT ![c] = "ok"]
            /\ noted' = [noted EXCEPT ![c] = TRUE]
            /\ UNCHANGED call
       ELSE /\ call' = [call EXCEPT ![c] = [at |-> "find", saw |-> known]]
            /\ UNCHANGED <<result, noted>>
    /\ UNCHANGED <<status, tries, granted, enrolled, holds, selected, retries,
                   known, contacts, landed, lost, overlapped>>

Creating(c) == overlapped \/ \E d \in Callers \ {c} : At(d, "create")

\* Mutant of Find: a customer without a local row is taken for a new one.
FindLocally(c) ==
    /\ At(c, "find")
    /\ IF call[c].saw /\ contacts > 0
       THEN Goto(c, "link") /\ UNCHANGED overlapped
       ELSE Goto(c, "create") /\ overlapped' = Creating(c)
    /\ UNCHANGED <<vars, known, contacts, landed, lost>>

\* get_contact_by_email
Find(c) ==
    /\ At(c, "find")
    /\ IF contacts > 0
       THEN Goto(c, "link") /\ UNCHANGED overlapped
       ELSE Goto(c, "create") /\ overlapped' = Creating(c)
    /\ UNCHANGED <<vars, known, contacts, landed, lost>>

\* create_contact: ClickFunnels may create the contact and its answer be lost;
\* whether it refuses a second one for the same address is its affair.
CreateContact(c, arrives) ==
    /\ At(c, "create")
    /\ contacts' = More(contacts)
    /\ IF arrives
       THEN Goto(c, "link") /\ UNCHANGED result
       ELSE Hang(c) /\ Answer(c, "down")
    /\ UNCHANGED <<status, tries, granted, enrolled, holds, noted, selected, retries,
                   known, landed, lost, overlapped>>

\* The contact is saved; a row that appeared since it was looked up makes the
\* insert fail on the unique address.
LinkContact(c) ==
    /\ At(c, "link")
    /\ IF known /\ ~call[c].saw
       THEN Hang(c) /\ Answer(c, "down") /\ UNCHANGED known
       ELSE Goto(c, "post") /\ known' = TRUE /\ UNCHANGED result
    /\ UNCHANGED <<status, tries, granted, enrolled, holds, noted, selected, retries,
                   contacts, landed, lost, overlapped>>

\* Mutant of Land: a call that timed out is taken for done, as it may well be.
LandUnheard(c, arrives) ==
    /\ At(c, "post")
    /\ landed' = [r \in Requests |-> IF r \in For(c) THEN More(landed[r]) ELSE landed[r]]
    /\ IF arrives THEN Goto(c, "record") /\ UNCHANGED result ELSE Hang(c) /\ Answer(c, "ok")
    /\ UNCHANGED <<status, tries, granted, enrolled, holds, noted, selected, retries,
                   known, contacts, lost, overlapped>>

\* enroll_contact_in_course
Land(c, arrives) ==
    /\ At(c, "post")
    /\ landed' = [r \in Requests |-> IF r \in For(c) THEN More(landed[r]) ELSE landed[r]]
    /\ IF arrives
       THEN Goto(c, "record") /\ UNCHANGED <<result, enrolled, lost>>
       ELSE /\ Hang(c) /\ Answer(c, "down")
            /\ enrolled' = [r \in Requests |-> enrolled[r] \/ r \in For(c)]
            /\ lost' = lost \cup For(c)
    /\ UNCHANGED <<status, tries, granted, holds, noted, selected, retries,
                   known, contacts, overlapped>>

\* The SUCCESS EnrollmentAttempt, and the result. An error of that insert is
\* caught like one of the calls: the customer is enrolled, the result a FAILURE.
Record(c, stored) ==
    /\ At(c, "record")
    /\ Hang(c)
    /\ Answer(c, IF stored THEN "ok" ELSE "down")
    /\ enrolled' = [r \in Requests |-> enrolled[r] \/ r \in For(c)]
    /\ lost' = IF stored THEN lost ELSE lost \cup For(c)
    /\ UNCHANGED <<status, tries, granted, holds, noted, selected, retries,
                   known, contacts, landed, overlapped>>

\* Any exception before that, the course unknown here, or a call ClickFunnels
\* refused or never got, is a FAILURE result; broken is outside the call.
Fail(c, end) ==
    /\ call[c].at \in {"find", "create", "link", "post"}
    /\ Hang(c)
    /\ Answer(c, end)
    /\ UNCHANGED <<status, tries, granted, enrolled, holds, noted, selected, retries,
                   known, contacts, landed, lost, overlapped>>

-----------------------------------------------------------------------------
\* What a worker had in hand when it stopped is not recorded anywhere.
Unrecorded(w) ==
    IF At(w, "record") \/ (result[w] = "ok" /\ ~noted[w]) THEN For(w) ELSE {}

Stopped(w) ==
    /\ Die(w)
    /\ Hang(w)
    /\ lost' = lost \cup Unrecorded(w)
    /\ UNCHANGED <<known, contacts, landed, overlapped>>

Closed(p) ==
    /\ ~At(p, "")
    /\ Hang(p)
    /\ UNCHANGED <<vars, known, contacts, landed, lost, overlapped>>

Calls(c) ==
    \/ Begin(c) \/ Find(c) \/ LinkContact(c)
    \/ \E arrives \in BOOLEAN : CreateContact(c, arrives) \/ Land(c, arrives)
    \/ \E stored \in BOOLEAN : Record(c, stored)
    \/ Fail(c, "down")

Works(w) ==
    \/ Calls(w) \/ (At(w, "find") /\ Fail(w, "broken"))
    \/ (NoteAttempt(w) \/ Finish(w) \/ (At(w, "") /\ GiveUp(w))) /\ UNCHANGED remote

EnrollingNext ==
    \/ Buy
    \/ \E r \in Requests :
          Ordered(r) \/ ((Retry(r) \/ SelectCancel(r) \/ Cancel(r)) /\ UNCHANGED remote)
    \/ \E w \in Workers, r \in Requests : Claim(w, r) /\ UNCHANGED remote
    \/ \E w \in Workers : Works(w) \/ Stopped(w)
    \/ \E p \in Pages : Calls(p) \/ Closed(p)

EnrollingFairness ==
    /\ \A r \in Requests : WF_allVars(\E w \in Workers : Claim(w, r) /\ UNCHANGED remote)
    /\ \A w \in Workers : WF_allVars(Works(w) \/ Stopped(w))

EnrollingSpec == EnrollingInit /\ [][EnrollingNext]_allVars /\ EnrollingFairness

-----------------------------------------------------------------------------
\* Correctness

\* Provisioning's view of a call as one step loses nothing: whatever the calls of
\* workers and pages do to one another, every step is a step of it or stutters,
\* and so are its fairness and what follows from it.
ProvisioningSpec == Spec

\* "our own ProvisioningAttempt SUCCESS records ... prevent a repeat execute() call
\* from re-enrolling": ClickFunnels enrolls a request's customer a second time only
\* when an earlier enrollment was never recorded, because its answer was lost, its
\* record was not stored or its worker stopped.
RepeatsWereLost == \A r \in Requests : landed[r] > 1 => r \in lost

\* A lost answer never leads to a second ClickFunnels contact for the customer,
\* for the address is looked up first: only two creations at once do.
ContactsAreShared == contacts > 1 => overlapped
=============================================================================
