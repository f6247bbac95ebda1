----------------------------- MODULE StaffAlerts -----------------------------
(***************************************************************************)
(* The digest of "À traiter" items e-mailed to the team                    *)
(* (apps/operations/alerts.py): collect what is open and was never         *)
(* recorded as alerted, send one e-mail, record the items.  Nothing is     *)
(* locked; the hourly run and the command can do it at once.  What is open *)
(* is the including module's business.                                     *)
(***************************************************************************)
EXTENDS Integers

CONSTANTS
    Senders,    \* processes that may run send_staff_alerts
    Items,      \* keys of the items there can be, e.g. "email:12"
    MaxExcuses  \* bound: digests cut off, overlapping or failed on arrival

VARIABLES
    alerted,  \* keys with a StaffAlert row
    digest,   \* per sender: the items of the e-mail it is sending, {} when none
    gone,     \* per sender: whether that e-mail was accepted
    mailed,   \* history: e-mails the team received about each item
    excuses   \* history: sends cut off before they were recorded, or overlapping

alertVars == <<alerted, digest, gone, mailed, excuses>>

AlertsTypeOK ==
    /\ alerted \subseteq Items
    /\ digest \in [Senders -> SUBSET Items]
    /\ gone \in [Senders -> BOOLEAN]
    /\ mailed \in [Items -> Nat]
    /\ excuses \in 0..MaxExcuses

AlertsInit ==
    /\ alerted = {}
    /\ digest = [s \in Senders |-> {}]
    /\ gone = [s \in Senders |-> FALSE]
    /\ mailed = [k \in Items |-> 0]
    /\ excuses = 0

-----------------------------------------------------------------------------
New(open) == open \ alerted

\* Alerts may be switched off or have no address (NotificationSettings).
NothingToSend(open, enabled) == New(open) = {} \/ ~enabled

\* Another sender read the StaffAlert rows and has not written its own yet.
Overlapping(s) == \E q \in Senders \ {s} : digest[q] # {}

\* Something happens that lets a digest be repeated.
Excuse(happens) ==
    /\ happens => excuses < MaxExcuses
    /\ excuses' = IF happens THEN excuses + 1 ELSE excuses

\* Mutant of Collect: the StaffAlert rows are not read.
CollectAgain(s, open, enabled) ==
    /\ digest[s] = {}
    /\ open # {} /\ enabled
    /\ digest' = [digest EXCEPT ![s] = open]
    /\ Excuse(Overlapping(s))
    /\ UNCHANGED <<alerted, gone, mailed>>

Collect(s, open, enabled) ==
    /\ digest[s] = {}
    /\ ~NothingToSend(open, enabled)
    /\ digest' = [digest EXCEPT ![s] = New(open)]
    /\ Excuse(Overlapping(s))
    /\ UNCHANGED <<alerted, gone, mailed>>

\* send_mail either returns, or raises: then nothing is recorded and the next
\* run tries again. An e-mail can arrive although sending it raised.
SendDigest(s, ok, arrived) ==
    /\ digest[s] # {}
    /\ ~gone[s]
    /\ ok => arrived
    /\ mailed' = [k \in Items |-> IF arrived /\ k \in digest[s] THEN mailed[k] + 1 ELSE mailed[k]]
    /\ gone' = [gone EXCEPT ![s] = ok]
    /\ digest' = IF ok THEN digest ELSE [digest EXCEPT ![s] = {}]
    /\ Excuse(arrived /\ ~ok)
    /\ UNCHANGED alerted

Forget(s) ==
    /\ digest' = [digest EXCEPT ![s] = {}]
    /\ gone' = [gone EXCEPT ![s] = FALSE]

\* bulk_create ignores keys another sender recorded meanwhile.
RecordDigest(s) ==
    /\ gone[s]
    /\ alerted' = alerted \cup digest[s]
    /\ Forget(s)
    /\ UNCHANGED <<mailed, excuses>>

StopSender(s) ==
    /\ Forget(s)
    /\ Excuse(gone[s])
    /\ UNCHANGED <<alerted, mailed>>

-----------------------------------------------------------------------------
\* Correctness

\* What is recorded as told to the team was e-mailed to it.
AlertedWasMailed == \A k \in alerted : mailed[k] > 0

\* "each item at most once": an item is repeated only by a send that was cut off
\* before its record, one that arrived although it failed, or an overlapping one.
DigestsDoNotRepeat == \A k \in Items : mailed[k] <= 1 + excuses
=============================================================================
