------------------------------ MODULE Checkout ------------------------------
(***************************************************************************)
(* CheckoutService: concurrent customer requests (several tabs, retries,   *)
(* impatient clicks) that turn one outstanding installment into a Tara     *)
(* payment link.  A request reads rows, releases its locks, calls Tara,    *)
(* and only then writes what it learned, so every value it holds may be    *)
(* stale by then.  The other writers of the sale run as whole transactions *)
(* between its steps.                                                      *)
(***************************************************************************)
EXTENDS Tara

CONSTANT Requests    \* customer requests in flight at one time

ASSUME RequestsAssumption == IsFiniteSet(Requests)

\* Where a request stands:
\*   idle     not running, or its answer went back to the customer
\*   chosen   an installment is picked, its attempt is not
\*   again    its attempt was closed, another one is to be picked
\*   ask      about to ask Tara about the UNKNOWN attempt it found
\*   learned  Tara answered
\*   retire   about to close the attempt it found
\*   link     about to ask Tara for a payment link
\*   reply    Tara answered, or did not
Stages == {"idle", "reopened", "chosen", "again", "ask", "learned", "retire", "link", "reply"}

\* Ends of create_payment_link. LINK, UNUSABLE and NO_URL succeed: with a
\* generalLink the customer is sent to, one _select_safe_checkout_url holds
\* back, or none. LOST is every indeterminate error, REFUSED a definitive one;
\* UNSENT never left our side.
LinkReplies == {"LINK", "UNUSABLE", "NO_URL", "LOST", "REFUSED", "UNSENT"}

VARIABLES
    stage,    \* per request: where it stands
    target,   \* per request: the installment it is paying, 0 when idle
    mine,     \* per request: the attempt it holds, 0 when none
    told,     \* per request: what Tara answered, "" when nothing is pending
    retried   \* per request: whether it already replaced an attempt

session == <<stage, target, mine, told, retried>>
vars == <<db, tara, shown, rechecked, session>>

CheckoutTypeOK ==
    /\ TypeOK
    /\ TaraTypeOK
    /\ stage \in [Requests -> Stages]
    /\ target \in [Requests -> Insts \cup {0}]
    /\ mine \in [Requests -> Attempts \cup {0}]
    /\ told \in [Requests -> Verdicts \cup LinkReplies \cup {""}]
    /\ retried \in [Requests -> BOOLEAN]
    /\ \A r \in Requests :
          /\ mine[r] # 0 <=> stage[r] \in {"ask", "learned", "retire", "link", "reply"}
          /\ told[r] # "" <=> stage[r] \in {"learned", "reply"}
          /\ target[r] = 0 <=> stage[r] \in {"idle", "reopened"}

CheckoutInit ==
    /\ Init
    /\ TaraInit
    /\ stage = [r \in Requests |-> "idle"]
    /\ target = [r \in Requests |-> 0]
    /\ mine = [r \in Requests |-> 0]
    /\ told = [r \in Requests |-> ""]
    /\ retried = [r \in Requests |-> FALSE]

-----------------------------------------------------------------------------
\* How a request moves. Ending it forgets everything it held.

GoTo(r, st) ==
    /\ stage' = [stage EXCEPT ![r] = st]
    /\ UNCHANGED <<target, mine, told, retried>>

Finish(r) ==
    /\ stage' = [stage EXCEPT ![r] = "idle"]
    /\ target' = [target EXCEPT ![r] = 0]
    /\ mine' = [mine EXCEPT ![r] = 0]
    /\ told' = [told EXCEPT ![r] = ""]
    /\ retried' = [retried EXCEPT ![r] = FALSE]

\* After a call to Tara
Hear(r, st, v) ==
    /\ stage' = [stage EXCEPT ![r] = st]
    /\ told' = [told EXCEPT ![r] = v]
    /\ UNCHANGED <<target, mine, retried>>

\* PaymentAttemptService.transition through _transition_attempt_locked: what
\* the table refuses is ignored. The index raises, which ends the request.
MoveOrIgnore(a, st) ==
    IF AttemptAllows(attStatus[a], st) THEN MoveAttempt(a, st) ELSE UNCHANGED db

-----------------------------------------------------------------------------
\* Picking the installment and the attempt

\* start_checkout / pay_next_installment on an expired order
Reopen(r) ==
    /\ stage[r] = "idle"
    /\ ReopenOrder
    /\ GoTo(r, "reopened")
    /\ UNCHANGED <<tara, shown, rechecked>>

\* next_outstanding_installment. A checkout with a known idempotency key goes on
\* whatever the order's status is.
Outstanding == {i \in Insts : inst[i] \in UnpaidStatuses}

PickInstallment(r) ==
    /\ stage[r] = "idle" => order # "EXPIRED"
    /\ stage[r] \in {"idle", "reopened"}
    /\ \E i \in Outstanding :
          /\ \A j \in Outstanding : i <= j
          /\ target' = [target EXCEPT ![r] = i]
    /\ stage' = [stage EXCEPT ![r] = "chosen"]
    /\ UNCHANGED <<db, tara, shown, rechecked, mine, told, retried>>

NothingDue(r) ==
    /\ stage[r] = "reopened"
    /\ Outstanding = {}
    /\ Finish(r)
    /\ UNCHANGED <<db, tara, shown, rechecked>>

\* Where _pay_outstanding_installment goes with the attempt it got. An attempt
\* without its link was never seen by the customer; a stored link may be too
\* old. Neither is asked again after one replacement.
NextStage(r, status, link, old) ==
    CASE status = "UNKNOWN" -> "ask"
      [] status = "LINK_CREATED" /\ old /\ ~retried[r] -> "retire"
      [] status = "SUCCEEDED" -> "idle"
      [] status = "LINK_CREATED" /\ link /\ (old => retried[r]) -> "idle"
      [] status = "PENDING" /\ link -> "idle"
      [] OTHER -> "link"

\* _get_or_create_current_attempt finding a row it can go on with. A link kept
\* from an earlier request is shown again.
Resume(r, a) ==
    /\ stage[r] \in {"chosen", "again"}
    /\ IsLatest(a, target[r])
    /\ ~NeedsAttempt(target[r])
    /\ \E old \in BOOLEAN :
          LET to == NextStage(r, attStatus[a], attLink[a], old) IN
          IF to = "idle"
          THEN /\ shown' = [shown EXCEPT ![a] = @ \/ attStatus[a] # "SUCCEEDED"]
               /\ Finish(r)
          ELSE /\ stage' = [stage EXCEPT ![r] = to]
               /\ mine' = [mine EXCEPT ![r] = a]
               /\ UNCHANGED <<shown, target, told, retried>>
    /\ UNCHANGED <<db, tara, rechecked>>

\* ... or inserting a new one
Begin(r, a) ==
    /\ stage[r] \in {"chosen", "again"}
    /\ CreateAttempt(a, target[r])
    /\ stage' = [stage EXCEPT ![r] = "link"]
    /\ mine' = [mine EXCEPT ![r] = a]
    /\ UNCHANGED <<tara, shown, rechecked, target, told, retried>>

-----------------------------------------------------------------------------
\* _recheck_unknown_attempt

Ask(r, v) ==
    /\ stage[r] = "ask"
    /\ v \in Answers(mine[r]) \ {"REFUSED"}
    /\ Hear(r, "learned", v)
    /\ UNCHANGED <<db, tara, shown, rechecked>>

\* Only an attempt whose link the customer never got is replaced, and only once.
Replaceable(r) == ~retried[r] /\ ~attLink[mine[r]]

\* Mutant of Recheck: a payment still pending is taken for a paid one.
RecheckTrustsPending(r) ==
    /\ stage[r] = "learned"
    /\ IF told[r] \in {"SUCCESS", "PENDING"}
       THEN MoveOrIgnore(mine[r], "SUCCEEDED") ELSE UNCHANGED db
    /\ Finish(r)
    /\ NoteRecheck(mine[r])
    /\ UNCHANGED <<tara, shown>>

\* Tara's answer is written to the attempt alone.
Recheck(r) ==
    LET a == mine[r] IN
    /\ stage[r] = "learned"
    /\ CASE told[r] = "SUCCESS" -> MoveOrIgnore(a, "SUCCEEDED")
         [] told[r] = "FAILURE" -> MoveOrIgnore(a, "FAILED")
         [] OTHER -> UNCHANGED db
    /\ IF Replaceable(r) /\ told[r] \notin {"SUCCESS", "PENDING"}
       THEN /\ stage' = [stage EXCEPT ![r] = "retire"]
            /\ told' = [told EXCEPT ![r] = ""]
            /\ UNCHANGED <<target, mine, retried>>
       ELSE Finish(r)
    /\ NoteRecheck(a)
    /\ UNCHANGED <<tara, shown>>

\* The attempt in hand is closed and the installment asked for another one.
Retire(r) ==
    /\ stage[r] = "retire"
    /\ MoveOrIgnore(mine[r], "EXPIRED")
    /\ stage' = [stage EXCEPT ![r] = "again"]
    /\ mine' = [mine EXCEPT ![r] = 0]
    /\ retried' = [retried EXCEPT ![r] = TRUE]
    /\ UNCHANGED <<tara, shown, rechecked, target, told>>

-----------------------------------------------------------------------------
\* _create_link_for_attempt

RequestLink(r, reply) ==
    /\ stage[r] = "link"
    /\ \/ reply \in {"LINK", "UNUSABLE", "NO_URL"} /\ OpenAtTara(mine[r])
       \/ reply = "LOST" /\ (OpenAtTara(mine[r]) \/ UNCHANGED tara)
       \/ reply \in {"REFUSED", "UNSENT"} /\ UNCHANGED tara
    /\ Hear(r, "reply", reply)
    /\ UNCHANGED <<db, shown, rechecked>>

\* What Tara answered is stored under a new lock; the attempt may have moved on
\* meanwhile. The customer is sent to a link even when it was not stored.
StoreReply(r) ==
    LET a == mine[r] IN
    /\ stage[r] = "reply"
    /\ CASE told[r] \in {"LINK", "UNUSABLE", "NO_URL"} ->
                IF attStatus[a] = "CREATED" THEN StoreLink(a, told[r] # "NO_URL") ELSE UNCHANGED db
         [] told[r] = "LOST" -> MoveOrIgnore(a, "UNKNOWN")
         [] told[r] = "REFUSED" -> MoveOrIgnore(a, "FAILED")
         [] OTHER -> UNCHANGED db
    /\ shown' = [shown EXCEPT ![a] = @ \/ told[r] = "LINK"]
    /\ Finish(r)
    /\ UNCHANGED <<tara, rechecked>>

\* The request dies with what it knew: an error nobody caught, a killed worker,
\* or the index refusing its write.
Abandon(r) ==
    /\ stage[r] # "idle"
    /\ Finish(r)
    /\ UNCHANGED <<db, tara, shown, rechecked>>

Serve(r) ==
    \/ Reopen(r) \/ PickInstallment(r) \/ NothingDue(r)
    \/ \E a \in Attempts : Resume(r, a) \/ Begin(r, a)
    \/ \E v \in Verdicts : Ask(r, v)
    \/ Recheck(r) \/ Retire(r)
    \/ \E reply \in LinkReplies : RequestLink(r, reply)
    \/ StoreReply(r)

-----------------------------------------------------------------------------
\* The other writers of the sale, each as one transaction. A verified answer is
\* the truth when it credits; a failure may be outdated when it is applied.
\* Attributing a payment made outside the checkout is where its money shows.

Verified(a) ==
    /\ \/ tara[a] = "success" /\ Credit(a)
       \/ tara[a] \notin {"none", "open"} /\ Fail(a)
    /\ UNCHANGED tara

Attributed(a, i) ==
    \/ /\ AttributeToNew(a, i) \/ AttributeToOpen(a, i)
       /\ tara' = [tara EXCEPT ![a] = "success"]
    \/ AttributionConflict(a, i) /\ UNCHANGED tara

Decided ==
    /\ \/ CancelOrder
       \/ ExpireOrder
       \/ \E i \in Insts : CancelInstallment(i) \/ WaiveInstallment(i)
    /\ UNCHANGED tara

Others ==
    /\ \/ \E a \in Attempts : Verified(a)
       \/ \E a \in Attempts, i \in Insts : Attributed(a, i)
       \/ Decided
    /\ UNCHANGED <<shown, rechecked, session>>

CheckoutNext ==
    \/ \E r \in Requests : Serve(r) \/ Abandon(r)
    \/ \E a \in Attempts, st \in TaraStates : CustomerPays(a, st) /\ UNCHANGED session
    \/ Others

CheckoutSpec == CheckoutInit /\ [][CheckoutNext]_vars

-----------------------------------------------------------------------------
\* Correctness

\* A customer is only ever sent to a page Tara has opened for this attempt, and
\* the attempt remembers that it went out: it is never left CREATED.
ShownLinkIsKnown ==
    \A a \in Attempts : shown[a] => tara[a] # "none" /\ attStatus[a] \notin {"NONE", "CREATED"}

\* "The only path allowed to transition PaymentAttempt -> SUCCEEDED /
\* Installment -> PAID" (PaymentCreditService): no attempt becomes SUCCEEDED
\* without the installment it pays becoming PAID with it.
SucceedingCredits ==
    [][\A a \in Attempts :
        attStatus[a] # "SUCCEEDED" /\ attStatus'[a] = "SUCCEEDED" => inst'[attInst'[a]] = "PAID"]_vars
=============================================================================
