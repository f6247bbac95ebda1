----------------------------- MODULE StatusPage -----------------------------
(***************************************************************************)
(* What the customer reads on the status page while several of their       *)
(* requests are under way (payments/views.py).  "Not started" promises     *)
(* that nothing was charged and offers to pay again, so it had better be   *)
(* true.  The behaviours are those of Checkout; only history is added.     *)
(***************************************************************************)
EXTENDS Checkout

VARIABLE crossed  \* history: attempts whose link was handed out and not stored, because
                  \* they had moved on since Tara was asked for it

pageVars == <<vars, crossed>>

\* A link without a row that could keep it, on its way to the customer.
Crossing == {a \in Attempts : ~shown[a] /\ shown'[a] /\ attStatus[a] # "CREATED" /\ ~attLink[a]}

PageInit == CheckoutInit /\ crossed = {}

PageNext == CheckoutNext /\ crossed' = crossed \cup Crossing

PageSpec == PageInit /\ [][PageNext]_pageVars

-----------------------------------------------------------------------------
\* The attempt the page is about: of the installment the customer last tried to
\* pay, the one that succeeded, else the latest.
Latest == {a \in Attempts : Created(a) /\ \A b \in Attempts : Created(b) => b <= a}
Succeeded == {b \in Attempts : attStatus[b] = "SUCCEEDED" /\ \E a \in Latest : attInst[a] = attInst[b]}
Displayed == IF Succeeded # {} THEN Succeeded ELSE Latest

\* Mutant of DisplayStatus: a link that was only created counts as not started.
DisplayStatusBeforeUse(a) ==
    CASE attStatus[a] \in {"CREATED", "LINK_CREATED"} -> "not_started"
      [] attStatus[a] = "UNKNOWN" /\ ~attLink[a] -> "not_started"
      [] attStatus[a] \in {"PENDING", "UNKNOWN"} -> "verification_pending"
      [] attStatus[a] = "SUCCEEDED" -> "payment_confirmed"
      [] OTHER -> "failed"

\* _map_display_status
DisplayStatus(a) ==
    CASE attStatus[a] = "CREATED" -> "not_started"
      [] attStatus[a] = "UNKNOWN" /\ ~attLink[a] -> "not_started"
      [] attStatus[a] = "LINK_CREATED" -> "link_ready"
      [] attStatus[a] \in {"PENDING", "UNKNOWN"} -> "verification_pending"
      [] attStatus[a] = "SUCCEEDED" -> "payment_confirmed"
      [] OTHER -> "failed"

-----------------------------------------------------------------------------
\* Correctness

\* "nothing was charged — say so plainly and offer a one-click retry": while the
\* page says a payment has not started, no money is on its way for it. The way
\* out is named: a link that comes when the attempt has moved on - another tab's
\* request lost its answer, Tara once answered without a link, an attribution
\* opened the attempt - is followed by the customer and stored nowhere.
NotStartedIsUncharged ==
    \A a \in Displayed :
        DisplayStatus(a) = "not_started" /\ a \notin crossed => tara[a] \in {"none", "open"}
=============================================================================
