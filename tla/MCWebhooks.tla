----------------------------- MODULE MCWebhooks -----------------------------
(* Webhooks, told apart by what later steps and the properties tell apart:   *)
(* an event left RECEIVED, FAILED or REJECTED is unresolved all the same, an *)
(* answer of PENDING or UNKNOWN is applied alike, checks no longer count     *)
(* once the attempt is SUCCEEDED, nor a selection for expiry once the order  *)
(* has been paid or closed.                                                  *)
EXTENDS Webhooks

Standing(e) == IF evStatus[e] \in {"FAILED", "REJECTED"} THEN "RECEIVED" ELSE evStatus[e]
Undecided(e) == IF heard[e] = "UNKNOWN" THEN "PENDING" ELSE heard[e]
Checked(a) == IF attStatus[a] = "SUCCEEDED" THEN 0 ELSE checks[a]
Expiring == expiring /\ order \in {"PENDING", "EXPIRED"}

WebhooksView ==
    <<db, tara, shown, rechecked, [e \in Events |-> <<Standing(e), Undecided(e)>>], evFor, evSaysPaid,
      worker, outcome, willSay, checking, answer, [a \in Attempts |-> Checked(a)], Expiring>>
=============================================================================
