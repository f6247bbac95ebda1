----------------------------- MODULE SaleLedger -----------------------------
(***************************************************************************)
(* What the sale promises, without attempts, orders, links or dates: each  *)
(* installment is owed until it is paid, excused or dropped, once and for  *)
(* all; the access opens in the very step that makes it due and never      *)
(* closes here; the sale ends once, completed when nothing is owed or      *)
(* dropped, or cancelled together with everything still owed.              *)
(* SaleRecords implements it.                                              *)
(***************************************************************************)
CONSTANTS
    Insts,        \* the sale's installments
    FullPayment   \* whether access is due after all of them or after the first

VARIABLES
    fate,    \* of each installment
    sale,    \* "open", "complete" or "cancelled"
    opened   \* whether course access was asked for

ledger == <<fate, sale, opened>>

Settled(f) == \A i \in Insts : f[i] \in {"paid", "excused"}
AccessDue(f) == IF FullPayment THEN Settled(f) ELSE \E i \in Insts : f[i] = "paid"

LedgerInit ==
    /\ fate = [i \in Insts |-> "owed"]
    /\ sale = "open"
    /\ opened = FALSE

\* Paid by the customer, or excused by staff. The last one usually completes
\* the sale; a suspended sale is completed later.
Settle(i) ==
    /\ sale = "open"
    /\ fate[i] = "owed" /\ fate'[i] \in {"paid", "excused"}
    /\ fate' = [fate EXCEPT ![i] = fate'[i]]
    /\ opened' = AccessDue(fate')
    /\ sale' = "open" \/ (sale' = "complete" /\ Settled(fate'))

Drop(i) ==
    /\ sale = "open"
    /\ fate[i] = "owed" /\ fate'[i] = "dropped"
    /\ fate' = [fate EXCEPT ![i] = "dropped"]
    /\ UNCHANGED <<sale, opened>>

Cancel ==
    /\ sale = "open"
    /\ sale' = "cancelled"
    /\ fate' = [i \in Insts |-> IF fate[i] = "owed" THEN "dropped" ELSE fate[i]]
    /\ UNCHANGED opened

Complete ==
    /\ sale = "open"
    /\ Settled(fate)
    /\ sale' = "complete"
    /\ UNCHANGED <<fate, opened>>

LedgerNext ==
    \/ \E i \in Insts : Settle(i) \/ Drop(i)
    \/ Cancel
    \/ Complete

LedgerSpec == LedgerInit /\ [][LedgerNext]_ledger
=============================================================================
