---------------------------- MODULE MCSaleRecords ----------------------------
(* SaleRecords, told apart by everything but the stored links: no guard and  *)
(* no property of the records reads them, so states that differ only there   *)
(* take the same steps.                                                      *)
EXTENDS SaleRecords

RecordsView == <<order, inst, attInst, attStatus, conf, access, today>>
=============================================================================
