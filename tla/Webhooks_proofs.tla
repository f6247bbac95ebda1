-------------------------- MODULE Webhooks_proofs --------------------------
(***************************************************************************)
(* Webhooks implements SaleRecords, for any number of deliveries, attempts *)
(* and checks: whatever a request or a check remembers while it waits for  *)
(* Tara, each of its steps is one of the transactions of the sale or       *)
(* touches no row.  On top of that, an answer in memory stays true of the  *)
(* attempt it is about, so that no payment is recorded that Tara did not   *)
(* confirm and no report is called processed for one that is not recorded; *)
(* and staff are shown a report as long as there is something to do.       *)
(***************************************************************************)
EXTENDS SaleView, SaleRecords_proofs, WellFoundedInduction

\* The statuses of an event that names one of our attempts
Stored == {"RECEIVED", "PROCESSED", "FAILED"}

EventsOK ==
  /\ evStatus \in [Events -> EventStatuses]
  /\ evFor \in [Events -> Attempts \cup {0}]
  /\ evSaysPaid \in [Events -> BOOLEAN]
  /\ \A e \in Events : evStatus[e] \in Stored => evFor[e] \in Attempts /\ Created(evFor[e])

WorkersOK ==
  /\ worker \in [Events -> {"none", "ask", "apply", "resolve", "save"}]
  /\ heard \in [Events -> Verdicts \cup {""}]
  /\ outcome \in [Events -> {"", "PROCESSED", "FAILED"}]
  /\ willSay \in [Events -> BOOLEAN]
  /\ \A e \in Events :
        /\ heard[e] # "" <=> worker[e] = "apply"
        /\ outcome[e] # "" <=> worker[e] \in {"resolve", "save"}
        /\ worker[e] # "none" => evStatus[e] \in Stored

CheckersOK ==
  /\ checking \in [Checkers -> Attempts \cup {0}]
  /\ answer \in [Checkers -> {"", "SUCCESS", "FAILURE", "inconclusive", "credited"}]
  /\ checks \in [Attempts -> 0..MaxChecks]
  /\ \A v \in Checkers : answer[v] # "" => checking[v] \in Attempts

\* The type invariant, and what it rests on: a request that is still working has
\* a stored event that names an attempt, and a check with an answer has one too.
Inv ==
  /\ TypeOK
  /\ TaraTypeOK
  /\ EventsOK
  /\ WorkersOK
  /\ CheckersOK
  /\ expiring \in BOOLEAN

LEMMA AttemptsArePositive == 0 \notin Attempts /\ Attempts \subseteq Nat
  BY RecordsAssumption DEF Attempts

LEMMA InvGivesType == Inv => WebhooksTypeOK
  BY DEF Inv, WebhooksTypeOK, EventsOK, WorkersOK, CheckersOK, Stored

LEMMA InvInit == WebhooksInit => Inv
<1> SUFFICES ASSUME WebhooksInit PROVE Inv
  OBVIOUS
<1>1. TypeOK /\ TaraTypeOK
  BY TypeInit DEF WebhooksInit, TaraInit, TaraTypeOK, TaraStates
<1>2. EventsOK
  BY DEF WebhooksInit, EventsOK, EventStatuses, Stored
<1>3. WorkersOK
  BY DEF WebhooksInit, WorkersOK, Stored
<1>4. CheckersOK
  <2>1. MaxChecks \in Nat
    BY EventsAssumption
  <2>2. 0 \in 0..MaxChecks
    BY <2>1
  <2> QED BY <2>2 DEF WebhooksInit, CheckersOK
<1> QED BY <1>1, <1>2, <1>3, <1>4 DEF WebhooksInit, Inv

-----------------------------------------------------------------------------
\* Each step is a transaction of the sale, or leaves its rows alone

\* A transaction of the sale that names its rows is a step of Next.
LEMMA RowSteps ==
  /\ \A a \in Attempts, i \in Insts :
        (CreateAttempt(a, i) \/ AttributeToNew(a, i) \/ AttributeToOpen(a, i) \/ AttributionConflict(a, i)) => Next
  /\ \A a \in Attempts, url \in BOOLEAN : StoreLink(a, url) => Next
  /\ \A a \in Attempts, st \in {"SUCCEEDED", "FAILED", "EXPIRED", "UNKNOWN"} : MoveAttempt(a, st) => Next
  /\ \A a \in Attempts : Credit(a) \/ Fail(a) => Next
  BY DEF Next, AttemptStep, AdminStep

LEMMA CreditingStep ==
  ASSUME NEW a \in Attempts, NEW ok \in BOOLEAN, Crediting(a, ok)
  PROVE  [Next]_db
  BY RowSteps DEF Crediting

LEMMA BumpStep ==
  ASSUME NEW a \in Attempts, Bump(a)
  PROVE  [Next]_db
<1>1. MoveAttempt(a, "UNKNOWN") \/ UNCHANGED db
  BY DEF Bump
<1> QED BY <1>1, RowSteps

LEMMA EventRowStep ==
  ASSUME Inv, NEW e \in Events, EventStep(e)
  PROVE  [Next]_db
<1>1. ASSUME NEW v \in Verdicts, AskTara(e, v) PROVE [Next]_db
  BY <1>1 DEF AskTara
<1>2. ASSUME ApplyAnswer(e) PROVE [Next]_db
  <2>1. evFor[e] \in Attempts
    BY <1>2 DEF ApplyAnswer, Inv, EventsOK, WorkersOK
  <2>2. Crediting(evFor[e], TRUE) \/ Crediting(evFor[e], FALSE) \/ Fail(evFor[e]) \/ UNCHANGED db
    BY <1>2 DEF ApplyAnswer
  <2> QED BY <2>1, <2>2, CreditingStep, RowSteps
<1>3. ASSUME ResolveOthers(e) \/ SaveEvent(e) PROVE [Next]_db
  BY <1>3 DEF ResolveOthers, SaveEvent
<1> QED BY <1>1, <1>2, <1>3 DEF EventStep

LEMMA CheckRowStep ==
  ASSUME Inv, NEW v \in Checkers, CheckStep(v)
  PROVE  [Next]_db
<1>1. ASSUME NEW w \in Verdicts, HearCheck(v, w) PROVE [Next]_db
  BY <1>1 DEF HearCheck
<1>2. ASSUME ApplyCheck(v) PROVE [Next]_db
  <2>1. checking[v] \in Attempts
    BY <1>2 DEF ApplyCheck, Inv, CheckersOK
  <2>2. Crediting(checking[v], TRUE) \/ Fail(checking[v]) \/ Bump(checking[v]) \/ UNCHANGED db
    BY <1>2 DEF ApplyCheck, Inconclusive
  <2> QED BY <2>1, <2>2, CreditingStep, BumpStep, RowSteps
<1>3. ASSUME ResolveCheck(v) PROVE [Next]_db
  BY <1>3 DEF ResolveCheck
<1> QED BY <1>1, <1>2, <1>3 DEF CheckStep

LEMMA ElsewhereRowStep == Elsewhere => [Next]_db
<1> SUFFICES ASSUME Elsewhere PROVE [Next]_db
  OBVIOUS
<1>1. ASSUME NEW a \in Attempts, Paying(a) PROVE [Next]_db
  BY <1>1, RowSteps DEF Paying, CustomerPays
<1>2. ASSUME NEW a \in Attempts, Rechecking(a) PROVE [Next]_db
  BY <1>2, RowSteps DEF Rechecking
<1>3. ASSUME Deciding PROVE [Next]_db
  BY <1>3 DEF Deciding, Next, AdminStep, OrderStep
<1> QED BY <1>1, <1>2, <1>3 DEF Elsewhere

LEMMA RecordsStep == Inv /\ [WebhooksNext]_vars => [Next]_db
<1> SUFFICES ASSUME Inv, [WebhooksNext]_vars PROVE [Next]_db
  OBVIOUS
<1>1. ASSUME NEW e \in Events, NEW a \in Attempts, NEW says \in BOOLEAN, Deliver(e, a, says)
      PROVE  [Next]_db
  BY <1>1 DEF Deliver
<1>2. ASSUME NEW e \in Events, NEW status \in EventStatuses, NEW a \in Attempts \cup {0},
             NEW says \in BOOLEAN, Dismiss(e, status, a, says)
      PROVE  [Next]_db
  BY <1>2 DEF Dismiss
<1>3. ASSUME NEW e \in Events, Die(e) PROVE [Next]_db
  BY <1>3 DEF Die
<1>4. ASSUME NEW v \in Checkers, NEW a \in Attempts, StartCheck(v, a) PROVE [Next]_db
  BY <1>4 DEF StartCheck
<1>5. ASSUME NEW v \in Checkers, StopCheck(v) PROVE [Next]_db
  BY <1>5 DEF StopCheck
<1>6. ASSUME NEW e \in Events, NEW a \in Attempts, NEW i \in Insts, Attribute(e, a, i)
      PROVE  [Next]_db
  BY <1>6, RowSteps DEF Attribute
<1>7. ASSUME SelectStale \/ ExpireSelected PROVE [Next]_db
  BY <1>7 DEF SelectStale, ExpireSelected, Next, OrderStep
<1>8. ASSUME UNCHANGED vars PROVE [Next]_db
  BY <1>8 DEF vars
<1> QED
  BY <1>1, <1>2, <1>3, <1>4, <1>5, <1>6, <1>7, <1>8, EventRowStep, CheckRowStep, ElsewhereRowStep
  DEF WebhooksNext

-----------------------------------------------------------------------------
\* The handlers' own state

\* An attempt is created once and for all.
LEMMA CreatedStays ==
  ASSUME TypeOK, [Next]_db, NEW a \in Attempts, Created(a)
  PROVE  Created(a)'
<1> USE DEF TypeOK, Created
<1>1. ASSUME NEW b \in Attempts, NEW st \in AttemptStatuses, attStatus' = [attStatus EXCEPT ![b] = st]
      PROVE  Created(a)'
  BY <1>1 DEF AttemptStatuses
<1>2. ASSUME NEW b \in Attempts, AttemptStep(b) PROVE Created(a)'
  BY <1>2 DEF AttemptStep, CreateAttempt, InsertAttempt, StoreLink, MoveAttempt, Credit, Fail, RepairConfirmation
<1>3. CASE AdminStep
  BY <1>3 DEF AdminStep, CancelOrder, CancelInstallment, WaiveInstallment, CloseAttempts,
     AttributeToNew, AttributeToOpen, AttributionConflict, InsertAttempt, Credit
<1>4. CASE OrderStep
  BY <1>4 DEF OrderStep, ReopenOrder, MarkDue, MarkLate, ExpireOrder, SuspendOrder, ResumeOrder,
     RefreshOrder, NextDay
<1>5. CASE UNCHANGED db
  BY <1>5 DEF db
<1> QED BY <1>2, <1>3, <1>4, <1>5 DEF Next

Handlers == EventsOK /\ WorkersOK /\ CheckersOK

\* What an unchanged handler keeps while the records move on.
LEMMA EventsFrame ==
  ASSUME EventsOK, UNCHANGED events, \A a \in Attempts : Created(a) => Created(a)'
  PROVE  EventsOK'
  BY DEF EventsOK, events, Created

LEMMA WorkersFrame ==
  ASSUME WorkersOK, UNCHANGED processing, \A e \in Events : evStatus[e] \in Stored => evStatus'[e] \in Stored
  PROVE  WorkersOK'
  BY DEF WorkersOK, processing

LEMMA CheckersFrame ==
  ASSUME CheckersOK, UNCHANGED checker
  PROVE  CheckersOK'
  BY DEF CheckersOK, checker

LEMMA ResolvedFacts ==
  ASSUME EventsOK, NEW a \in Attempts, TypeOK, UNCHANGED <<attStatus, evFor, evSaysPaid>>, evStatus' = Resolved(a)
  PROVE  /\ EventsOK'
         /\ \A e \in Events : evStatus[e] \in Stored => evStatus'[e] \in Stored
<1>1. \A e \in Events : evStatus'[e] = evStatus[e] \/ (evStatus'[e] = "PROCESSED" /\ evFor[e] = a /\ Created(a))
  BY DEF Resolved, Created
<1>2. evStatus' \in [Events -> EventStatuses]
  BY DEF EventsOK, Resolved, EventStatuses
<1>3. \A e \in Events : evStatus[e] \in Stored => evStatus'[e] \in Stored
  BY <1>1 DEF Stored
<1> QED BY <1>1, <1>2, <1>3 DEF EventsOK, Created

LEMMA ForgetFacts ==
  ASSUME WorkersOK, NEW e \in Events, Forget(e),
         \A x \in Events : evStatus[x] \in Stored => evStatus'[x] \in Stored
  PROVE  WorkersOK'
  BY DEF WorkersOK, Forget

LEMMA DecideFacts ==
  ASSUME WorkersOK, NEW e \in Events, NEW next \in {"resolve", "save"},
         NEW result \in {"PROCESSED", "FAILED"}, NEW says \in BOOLEAN,
         worker[e] # "none", UNCHANGED evStatus, Decide(e, next, result, says)
  PROVE  WorkersOK'
  BY DEF WorkersOK, Decide

LEMMA EventHandlers ==
  ASSUME Inv, NEW e \in Events, EventStep(e), \A a \in Attempts : Created(a) => Created(a)'
  PROVE  Handlers'
<1>0. EventsOK /\ WorkersOK /\ CheckersOK
  BY DEF Inv
<1>1. ASSUME NEW v \in Verdicts, AskTara(e, v) PROVE Handlers'
  <2>1. EventsOK' /\ CheckersOK'
    BY <1>0, <1>1, EventsFrame, CheckersFrame DEF AskTara
  <2>2. WorkersOK'
    BY <1>0, <1>1 DEF AskTara, WorkersOK, Verdicts, events
  <2> QED BY <2>1, <2>2 DEF Handlers
<1>2. ASSUME ApplyAnswer(e) PROVE Handlers'
  <2>1. EventsOK' /\ CheckersOK'
    BY <1>0, <1>2, EventsFrame, CheckersFrame DEF ApplyAnswer
  <2>2. PICK next \in {"resolve", "save"}, result \in {"PROCESSED", "FAILED"}, says \in BOOLEAN :
           Decide(e, next, result, says)
    <3>1. evSaysPaid[e] \in BOOLEAN
      BY <1>0 DEF EventsOK
    <3> QED BY <1>2, <3>1 DEF ApplyAnswer
  <2>3. worker[e] # "none" /\ UNCHANGED evStatus
    BY <1>2 DEF ApplyAnswer, events
  <2> QED BY <1>0, <2>1, <2>2, <2>3, DecideFacts DEF Handlers
<1>3. ASSUME ResolveOthers(e) PROVE Handlers'
  <2>1. evFor[e] \in Attempts
    BY <1>0, <1>3 DEF ResolveOthers, EventsOK, WorkersOK
  <2>2. EventsOK' /\ \A x \in Events : evStatus[x] \in Stored => evStatus'[x] \in Stored
    BY <1>0, <1>3, <2>1, ResolvedFacts DEF ResolveOthers, Inv, db
  <2>3. WorkersOK'
    BY <1>0, <1>3, <2>2 DEF ResolveOthers, WorkersOK
  <2> QED BY <1>0, <1>3, <2>2, <2>3, CheckersFrame DEF ResolveOthers, Handlers
<1>4. ASSUME SaveEvent(e) PROVE Handlers'
  <2>1. evStatus[e] \in Stored /\ outcome[e] \in {"PROCESSED", "FAILED"} /\ willSay[e] \in BOOLEAN
    BY <1>0, <1>4 DEF SaveEvent, WorkersOK
  <2>2. evStatus' \in [Events -> EventStatuses] /\ \A x \in Events : evStatus[x] \in Stored <=> evStatus'[x] \in Stored
    BY <1>0, <1>4, <2>1 DEF SaveEvent, EventsOK, EventStatuses, Stored
  <2>3. EventsOK'
    BY <1>0, <1>4, <2>1, <2>2 DEF SaveEvent, EventsOK, Created, db
  <2> QED BY <1>0, <1>4, <2>2, <2>3, ForgetFacts, CheckersFrame DEF SaveEvent, Handlers
<1> QED BY <1>1, <1>2, <1>3, <1>4 DEF EventStep

LEMMA EndCheckFacts ==
  ASSUME CheckersOK, NEW v \in Checkers, EndCheck(v), checks' \in [Attempts -> 0..MaxChecks]
  PROVE  CheckersOK'
  BY DEF CheckersOK, EndCheck

LEMMA BumpFacts ==
  ASSUME CheckersOK, NEW a \in Attempts, Bump(a)
  PROVE  checks' \in [Attempts -> 0..MaxChecks]
<1>1. MaxChecks \in Nat
  BY EventsAssumption
<1>2. checks \in [Attempts -> 0..MaxChecks]
  BY DEF CheckersOK
<1>3. checks' = checks \/ checks' = [checks EXCEPT ![a] = IF @ < MaxChecks THEN @ + 1 ELSE @]
  BY DEF Bump
<1> QED BY <1>1, <1>2, <1>3

LEMMA InconclusiveFacts ==
  ASSUME CheckersOK, NEW v \in Checkers, NEW a \in Attempts, Inconclusive(v, a)
  PROVE  CheckersOK'
<1>1. checks' \in [Attempts -> 0..MaxChecks]
  BY BumpFacts DEF Inconclusive, CheckersOK
<1> QED BY <1>1, EndCheckFacts DEF Inconclusive

LEMMA CheckHandlers ==
  ASSUME Inv, NEW v \in Checkers, CheckStep(v), \A a \in Attempts : Created(a) => Created(a)'
  PROVE  Handlers'
<1>0. EventsOK /\ WorkersOK /\ CheckersOK
  BY DEF Inv
<1>1. ASSUME NEW w \in Verdicts, HearCheck(v, w) PROVE Handlers'
  <2>1. EventsOK' /\ WorkersOK'
    BY <1>0, <1>1, EventsFrame, WorkersFrame DEF HearCheck, events
  <2>2. CheckersOK'
    BY <1>0, <1>1 DEF HearCheck, CheckersOK
  <2> QED BY <2>1, <2>2 DEF Handlers
<1>2. ASSUME ApplyCheck(v) PROVE Handlers'
  <2>1. EventsOK' /\ WorkersOK'
    BY <1>0, <1>2, EventsFrame, WorkersFrame DEF ApplyCheck, events
  <2>2. checking[v] \in Attempts
    BY <1>0, <1>2 DEF ApplyCheck, CheckersOK
  <2>3. \/ answer' = [answer EXCEPT ![v] = "credited"] /\ UNCHANGED <<checking, checks>>
        \/ Inconclusive(v, checking[v])
        \/ EndCheck(v) /\ UNCHANGED checks
    BY <1>2 DEF ApplyCheck
  <2>4. checks \in [Attempts -> 0..MaxChecks]
    BY <1>0 DEF CheckersOK
  <2>5. ASSUME answer' = [answer EXCEPT ![v] = "credited"], UNCHANGED <<checking, checks>>
        PROVE  CheckersOK'
    BY <1>0, <2>2, <2>5 DEF CheckersOK
  <2>6. CheckersOK'
    BY <1>0, <2>2, <2>3, <2>4, <2>5, InconclusiveFacts, EndCheckFacts
  <2> QED BY <2>1, <2>6 DEF Handlers
<1>3. ASSUME ResolveCheck(v) PROVE Handlers'
  <2>1. checking[v] \in Attempts /\ checks \in [Attempts -> 0..MaxChecks]
    BY <1>0, <1>3 DEF ResolveCheck, CheckersOK
  <2>2. EventsOK' /\ \A x \in Events : evStatus[x] \in Stored => evStatus'[x] \in Stored
    BY <1>0, <1>3, <2>1, ResolvedFacts DEF ResolveCheck, Inv, db
  <2>3. WorkersOK' /\ CheckersOK'
    BY <1>0, <1>3, <2>1, <2>2, WorkersFrame, EndCheckFacts DEF ResolveCheck
  <2> QED BY <2>2, <2>3 DEF Handlers
<1> QED BY <1>1, <1>2, <1>3 DEF CheckStep

LEMMA HandlersStep == Inv /\ [WebhooksNext]_vars => Handlers'
<1> SUFFICES ASSUME Inv, [WebhooksNext]_vars PROVE Handlers'
  OBVIOUS
<1>a. EventsOK /\ WorkersOK /\ CheckersOK
  BY DEF Inv
<1>b. \A a \in Attempts : Created(a) => Created(a)'
  BY RecordsStep, CreatedStays DEF Inv
<1>1. ASSUME NEW e \in Events, NEW a \in Attempts, NEW says \in BOOLEAN, Deliver(e, a, says)
      PROVE  Handlers'
  <2>1. EventsOK'
    BY <1>a, <1>1 DEF Deliver, Record, EventsOK, EventStatuses, Stored, Created, db
  <2>2. WorkersOK'
    BY <1>a, <1>1 DEF Deliver, Record, WorkersOK, Stored, EventsOK
  <2> QED BY <1>a, <1>1, <2>1, <2>2, CheckersFrame DEF Deliver, Handlers
<1>2. ASSUME NEW e \in Events, NEW status \in EventStatuses, NEW a \in Attempts \cup {0},
             NEW says \in BOOLEAN, Dismiss(e, status, a, says)
      PROVE  Handlers'
  <2>0. status \notin Stored
    BY <1>2 DEF Dismiss, Stored
  <2>1. EventsOK'
    BY <1>a, <1>2, <2>0 DEF Dismiss, Record, EventsOK, Created, db
  <2>2. \A x \in Events : evStatus[x] \in Stored => evStatus'[x] \in Stored
    BY <1>a, <1>2 DEF Dismiss, Record, EventsOK, Stored
  <2> QED BY <1>a, <1>2, <2>1, <2>2, CheckersFrame, WorkersFrame DEF Dismiss, Handlers
<1>3. ASSUME NEW e \in Events, Die(e) PROVE Handlers'
  BY <1>a, <1>b, <1>3, EventsFrame, CheckersFrame, ForgetFacts DEF Die, Handlers, events
<1>4. ASSUME NEW v \in Checkers, NEW a \in Attempts, StartCheck(v, a) PROVE Handlers'
  <2>1. CheckersOK'
    BY <1>a, <1>4 DEF StartCheck, CheckersOK
  <2> QED BY <1>a, <1>b, <1>4, <2>1, EventsFrame, WorkersFrame DEF StartCheck, Handlers, events
<1>5. ASSUME NEW v \in Checkers, StopCheck(v) PROVE Handlers'
  <2>1. checks' \in [Attempts -> 0..MaxChecks]
    BY <1>a, <1>5 DEF StopCheck, CheckersOK
  <2> QED BY <1>a, <1>b, <1>5, <2>1, EventsFrame, WorkersFrame, EndCheckFacts DEF StopCheck, Handlers, events
<1>6. ASSUME NEW e \in Events, NEW a \in Attempts, NEW i \in Insts, Attribute(e, a, i)
      PROVE  Handlers'
  <2>1. CASE UNCHANGED <<evStatus, evFor>>
    BY <1>a, <1>b, <1>6, <2>1, EventsFrame, WorkersFrame, CheckersFrame DEF Attribute, Handlers, events
  <2>2. CASE ~UNCHANGED <<evStatus, evFor>>
    <3>1. /\ AttributeToNew(a, i) \/ AttributeToOpen(a, i)
          /\ evStatus' = [evStatus EXCEPT ![e] = "PROCESSED"]
          /\ evFor' = [evFor EXCEPT ![e] = a]
          /\ UNCHANGED <<evSaysPaid, processing, checker>>
      BY <1>6, <2>2 DEF Attribute
    <3>2. Created(a)'
      BY <3>1 DEF AttributeToNew, AttributeToOpen, Credit, Created, Inv, TypeOK
    <3>3. EventsOK'
      BY <1>a, <1>b, <3>1, <3>2 DEF EventsOK, EventStatuses, Stored, Created
    <3>4. \A x \in Events : evStatus[x] \in Stored => evStatus'[x] \in Stored
      BY <1>a, <3>1 DEF EventsOK, Stored
    <3> QED BY <1>a, <3>1, <3>3, <3>4, WorkersFrame, CheckersFrame DEF Handlers
  <2> QED BY <2>1, <2>2
<1>7. ASSUME SelectStale \/ ExpireSelected \/ Elsewhere \/ UNCHANGED vars PROVE Handlers'
  <2>1. UNCHANGED <<events, processing, checker>>
    BY <1>7 DEF SelectStale, ExpireSelected, Elsewhere, vars
  <2> QED BY <1>a, <1>b, <2>1, EventsFrame, WorkersFrame, CheckersFrame DEF Handlers, events
<1> QED
  BY <1>b, <1>1, <1>2, <1>3, <1>4, <1>5, <1>6, <1>7, EventHandlers, CheckHandlers
  DEF WebhooksNext

-----------------------------------------------------------------------------
LEMMA TaraStep == Inv /\ [WebhooksNext]_vars => TaraTypeOK' /\ expiring' \in BOOLEAN
<1> SUFFICES ASSUME Inv, [WebhooksNext]_vars PROVE TaraTypeOK' /\ expiring' \in BOOLEAN
  OBVIOUS
<1> USE DEF Inv, TaraTypeOK
<1>1. ASSUME NEW e \in Events, EventStep(e) \/ Die(e) PROVE TaraTypeOK' /\ expiring' \in BOOLEAN
  BY <1>1 DEF EventStep, AskTara, ApplyAnswer, ResolveOthers, SaveEvent, Die
<1>2. ASSUME NEW v \in Checkers, CheckStep(v) \/ StopCheck(v) PROVE TaraTypeOK' /\ expiring' \in BOOLEAN
  BY <1>2 DEF CheckStep, HearCheck, ApplyCheck, ResolveCheck, StopCheck
<1>3. ASSUME NEW e \in Events, NEW a \in Attempts, NEW i \in Insts, Attribute(e, a, i)
      PROVE  TaraTypeOK' /\ expiring' \in BOOLEAN
  BY <1>3 DEF Attribute, checker, TaraStates
<1>4. ASSUME Elsewhere PROVE TaraTypeOK' /\ expiring' \in BOOLEAN
  <2>1. ASSUME NEW a \in Attempts, Paying(a) PROVE TaraTypeOK'
    BY <2>1 DEF Paying, OpenAtTara, CustomerPays, TaraStates
  <2> QED BY <1>4, <2>1 DEF Elsewhere, Rechecking, NoteRecheck, Deciding
<1>5. CASE UNCHANGED vars
  BY <1>5 DEF vars
<1> QED
  BY <1>1, <1>2, <1>3, <1>4, <1>5
  DEF WebhooksNext, Deliver, Dismiss, StartCheck, SelectStale, ExpireSelected

LEMMA InvStep == Inv /\ [WebhooksNext]_vars => Inv'
<1>1. Inv /\ [WebhooksNext]_vars => TypeOK'
  BY RecordsStep, TypeStep DEF Inv
<1> QED BY <1>1, HandlersStep, TaraStep DEF Inv, Handlers

LEMMA InvAlways == WebhooksSafety => []Inv
  BY InvInit, InvStep, PTL DEF WebhooksSafety

\* Every request and every check is where it can be, with the event, the attempt
\* and the answer it should hold.
THEOREM WebhooksTypeCorrect == WebhooksSafety => []WebhooksTypeOK
  BY InvAlways, InvGivesType, PTL

\* Webhooks, checks and expiry implement the transactions of the sale.
THEOREM WebhooksImplementRecords == WebhooksSafety => Spec
<1>1. WebhooksInit => Init
  BY DEF WebhooksInit
<1> QED BY <1>1, InvAlways, RecordsStep, PTL DEF WebhooksSafety, Spec

\* A webhook and the checks that run beside it never leave two live attempts of
\* an installment, however late a payment becomes known.
THEOREM WebhooksKeepOneActive == WebhooksSafety => []OneActiveAttempt
  BY WebhooksImplementRecords, OneActiveAttemptAlways, PTL

\* Nor do they break anything else the sale promises, above all what the customer
\* was told is paid, excused or over (SaleRecords' transactions, whoever runs them).
THEOREM WebhooksKeepTheSale ==
  WebhooksSafety =>
    /\ LedgerIsKept /\ HistoryIsFinal
    /\ [](PaidHasPayer /\ ConfirmationFollowsPayment /\ OrderMatchesPayments /\ AccessFollowsPolicy)
  BY WebhooksImplementRecords, RecordsImplementLedger, HistoryIsFinalAlways, PaidHasPayerAlways,
     ConfirmationFollowsPaymentAlways, OrderMatchesPaymentsAlways, AccessFollowsPolicyAlways, PTL

-----------------------------------------------------------------------------
\* What is remembered is true

\* A request about to save PROCESSED for a payment has its attempt SUCCEEDED.
OutcomeIsTrue ==
  \A e \in Events : outcome[e] = "PROCESSED" /\ willSay[e] => attStatus[evFor[e]] = "SUCCEEDED"

\* A report marked PROCESSED has it too.
ProcessedIsSucceeded ==
  \A e \in Events : evStatus[e] = "PROCESSED" /\ evSaysPaid[e] => attStatus[evFor[e]] = "SUCCEEDED"

\* Neither half is disturbed by a step that leaves the events and the requests alone:
\* what is SUCCEEDED stays so.
LEMMA ProcessedFrame ==
  ASSUME Inv, AttemptsAreFinal, OutcomeIsTrue, ProcessedIsSucceeded, UNCHANGED <<events, processing>>
  PROVE  OutcomeIsTrue' /\ ProcessedIsSucceeded'
<1>1. \A e \in Events : evStatus[e] \in Stored => evFor[e] \in Attempts
  BY DEF Inv, EventsOK
<1>2. \A e \in Events : outcome[e] = "PROCESSED" => evStatus[e] \in Stored
  BY DEF Inv, WorkersOK
<1>3. OutcomeIsTrue'
  BY <1>1, <1>2 DEF OutcomeIsTrue, AttemptsAreFinal, events, processing
<1>4. ProcessedIsSucceeded'
  BY <1>1 DEF ProcessedIsSucceeded, AttemptsAreFinal, events, Stored
<1> QED BY <1>3, <1>4

\* resolve_reported_events marks only what it found recorded.
LEMMA ResolvedIsRecorded ==
  ASSUME Inv, OutcomeIsTrue, ProcessedIsSucceeded, NEW a \in Attempts,
         evStatus' = Resolved(a), UNCHANGED <<attStatus, evFor, evSaysPaid, outcome, willSay>>
  PROVE  ProcessedIsSucceeded'
  BY DEF ProcessedIsSucceeded, Resolved, Inv, EventsOK

LEMMA CreditedIsSucceeded ==
  ASSUME TypeOK, NEW a \in Attempts, Crediting(a, TRUE)
  PROVE  attStatus'[a] = "SUCCEEDED"
  BY DEF Crediting, Credit, TypeOK, db

LEMMA ProcessedEventStep ==
  ASSUME Inv, AttemptsAreFinal, OutcomeIsTrue, ProcessedIsSucceeded,
         NEW e \in Events, EventStep(e) \/ Die(e)
  PROVE  OutcomeIsTrue' /\ ProcessedIsSucceeded'
<1>0. EventsOK /\ WorkersOK /\ TypeOK
  BY DEF Inv
<1>1. \A x \in Events : /\ evStatus[x] \in Stored => evFor[x] \in Attempts
                        /\ outcome[x] = "PROCESSED" => evFor[x] \in Attempts
                        /\ evStatus[x] = "PROCESSED" => evFor[x] \in Attempts
  BY <1>0 DEF EventsOK, WorkersOK, Stored
<1>2. ASSUME UNCHANGED <<evFor, evStatus, evSaysPaid>> PROVE ProcessedIsSucceeded'
  BY <1>1, <1>2 DEF ProcessedIsSucceeded, AttemptsAreFinal
<1>3. ASSUME UNCHANGED <<evFor, outcome, willSay>> PROVE OutcomeIsTrue'
  BY <1>1, <1>3 DEF OutcomeIsTrue, AttemptsAreFinal
<1>4. ASSUME Forget(e), UNCHANGED evFor PROVE OutcomeIsTrue'
  BY <1>0, <1>1, <1>4 DEF Forget, OutcomeIsTrue, AttemptsAreFinal, WorkersOK
<1>5. ASSUME NEW v \in Verdicts, AskTara(e, v) PROVE OutcomeIsTrue' /\ ProcessedIsSucceeded'
  BY <1>2, <1>3, <1>5 DEF AskTara, events
<1>6. ASSUME ApplyAnswer(e) PROVE OutcomeIsTrue' /\ ProcessedIsSucceeded'
  <2>1. evFor[e] \in Attempts /\ UNCHANGED <<evFor, evStatus, evSaysPaid>>
    BY <1>0, <1>6 DEF ApplyAnswer, EventsOK, WorkersOK, events
  <2>2. ASSUME NEW next, NEW result, NEW says, Decide(e, next, result, says),
               result = "PROCESSED" /\ says => attStatus'[evFor[e]] = "SUCCEEDED"
        PROVE  OutcomeIsTrue'
    BY <1>0, <1>1, <2>1, <2>2 DEF Decide, OutcomeIsTrue, AttemptsAreFinal, WorkersOK
  <2>3. CASE Crediting(evFor[e], TRUE) /\ Decide(e, "resolve", "PROCESSED", TRUE)
    BY <1>0, <1>2, <2>1, <2>2, <2>3, CreditedIsSucceeded
  <2>4. CASE \E next, says : Decide(e, next, "FAILED", says)
    BY <1>2, <2>1, <2>2, <2>4
  <2>5. CASE \E next : Decide(e, next, "PROCESSED", FALSE)
    BY <1>2, <2>1, <2>2, <2>5
  <2> QED BY <1>6, <2>3, <2>4, <2>5 DEF ApplyAnswer
<1>7. ASSUME ResolveOthers(e) PROVE OutcomeIsTrue' /\ ProcessedIsSucceeded'
  <2>1. evFor[e] \in Attempts
    BY <1>0, <1>7 DEF ResolveOthers, EventsOK, WorkersOK
  <2> QED BY <1>3, <1>7, <2>1, ResolvedIsRecorded DEF ResolveOthers, db
<1>8. ASSUME SaveEvent(e) PROVE OutcomeIsTrue' /\ ProcessedIsSucceeded'
  <2>1. OutcomeIsTrue'
    BY <1>4, <1>8 DEF SaveEvent
  <2>2. UNCHANGED <<attStatus, evFor>>
    BY <1>8 DEF SaveEvent, db
  <2>3. ProcessedIsSucceeded'
    BY <1>0, <1>8, <2>2 DEF SaveEvent, ProcessedIsSucceeded, OutcomeIsTrue, EventsOK
  <2> QED BY <2>1, <2>3
<1>9. ASSUME Die(e) PROVE OutcomeIsTrue' /\ ProcessedIsSucceeded'
  BY <1>2, <1>4, <1>9 DEF Die, events
<1> QED BY <1>5, <1>6, <1>7, <1>8, <1>9 DEF EventStep

LEMMA ProcessedStep ==
  Inv /\ OutcomeIsTrue /\ ProcessedIsSucceeded /\ [WebhooksNext]_vars
    => OutcomeIsTrue' /\ ProcessedIsSucceeded'
<1> SUFFICES ASSUME Inv, OutcomeIsTrue, ProcessedIsSucceeded, [WebhooksNext]_vars
             PROVE  OutcomeIsTrue' /\ ProcessedIsSucceeded'
  OBVIOUS
<1> DEFINE Good == OutcomeIsTrue' /\ ProcessedIsSucceeded'
<1>a. AttemptsAreFinal
  BY RecordsStep, AttemptsFinalStep DEF Inv
<1>b. EventsOK /\ WorkersOK /\ CheckersOK
  BY DEF Inv
<1>c. ASSUME UNCHANGED <<events, processing>> PROVE Good
  BY <1>a, <1>c, ProcessedFrame
<1>d. ASSUME NEW e \in Events, NEW st \in EventStatuses, NEW a \in Attempts \cup {0}, NEW says \in BOOLEAN,
             Record(e, st, a, says), st # "PROCESSED", UNCHANGED <<db, outcome, willSay>>
      PROVE  Good
  <2>1. outcome[e] = ""
    BY <1>b, <1>d DEF Record, WorkersOK, Stored
  <2>2. UNCHANGED attStatus
    BY <1>d DEF db
  <2>3. OutcomeIsTrue'
    BY <1>b, <1>d, <2>1, <2>2 DEF Record, OutcomeIsTrue, EventsOK
  <2>4. ProcessedIsSucceeded'
    BY <1>b, <1>d, <2>2 DEF Record, ProcessedIsSucceeded, EventsOK
  <2> QED BY <2>3, <2>4
<1>1. ASSUME NEW e \in Events, NEW a \in Attempts, NEW says \in BOOLEAN, Deliver(e, a, says)
      PROVE  Good
  BY <1>1, <1>d DEF Deliver, EventStatuses
<1>2. ASSUME NEW e \in Events, NEW status \in EventStatuses, NEW a \in Attempts \cup {0},
             NEW says \in BOOLEAN, Dismiss(e, status, a, says)
      PROVE  Good
  BY <1>2, <1>d DEF Dismiss, processing
<1>3. ASSUME NEW v \in Checkers, ResolveCheck(v) PROVE Good
  <2>1. checking[v] \in Attempts
    BY <1>b, <1>3 DEF ResolveCheck, CheckersOK
  <2>2. UNCHANGED <<attStatus, evFor, evSaysPaid, outcome, willSay>> /\ evStatus' = Resolved(checking[v])
    BY <1>3 DEF ResolveCheck, db, processing
  <2>3. OutcomeIsTrue'
    BY <2>2 DEF OutcomeIsTrue
  <2> QED BY <2>1, <2>2, <2>3, ResolvedIsRecorded
<1>4. ASSUME NEW v \in Checkers, NEW a \in Attempts, StartCheck(v, a) PROVE Good
  BY <1>4, <1>c DEF StartCheck
<1>5. ASSUME NEW v \in Checkers, CheckStep(v) \/ StopCheck(v) PROVE Good
  BY <1>3, <1>5, <1>c DEF CheckStep, HearCheck, ApplyCheck, StopCheck
<1>6. ASSUME NEW e \in Events, NEW a \in Attempts, NEW i \in Insts, Attribute(e, a, i)
      PROVE  Good
  <2>1. CASE UNCHANGED <<evStatus, evFor>>
    BY <1>6, <1>c, <2>1 DEF Attribute, events
  <2>2. CASE ~UNCHANGED <<evStatus, evFor>>
    <3>1. /\ AttributeToNew(a, i) \/ AttributeToOpen(a, i)
          /\ evStatus[e] = "UNCORRELATED"
          /\ evStatus' = [evStatus EXCEPT ![e] = "PROCESSED"]
          /\ evFor' = [evFor EXCEPT ![e] = a]
          /\ UNCHANGED <<evSaysPaid, outcome, willSay>>
      BY <1>6, <2>2 DEF Attribute, processing
    <3>2. attStatus'[a] = "SUCCEEDED"
      BY <3>1 DEF AttributeToNew, AttributeToOpen, Credit, Inv, TypeOK
    <3>3. outcome[e] = ""
      BY <1>b, <3>1 DEF WorkersOK, Stored
    <3>4. \A x \in Events : outcome[x] = "PROCESSED" \/ evStatus[x] = "PROCESSED" => evFor[x] \in Attempts
      BY <1>b DEF EventsOK, WorkersOK, Stored
    <3>5. OutcomeIsTrue'
      BY <1>a, <1>b, <3>1, <3>3, <3>4 DEF OutcomeIsTrue, EventsOK, AttemptsAreFinal
    <3>6. ProcessedIsSucceeded'
      BY <1>a, <1>b, <3>1, <3>2, <3>4 DEF ProcessedIsSucceeded, EventsOK, AttemptsAreFinal
    <3> QED BY <3>5, <3>6
  <2> QED BY <2>1, <2>2
<1>7. ASSUME SelectStale \/ ExpireSelected \/ Elsewhere \/ UNCHANGED vars PROVE Good
  BY <1>7, <1>c DEF SelectStale, ExpireSelected, Elsewhere, vars
<1> QED
  BY <1>a, <1>1, <1>2, <1>4, <1>5, <1>6, <1>7, ProcessedEventStep DEF WebhooksNext

LEMMA ProcessedIsSucceededAlways == WebhooksSafety => []ProcessedIsSucceeded
<1>1. WebhooksInit => OutcomeIsTrue /\ ProcessedIsSucceeded
  BY DEF WebhooksInit, OutcomeIsTrue, ProcessedIsSucceeded
<1> QED BY <1>1, InvAlways, ProcessedStep, PTL DEF WebhooksSafety

-----------------------------------------------------------------------------
\* A recorded payment was received

\* A payment heard of was received, and belongs to the attempt it was asked about.
HeardIsTrue ==
  /\ \A e \in Events : heard[e] = "SUCCESS" => tara[evFor[e]] = "success"
  /\ \A v \in Checkers : answer[v] = "SUCCESS" => tara[checking[v]] = "success"

\* What Tara received it keeps.
TaraKeeps == \A a \in Attempts : tara[a] = "success" => tara'[a] = "success"

\* A step succeeds no attempt but those whose payment Tara has.
SucceedsPaid == \A a \in Attempts :
  attStatus'[a] = "SUCCEEDED" => attStatus[a] = "SUCCEEDED" \/ tara'[a] = "success"

LEMMA KeepsNoFalseSuccess ==
  ASSUME NoFalseSuccess, TaraKeeps, SucceedsPaid
  PROVE  NoFalseSuccess'
  BY DEF NoFalseSuccess, TaraKeeps, SucceedsPaid

\* Closing attempts, and the decisions about orders, succeed none.
LEMMA ClosingSucceedsNone ==
  ASSUME TypeOK, NEW b \in Attempts, Deciding \/ ExpireOrder, attStatus'[b] = "SUCCEEDED"
  PROVE  attStatus[b] = "SUCCEEDED"
  BY DEF Deciding, ExpireOrder, ReopenOrder, CancelOrder, CancelInstallment, WaiveInstallment,
     CloseAttempts, TypeOK

LEMMA CreditingSucceeds ==
  ASSUME TypeOK, NEW a \in Attempts, NEW ok \in BOOLEAN, Crediting(a, ok), NEW b \in Attempts,
         attStatus'[b] = "SUCCEEDED"
  PROVE  attStatus[b] = "SUCCEEDED" \/ (ok /\ b = a)
<1>1. (ok /\ Credit(a)) \/ UNCHANGED attStatus
  BY DEF Crediting, db
<1> QED BY <1>1, WhoSucceeds

LEMMA BumpSucceedsNone ==
  ASSUME TypeOK, NEW a \in Attempts, Bump(a), NEW b \in Attempts, attStatus'[b] = "SUCCEEDED"
  PROVE  attStatus[b] = "SUCCEEDED"
<1>1. MoveAttempt(a, "UNKNOWN") \/ UNCHANGED attStatus
  BY DEF Bump, db
<1> QED BY <1>1, WhoSucceeds

LEMMA MoneyEventStep ==
  ASSUME Inv, HeardIsTrue, NEW e \in Events, EventStep(e) \/ Die(e)
  PROVE  SucceedsPaid /\ TaraKeeps /\ HeardIsTrue'
<1>0. EventsOK /\ WorkersOK /\ TypeOK /\ CheckersOK
  BY DEF Inv
<1>1. UNCHANGED <<tara, evFor, checking, answer>>
  BY DEF EventStep, AskTara, ApplyAnswer, ResolveOthers, SaveEvent, Die, events, checker
<1>2. TaraKeeps
  BY <1>1 DEF TaraKeeps
<1>3. ASSUME UNCHANGED attStatus PROVE SucceedsPaid
  BY <1>3 DEF SucceedsPaid
<1>4. ASSUME \E x \in Verdicts \cup {""} : heard' = [heard EXCEPT ![e] = x] /\ (x = "SUCCESS" => tara[evFor[e]] = "success")
      PROVE  HeardIsTrue'
  BY <1>0, <1>1, <1>4 DEF HeardIsTrue, WorkersOK
<1>5. ASSUME NEW v \in Verdicts, AskTara(e, v) PROVE SucceedsPaid /\ HeardIsTrue'
  BY <1>3, <1>4, <1>5 DEF AskTara, Answers, db
<1>6. ASSUME ApplyAnswer(e) PROVE SucceedsPaid /\ HeardIsTrue'
  <2>1. evFor[e] \in Attempts
    BY <1>0, <1>6 DEF ApplyAnswer, EventsOK, WorkersOK
  <2>2. \E n, r, s : Decide(e, n, r, s)
    BY <1>6 DEF ApplyAnswer
  <2>3. HeardIsTrue'
    BY <1>4, <2>2 DEF Decide
  <2>4. \/ heard[e] = "SUCCESS" /\ (Crediting(evFor[e], TRUE) \/ Crediting(evFor[e], FALSE))
        \/ Fail(evFor[e]) \/ UNCHANGED db
    BY <1>6 DEF ApplyAnswer
  <2>5. CASE heard[e] = "SUCCESS" /\ (Crediting(evFor[e], TRUE) \/ Crediting(evFor[e], FALSE))
    <3>1. tara'[evFor[e]] = "success"
      BY <1>1, <2>5 DEF HeardIsTrue
    <3> QED BY <1>0, <2>1, <2>3, <2>5, <3>1, CreditingSucceeds DEF SucceedsPaid
  <2>6. CASE Fail(evFor[e])
    BY <1>0, <2>1, <2>3, <2>6, WhoSucceeds DEF SucceedsPaid
  <2>7. CASE UNCHANGED db
    BY <1>3, <2>3, <2>7 DEF db
  <2> QED BY <2>4, <2>5, <2>6, <2>7
<1>7. ASSUME ResolveOthers(e) PROVE SucceedsPaid /\ HeardIsTrue'
  BY <1>1, <1>3, <1>7 DEF ResolveOthers, HeardIsTrue, db
<1>8. ASSUME SaveEvent(e) \/ Die(e) PROVE SucceedsPaid /\ HeardIsTrue'
  BY <1>3, <1>4, <1>8 DEF SaveEvent, Die, Forget, db
<1> QED BY <1>2, <1>5, <1>6, <1>7, <1>8 DEF EventStep

LEMMA MoneyCheckStep ==
  ASSUME Inv, HeardIsTrue, NEW v \in Checkers, CheckStep(v) \/ StopCheck(v)
  PROVE  SucceedsPaid /\ TaraKeeps /\ HeardIsTrue'
<1>0. CheckersOK /\ TypeOK
  BY DEF Inv
<1>1. UNCHANGED <<tara, evFor, heard>>
  BY DEF CheckStep, HearCheck, ApplyCheck, ResolveCheck, StopCheck, events, processing
<1>2. TaraKeeps
  BY <1>1 DEF TaraKeeps
<1>3. ASSUME UNCHANGED attStatus PROVE SucceedsPaid
  BY <1>3 DEF SucceedsPaid
<1>4. ASSUME NEW x \in {"", "SUCCESS", "FAILURE", "inconclusive", "credited"}, NEW w \in Attempts \cup {0},
             answer' = [answer EXCEPT ![v] = x], checking' = [checking EXCEPT ![v] = w],
             x = "SUCCESS" => tara[w] = "success"
      PROVE  HeardIsTrue'
  BY <1>0, <1>1, <1>4 DEF HeardIsTrue, CheckersOK
<1>5. ASSUME EndCheck(v) PROVE HeardIsTrue'
  BY <1>4, <1>5 DEF EndCheck
<1>6. ASSUME NEW w \in Verdicts, HearCheck(v, w) PROVE SucceedsPaid /\ HeardIsTrue'
  <2>1. w = "SUCCESS" => tara[checking[v]] = "success"
    BY <1>6 DEF HearCheck, Answers
  <2>2. checking' = [checking EXCEPT ![v] = checking[v]] /\ checking[v] \in Attempts \cup {0}
    BY <1>0, <1>6 DEF HearCheck, CheckersOK
  <2>3. PICK x \in {"SUCCESS", "FAILURE", "inconclusive"} :
           answer' = [answer EXCEPT ![v] = x] /\ (x = "SUCCESS" => w = "SUCCESS")
    BY <1>6 DEF HearCheck
  <2> QED BY <1>3, <1>4, <1>6, <2>1, <2>2, <2>3 DEF HearCheck, db
<1>7. ASSUME ApplyCheck(v) PROVE SucceedsPaid /\ HeardIsTrue'
  <2>1. checking[v] \in Attempts
    BY <1>0, <1>7 DEF ApplyCheck, CheckersOK
  <2>2. EndCheck(v) \/ (answer' = [answer EXCEPT ![v] = "credited"] /\ UNCHANGED checking)
    BY <1>7 DEF ApplyCheck, Inconclusive
  <2>3. UNCHANGED checking => checking' = [checking EXCEPT ![v] = checking[v]]
    BY <1>0 DEF CheckersOK
  <2>4. HeardIsTrue'
    BY <1>4, <1>5, <2>1, <2>2, <2>3
  <2>5. \/ answer[v] = "SUCCESS" /\ Crediting(checking[v], TRUE)
        \/ Fail(checking[v]) \/ Bump(checking[v]) \/ UNCHANGED db
    BY <1>7 DEF ApplyCheck, Inconclusive
  <2>6. CASE answer[v] = "SUCCESS" /\ Crediting(checking[v], TRUE)
    <3>1. tara'[checking[v]] = "success"
      BY <1>1, <2>6 DEF HeardIsTrue
    <3> QED BY <1>0, <2>1, <2>4, <2>6, <3>1, CreditingSucceeds DEF SucceedsPaid
  <2>7. CASE Fail(checking[v])
    BY <1>0, <2>1, <2>4, <2>7, WhoSucceeds DEF SucceedsPaid
  <2>8. CASE Bump(checking[v])
    BY <1>0, <2>1, <2>4, <2>8, BumpSucceedsNone DEF SucceedsPaid
  <2>9. CASE UNCHANGED db
    BY <1>3, <2>4, <2>9 DEF db
  <2> QED BY <2>5, <2>6, <2>7, <2>8, <2>9
<1>8. ASSUME ResolveCheck(v) \/ StopCheck(v) PROVE SucceedsPaid /\ HeardIsTrue'
  BY <1>3, <1>5, <1>8 DEF ResolveCheck, StopCheck, db
<1> QED BY <1>2, <1>6, <1>7, <1>8 DEF CheckStep

LEMMA MoneyStep ==
  Inv /\ HeardIsTrue /\ NoFalseSuccess /\ [WebhooksNext]_vars => HeardIsTrue' /\ NoFalseSuccess'
<1> SUFFICES ASSUME Inv, HeardIsTrue, [WebhooksNext]_vars
             PROVE  SucceedsPaid /\ TaraKeeps /\ HeardIsTrue'
  BY KeepsNoFalseSuccess
<1>0. EventsOK /\ WorkersOK /\ TypeOK /\ CheckersOK /\ TaraTypeOK
  BY DEF Inv
<1>a. \A x \in Events : heard[x] = "SUCCESS" => evFor[x] \in Attempts /\ evStatus[x] \in Stored
  BY <1>0 DEF EventsOK, WorkersOK
<1>b. ASSUME TaraKeeps, UNCHANGED <<evFor, heard, checking, answer>> PROVE HeardIsTrue'
  BY <1>0, <1>a, <1>b DEF HeardIsTrue, TaraKeeps, CheckersOK
<1>c. ASSUME UNCHANGED tara PROVE TaraKeeps
  BY <1>c DEF TaraKeeps
<1>d. ASSUME UNCHANGED attStatus PROVE SucceedsPaid
  BY <1>d DEF SucceedsPaid
<1>e. ASSUME NEW e \in Events, NEW st, NEW a, NEW says,
             Record(e, st, a, says), UNCHANGED <<db, tara, heard, checker>>
      PROVE  SucceedsPaid /\ TaraKeeps /\ HeardIsTrue'
  <2>1. heard[e] # "SUCCESS"
    BY <1>a, <1>e DEF Record, Stored
  <2>2. HeardIsTrue'
    BY <1>0, <1>e, <2>1 DEF HeardIsTrue, Record, EventsOK, checker
  <2> QED BY <1>c, <1>d, <1>e, <2>2 DEF db
<1>1. ASSUME NEW e \in Events, NEW a \in Attempts, NEW says \in BOOLEAN, Deliver(e, a, says)
      PROVE  SucceedsPaid /\ TaraKeeps /\ HeardIsTrue'
  BY <1>1, <1>e DEF Deliver
<1>2. ASSUME NEW e \in Events, NEW status \in EventStatuses, NEW a \in Attempts \cup {0},
             NEW says \in BOOLEAN, Dismiss(e, status, a, says)
      PROVE  SucceedsPaid /\ TaraKeeps /\ HeardIsTrue'
  BY <1>2, <1>e DEF Dismiss, processing
<1>4. ASSUME NEW v \in Checkers, NEW a \in Attempts, StartCheck(v, a)
      PROVE  SucceedsPaid /\ TaraKeeps /\ HeardIsTrue'
  <2>1. answer[v] # "SUCCESS"
    BY <1>0, <1>4, AttemptsArePositive DEF StartCheck, CheckersOK
  <2>2. HeardIsTrue'
    BY <1>0, <1>4, <2>1 DEF HeardIsTrue, StartCheck, CheckersOK, events, processing
  <2> QED BY <1>4, <1>c, <1>d, <2>2 DEF StartCheck, db
<1>6. ASSUME NEW e \in Events, NEW a \in Attempts, NEW i \in Insts, Attribute(e, a, i)
      PROVE  SucceedsPaid /\ TaraKeeps /\ HeardIsTrue'
  <2>1. CASE AttributionConflict(a, i) /\ UNCHANGED <<evFor, tara>>
    BY <1>0, <1>6, <1>b, <1>c, <2>1, WhoSucceeds DEF Attribute, SucceedsPaid, processing, checker
  <2>2. CASE /\ AttributeToNew(a, i) \/ AttributeToOpen(a, i)
             /\ evFor' = [evFor EXCEPT ![e] = a]
             /\ tara' = [tara EXCEPT ![a] = "success"]
    <3>1. TaraKeeps /\ tara'[a] = "success"
      BY <1>0, <2>2 DEF TaraKeeps, TaraTypeOK
    <3>2. heard[e] # "SUCCESS"
      BY <1>6, <1>a DEF Attribute, Stored
    <3>3. UNCHANGED <<heard, checking, answer>>
      BY <1>6 DEF Attribute, processing, checker
    <3>4. HeardIsTrue'
      BY <1>0, <1>a, <2>2, <3>1, <3>2, <3>3 DEF HeardIsTrue, TaraKeeps, EventsOK, CheckersOK
    <3>5. SucceedsPaid
      BY <1>0, <2>2, <3>1, WhoSucceeds DEF SucceedsPaid, AttributeToOpen
    <3> QED BY <3>1, <3>4, <3>5
  <2> QED BY <1>6, <2>1, <2>2 DEF Attribute
<1>7. ASSUME SelectStale \/ ExpireSelected
      PROVE  SucceedsPaid /\ TaraKeeps /\ HeardIsTrue'
  <2>1. TaraKeeps /\ UNCHANGED <<evFor, heard, checking, answer>>
    BY <1>7, <1>c DEF SelectStale, ExpireSelected, events, processing, checker
  <2>2. ExpireOrder \/ UNCHANGED attStatus
    BY <1>7 DEF SelectStale, ExpireSelected, db
  <2> QED BY <1>0, <1>b, <1>d, <2>1, <2>2, ClosingSucceedsNone DEF SucceedsPaid
<1>8. ASSUME Elsewhere PROVE SucceedsPaid /\ TaraKeeps /\ HeardIsTrue'
  <2>1. UNCHANGED <<evFor, heard, checking, answer>>
    BY <1>8 DEF Elsewhere, events, processing, checker
  <2>2. ASSUME NEW a \in Attempts, Paying(a) PROVE TaraKeeps /\ SucceedsPaid
    <3>1. TaraKeeps
      BY <1>0, <2>2 DEF Paying, OpenAtTara, CustomerPays, TaraKeeps, TaraTypeOK
    <3>2. \/ \E i \in Insts : CreateAttempt(a, i)
          \/ StoreLink(a, TRUE) \/ MoveAttempt(a, "UNKNOWN") \/ MoveAttempt(a, "EXPIRED")
          \/ UNCHANGED attStatus
      BY <2>2 DEF Paying, CustomerPays, db
    <3> QED BY <1>0, <3>1, <3>2, WhoSucceeds DEF SucceedsPaid
  <2>3. ASSUME NEW a \in Attempts, Rechecking(a) PROVE TaraKeeps /\ SucceedsPaid
    BY <1>0, <1>c, <2>3, WhoSucceeds DEF Rechecking, SucceedsPaid
  <2>4. ASSUME Deciding PROVE TaraKeeps /\ SucceedsPaid
    BY <1>0, <1>c, <2>4, ClosingSucceedsNone DEF Deciding, SucceedsPaid
  <2> QED BY <1>8, <1>b, <2>1, <2>2, <2>3, <2>4 DEF Elsewhere
<1>9. CASE UNCHANGED vars
  BY <1>9, <1>b, <1>c, <1>d DEF vars, db, events, processing, checker
<1> QED
  BY <1>1, <1>2, <1>4, <1>6, <1>7, <1>8, <1>9, MoneyEventStep, MoneyCheckStep DEF WebhooksNext

\* No attempt is SUCCEEDED unless its money was received, however many reports,
\* checks and rechecks about it are under way.
THEOREM NoFalseSuccessAlways == WebhooksSafety => []NoFalseSuccess
<1>1. WebhooksInit => HeardIsTrue /\ NoFalseSuccess
  BY DEF WebhooksInit, Init, TaraInit, HeardIsTrue, NoFalseSuccess
<1> QED BY <1>1, InvAlways, MoneyStep, PTL DEF WebhooksSafety

-----------------------------------------------------------------------------
\* Money stays within reach

\* Money moves, and links go out, on attempts past CREATED only, which no attempt
\* ever comes back to.
Started(a) == attStatus[a] \notin {"NONE", "CREATED"}
MoneyIsStarted == \A a \in Attempts : shown[a] \/ tara[a] = "success" => Started(a)

\* What a step may add: a link stored with it, a payment on a link that was handed
\* out, or one staff vouch for and record at once.
MoneyAdded == \A a \in Attempts :
  /\ shown'[a] => shown[a] \/ Started(a)'
  /\ tara'[a] = "success" => tara[a] = "success" \/ shown[a] \/ Started(a)'

LEMMA MoneyAddedStep == Inv /\ [WebhooksNext]_vars => MoneyAdded
<1> SUFFICES ASSUME Inv, [WebhooksNext]_vars PROVE MoneyAdded
  OBVIOUS
<1>0. TypeOK /\ TaraTypeOK
  BY DEF Inv
<1>a. ASSUME UNCHANGED <<tara, shown>> PROVE MoneyAdded
  BY <1>a DEF MoneyAdded
<1>1. ASSUME NEW e \in Events, EventStep(e) \/ Die(e) PROVE MoneyAdded
  BY <1>1, <1>a DEF EventStep, AskTara, ApplyAnswer, ResolveOthers, SaveEvent, Die
<1>2. ASSUME NEW v \in Checkers, CheckStep(v) \/ StopCheck(v) PROVE MoneyAdded
  BY <1>2, <1>a DEF CheckStep, HearCheck, ApplyCheck, ResolveCheck, StopCheck
<1>3. ASSUME \/ \E e \in Events, a \in Attempts, says \in BOOLEAN : Deliver(e, a, says)
             \/ \E e \in Events, status \in EventStatuses, a \in Attempts \cup {0}, says \in BOOLEAN :
                   Dismiss(e, status, a, says)
             \/ \E v \in Checkers, a \in Attempts : StartCheck(v, a)
             \/ SelectStale \/ ExpireSelected
      PROVE  MoneyAdded
  BY <1>3, <1>a DEF Deliver, Dismiss, StartCheck, SelectStale, ExpireSelected
<1>4. ASSUME NEW e \in Events, NEW a \in Attempts, NEW i \in Insts, Attribute(e, a, i) PROVE MoneyAdded
  <2>1. shown' = shown
    BY <1>4 DEF Attribute
  <2>2. tara' = tara \/ (tara' = [tara EXCEPT ![a] = "success"] /\ (AttributeToNew(a, i) \/ AttributeToOpen(a, i)))
    BY <1>4 DEF Attribute
  <2>3. AttributeToNew(a, i) \/ AttributeToOpen(a, i) => attStatus'[a] = "SUCCEEDED"
    BY <1>0 DEF AttributeToNew, AttributeToOpen, Credit, TypeOK
  <2> QED BY <1>0, <1>a, <2>1, <2>2, <2>3 DEF MoneyAdded, TaraTypeOK, Started
<1>5. ASSUME NEW a \in Attempts, Paying(a) PROVE MoneyAdded
  <2>1. CASE StoreLink(a, TRUE) /\ OpenAtTara(a) /\ shown' = [shown EXCEPT ![a] = TRUE]
    <3>1. Started(a)'
      BY <1>0, <2>1 DEF StoreLink, TypeOK, Started
    <3>2. \A b \in Attempts : tara'[b] = "success" => tara[b] = "success"
      BY <1>0, <2>1 DEF OpenAtTara, TaraTypeOK
    <3> QED BY <1>0, <2>1, <3>1, <3>2 DEF MoneyAdded, TaraTypeOK
  <2>2. CASE \E st \in TaraStates : CustomerPays(a, st)
    BY <1>0, <2>2 DEF CustomerPays, MoneyAdded, TaraTypeOK
  <2> QED BY <1>5, <1>a, <2>1, <2>2 DEF Paying
<1>6. ASSUME Elsewhere PROVE MoneyAdded
  BY <1>5, <1>6, <1>a DEF Elsewhere, Rechecking, Deciding
<1>7. CASE UNCHANGED vars
  BY <1>7, <1>a DEF vars
<1> QED BY <1>1, <1>2, <1>3, <1>4, <1>6, <1>7 DEF WebhooksNext

LEMMA MoneyIsStartedStep == Inv /\ MoneyIsStarted /\ [WebhooksNext]_vars => MoneyIsStarted'
<1> SUFFICES ASSUME Inv, MoneyIsStarted, [WebhooksNext]_vars PROVE MoneyIsStarted'
  OBVIOUS
<1>1. MoneyAdded
  BY MoneyAddedStep
<1>2. RowsGoOn
  BY RecordsStep, RowsGoOnStep DEF Inv
<1> QED BY <1>1, <1>2 DEF MoneyAdded, RowsGoOn, MoneyIsStarted, Started

\* What a step makes SUCCEEDED, it credits or notes as rechecked.
NewIsCredited == \A b \in Attempts : attStatus'[b] = "SUCCEEDED" =>
  attStatus[b] = "SUCCEEDED" \/ inst'[attInst'[b]] = "PAID" \/ b \in rechecked'

LEMMA CreditedStays ==
  ASSUME TypeOK, [Next]_db, SucceededIsCredited, NewIsCredited, rechecked \subseteq rechecked'
  PROVE  SucceededIsCredited'
<1>1. AttemptsAreFinal /\ InstallmentsAreFinal
  BY AttemptsFinalStep, InstallmentsFinalStep
<1>2. \A a \in Attempts : attStatus[a] = "SUCCEEDED" => attInst[a] \in Insts
  BY DEF TypeOK
<1> QED BY <1>1, <1>2 DEF SucceededIsCredited, NewIsCredited, AttemptsAreFinal, InstallmentsAreFinal

LEMMA RecheckedGrows == [WebhooksNext]_vars => rechecked \subseteq rechecked'
<1> SUFFICES ASSUME [WebhooksNext]_vars PROVE rechecked \subseteq rechecked'
  OBVIOUS
<1>1. ASSUME NEW e \in Events, EventStep(e) \/ Die(e) PROVE rechecked \subseteq rechecked'
  BY <1>1 DEF EventStep, AskTara, ApplyAnswer, ResolveOthers, SaveEvent, Die
<1>2. ASSUME NEW v \in Checkers, CheckStep(v) \/ StopCheck(v) PROVE rechecked \subseteq rechecked'
  BY <1>2 DEF CheckStep, HearCheck, ApplyCheck, ResolveCheck, StopCheck
<1>3. ASSUME Elsewhere PROVE rechecked \subseteq rechecked'
  BY <1>3 DEF Elsewhere, Paying, CustomerPays, Rechecking, NoteRecheck, Deciding
<1> QED
  BY <1>1, <1>2, <1>3
  DEF WebhooksNext, Deliver, Dismiss, StartCheck, Attribute, SelectStale, ExpireSelected, vars

LEMMA CreditOnly ==
  ASSUME TypeOK, NEW a \in Attempts, Credit(a) \/ \E i \in Insts : AttributeToNew(a, i)
  PROVE  NewIsCredited
<1>1. \A b \in Attempts : attStatus'[b] = "SUCCEEDED" => attStatus[b] = "SUCCEEDED" \/ b = a
  BY WhoSucceeds
<1> QED BY <1>1, CreditPays DEF NewIsCredited

LEMMA CreditingPays ==
  ASSUME TypeOK, NEW a \in Attempts, NEW ok \in BOOLEAN, Crediting(a, ok)
  PROVE  NewIsCredited
<1>1. CASE UNCHANGED db
  BY <1>1 DEF NewIsCredited, db
<1> QED BY <1>1, CreditOnly DEF Crediting

LEMMA HandlersCredit ==
  ASSUME Inv, \/ \E e \in Events : EventStep(e) \/ Die(e)
              \/ \E v \in Checkers : CheckStep(v) \/ StopCheck(v)
  PROVE  NewIsCredited
<1>0. TypeOK /\ EventsOK /\ WorkersOK /\ CheckersOK
  BY DEF Inv
<1>1. ASSUME UNCHANGED db PROVE NewIsCredited
  BY <1>1 DEF NewIsCredited, db
<1>2. ASSUME NEW a \in Attempts, Fail(a) \/ Bump(a) PROVE NewIsCredited
  BY <1>0, <1>2, WhoSucceeds, BumpSucceedsNone DEF NewIsCredited
<1>3. ASSUME NEW e \in Events, ApplyAnswer(e) PROVE NewIsCredited
  <2>1. evFor[e] \in Attempts
    BY <1>0, <1>3 DEF ApplyAnswer, EventsOK, WorkersOK
  <2>2. Crediting(evFor[e], TRUE) \/ Crediting(evFor[e], FALSE) \/ Fail(evFor[e]) \/ UNCHANGED db
    BY <1>3 DEF ApplyAnswer
  <2> QED BY <1>0, <1>1, <1>2, <2>1, <2>2, CreditingPays
<1>4. ASSUME NEW v \in Checkers, ApplyCheck(v) PROVE NewIsCredited
  <2>1. checking[v] \in Attempts
    BY <1>0, <1>4 DEF ApplyCheck, CheckersOK
  <2>2. Crediting(checking[v], TRUE) \/ Fail(checking[v]) \/ Bump(checking[v]) \/ UNCHANGED db
    BY <1>4 DEF ApplyCheck, Inconclusive
  <2> QED BY <1>0, <1>1, <1>2, <2>1, <2>2, CreditingPays
<1>5. ASSUME NEW e \in Events, EventStep(e) \/ Die(e), ~ApplyAnswer(e) PROVE UNCHANGED db
  BY <1>5 DEF EventStep, AskTara, ResolveOthers, SaveEvent, Die
<1>6. ASSUME NEW v \in Checkers, CheckStep(v) \/ StopCheck(v), ~ApplyCheck(v) PROVE UNCHANGED db
  BY <1>6 DEF CheckStep, HearCheck, ResolveCheck, StopCheck
<1> QED BY <1>1, <1>3, <1>4, <1>5, <1>6

LEMMA ElsewhereCredits ==
  ASSUME Inv, Elsewhere
  PROVE  NewIsCredited
<1>0. TypeOK
  BY DEF Inv
<1>1. ASSUME NEW a \in Attempts, Paying(a) PROVE NewIsCredited
  <2>1. \/ \E i \in Insts : CreateAttempt(a, i)
        \/ StoreLink(a, TRUE) \/ MoveAttempt(a, "UNKNOWN") \/ MoveAttempt(a, "EXPIRED")
        \/ UNCHANGED attStatus
    BY <1>1 DEF Paying, CustomerPays, db
  <2> QED BY <1>0, <2>1, WhoSucceeds DEF NewIsCredited
<1>2. ASSUME NEW a \in Attempts, Rechecking(a) PROVE NewIsCredited
  <2>1. MoveAttempt(a, "SUCCEEDED") \/ MoveAttempt(a, "FAILED")
    BY <1>2 DEF Rechecking
  <2>2. \A b \in Attempts : attStatus'[b] = "SUCCEEDED" => attStatus[b] = "SUCCEEDED" \/ b = a
    BY <1>0, <2>1, WhoSucceeds
  <2> QED BY <1>2, <2>2 DEF Rechecking, NoteRecheck, NewIsCredited
<1>3. CASE Deciding
  BY <1>0, <1>3, ClosingSucceedsNone DEF NewIsCredited
<1> QED BY <1>1, <1>2, <1>3 DEF Elsewhere

LEMMA CreditsStep == Inv /\ SucceededIsCredited /\ [WebhooksNext]_vars => SucceededIsCredited'
<1> SUFFICES ASSUME Inv, SucceededIsCredited, [WebhooksNext]_vars PROVE SucceededIsCredited'
  OBVIOUS
<1>0. TypeOK
  BY DEF Inv
<1>1. ASSUME UNCHANGED db PROVE NewIsCredited
  BY <1>1 DEF NewIsCredited, db
<1>2. ASSUME NEW e \in Events, NEW a \in Attempts, NEW i \in Insts, Attribute(e, a, i) PROVE NewIsCredited
  <2>1. CASE AttributionConflict(a, i)
    BY <1>0, <2>1, WhoSucceeds DEF NewIsCredited
  <2> QED BY <1>0, <1>2, <2>1, CreditOnly DEF Attribute, AttributeToOpen
<1>3. ASSUME SelectStale \/ ExpireSelected PROVE NewIsCredited
  <2>1. ExpireOrder \/ UNCHANGED db
    BY <1>3 DEF SelectStale, ExpireSelected
  <2> QED BY <1>0, <1>1, <2>1, ClosingSucceedsNone DEF NewIsCredited
<1>4. ASSUME \/ \E e \in Events, a \in Attempts, says \in BOOLEAN : Deliver(e, a, says)
             \/ \E e \in Events, status \in EventStatuses, a \in Attempts \cup {0}, says \in BOOLEAN :
                   Dismiss(e, status, a, says)
             \/ \E v \in Checkers, a \in Attempts : StartCheck(v, a)
             \/ UNCHANGED vars
      PROVE  UNCHANGED db
  BY <1>4 DEF Deliver, Dismiss, StartCheck, vars
<1>5. NewIsCredited
  BY <1>1, <1>2, <1>3, <1>4, HandlersCredit, ElsewhereCredits DEF WebhooksNext
<1> QED BY <1>0, <1>5, CreditedStays, RecordsStep, RecheckedGrows

\* However webhooks, checks, attributions and rechecks interleave, a SUCCEEDED
\* attempt has its installment paid, or is one the recheck wrote
\* (PaymentCreditService, _recheck_unknown_attempt).
THEOREM SucceededIsCreditedAlways == WebhooksSafety => []SucceededIsCredited
<1>1. WebhooksInit => SucceededIsCredited
  BY DEF WebhooksInit, Init, SucceededIsCredited
<1> QED BY <1>1, InvAlways, CreditsStep, PTL DEF WebhooksSafety

\* No report of a payment is called processed before its attempt is SUCCEEDED and
\* its installment paid, whichever requests, checks and attributions work on it at
\* once; only the recheck's SUCCEEDED comes without the installment.
THEOREM ProcessedMeansRecordedAlways == WebhooksSafety => []ProcessedMeansRecorded
<1>1. Inv /\ ProcessedIsSucceeded /\ SucceededIsCredited => ProcessedMeansRecorded
  <2> SUFFICES ASSUME Inv, ProcessedIsSucceeded, SucceededIsCredited,
                      NEW e \in Events, evStatus[e] = "PROCESSED", evSaysPaid[e]
               PROVE  /\ attStatus[evFor[e]] = "SUCCEEDED"
                      /\ inst[attInst[evFor[e]]] = "PAID" \/ evFor[e] \in rechecked
    BY DEF ProcessedMeansRecorded
  <2>1. evFor[e] \in Attempts
    BY DEF Inv, EventsOK, Stored
  <2> QED BY <2>1 DEF ProcessedIsSucceeded, SucceededIsCredited
<1> QED BY <1>1, InvAlways, ProcessedIsSucceededAlways, SucceededIsCreditedAlways, PTL

\* Money reported late, twice, or for an attempt that was failed, expired or replaced
\* meanwhile settles its installment or can still be credited, with two exceptions:
\* staff closed the installment, or a recheck made one of its attempts SUCCEEDED
\* and credited nothing.
THEOREM PaymentStaysReachableAlways == WebhooksSafety => []PaymentStaysReachable
<1>1. WebhooksInit => MoneyIsStarted
  BY DEF WebhooksInit, Init, TaraInit, MoneyIsStarted
<1>2. Inv /\ MoneyIsStarted /\ SucceededIsCredited => PaymentStaysReachable
  <2> SUFFICES ASSUME Inv, MoneyIsStarted, SucceededIsCredited,
                      NEW a \in Attempts, tara[a] = "success", ~SpoiltByRecheck(a),
                      inst[attInst[a]] \notin {"PAID", "CANCELLED", "WAIVED"}
               PROVE  Creditable(a)
    BY DEF PaymentStaysReachable
  <2>1. TypeOK
    BY DEF Inv
  <2>2. \A b \in Attempts : attInst[b] = attInst[a] => attStatus[b] # "SUCCEEDED"
    BY DEF SucceededIsCredited, SpoiltByRecheck
  <2>3. attStatus[a] \in {"LINK_CREATED", "PENDING", "FAILED", "EXPIRED", "UNKNOWN"}
    BY <2>1, <2>2 DEF MoneyIsStarted, Started, TypeOK, AttemptStatuses
  <2>4. inst[attInst[a]] \in {"SCHEDULED", "DUE", "PENDING", "FAILED"}
    BY <2>1, <2>3 DEF TypeOK, InstStatuses
  <2>5. ~PaidByAnother(a)
    BY <2>2 DEF PaidByAnother, HasSucceeded, AttemptsOf
  <2> QED BY <2>3, <2>4, <2>5 DEF Creditable, Created, LateSuccess, AttemptAllows, InstAllows
<1> QED BY <1>1, <1>2, InvAlways, MoneyIsStartedStep, SucceededIsCreditedAlways, PTL DEF WebhooksSafety

-----------------------------------------------------------------------------
\* What staff are shown (SaleView)

\* Whatever state calls for attention is in the filter, a late sale apart: the
\* rule written as an ORM filter misses no other (_needs_attention_q).
THEOREM FilterMissesOnlyLateAlways == WebhooksSafety => []FilterMissesOnlyLate
<1>1. Inv => FilterMissesOnlyLate
  <2> SUFFICES ASSUME Inv, NeedsAttention, SaleState # "late" PROVE InFilter
    BY DEF FilterMissesOnlyLate
  <2>1. order \in OrderStatuses
    BY DEF Inv, TypeOK
  <2>2. CASE SaleState = "suspended"
    <3>1. order = "SUSPENDED"
      BY <2>1, <2>2 DEF SaleState, Closing, OrderStatuses
    <3> QED BY <3>1 DEF InFilter
  <2>3. CASE SaleState \in {"to_verify", "confirming"}
    <3>1. order \in {"PENDING", "ACTIVE", "PAST_DUE"} /\ (ReportedAttempts # {} \/ Confirming)
      BY <2>1, <2>3 DEF SaleState, Closing, OrderStatuses
    <3> QED BY <3>1 DEF InFilter
  <2> QED BY <2>2, <2>3 DEF NeedsAttention
<1> QED BY <1>1, InvAlways, PTL

LEMMA LatestOf ==
  ASSUME NEW T, T \subseteq Attempts, T # {}
  PROVE  \E a \in T : \A b \in T : b <= a
<1> DEFINE U == {MaxAttempts - a : a \in T}
<1>1. MaxAttempts \in Nat /\ \A a \in T : a \in Nat /\ a <= MaxAttempts
  BY RecordsAssumption DEF RecordsAssumption, Attempts
<1>2. U \subseteq Nat /\ U # {}
  BY <1>1
<1> HIDE DEF U
<1>3. PICK x \in U : \A y \in U : ~(<<y, x>> \in OpToRel(<, Nat))
  BY <1>2, NatLessThanWellFounded, WFMin
<1>4. \A y \in U : ~(y < x)
  BY <1>2, <1>3 DEF OpToRel
<1>5. PICK a \in T : x = MaxAttempts - a
  BY DEF U
<1>6. \A b \in T : ~(MaxAttempts - b < MaxAttempts - a)
  BY <1>4, <1>5 DEF U
<1> QED BY <1>1, <1>6

\* A payment reported for an attempt that may still succeed and whose installment
\* somebody owes has its sale listed, and a button that checks a reported attempt.
ReportIsShown ==
    \A a \in Attempts : Reported(a) /\ attStatus[a] \in Recheckable /\ ~NothingOwed(a) => Listed /\ HasButton

\* No report staff have to see to escapes the screens, however the report, the sale
\* and the attempts came to stand as they do, but for the lists of an expired or a
\* suspended sale that Listed excepts: with it, ReportedPaymentIsSeenTo rests only
\* on what the hourly run does in the end (attempt_to_verify, _payment_items,
\* collect_alert_items, _needs_attention_q).
THEOREM ReportIsShownAlways == WebhooksSafety => []ReportIsShown
<1>1. Inv /\ ClosedSaleIsClosed => ReportIsShown
  <2> SUFFICES ASSUME Inv, ClosedSaleIsClosed,
                      NEW a \in Attempts, Reported(a), attStatus[a] \in Recheckable, ~NothingOwed(a)
               PROVE  Listed /\ HasButton
    BY DEF ReportIsShown
  <2>1. TypeOK /\ a \in ReportedAttempts
    BY DEF Inv, ReportedAttempts, Recheckable
  <2>2. attInst[a] \in Insts /\ inst[attInst[a]] \in UnpaidStatuses
    BY <2>1 DEF TypeOK, NothingOwed, ClosedStatuses, InstStatuses, UnpaidStatuses, Recheckable
  <2>3. order \in {"PENDING", "ACTIVE", "PAST_DUE", "SUSPENDED", "EXPIRED"}
    <3>1. order # "COMPLETED"
      BY <2>2 DEF ClosedSaleIsClosed, AllSettled, SettledStatuses, UnpaidStatuses
    <3>2. order # "CANCELLED"
      BY <2>2 DEF ClosedSaleIsClosed
    <3> QED BY <2>1, <3>1, <3>2 DEF TypeOK, OrderStatuses
  <2>4. order \in {"PENDING", "ACTIVE", "PAST_DUE"} => SaleState = "to_verify"
    BY <2>1 DEF SaleState, Closing
  <2>5. Listed
    BY <2>1, <2>3, <2>4 DEF Listed, InInbox, InAlert, InFilter
  <2> DEFINE T == {b \in Verifiable : Reported(b)}
  <2>6. T \subseteq Attempts /\ T # {} /\ Offered = T
    BY DEF Verifiable, Offered, NothingOwed
  <2>7. PICK b \in T : \A c \in T : c <= b
    BY <2>6, LatestOf
  <2>8. Button(b) /\ Reported(b) /\ b \in Attempts /\ attStatus[b] \in Recheckable
    BY <2>6, <2>7 DEF Button, Verifiable
  <2> QED BY <2>5, <2>8 DEF HasButton, MayCheck
<1> QED BY <1>1, InvAlways, WebhooksImplementRecords, ClosedSaleIsClosedAlways, PTL
=============================================================================
