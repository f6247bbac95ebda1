-------------------------- MODULE Checkout_proofs --------------------------
(***************************************************************************)
(* Checkout implements SaleRecords, for any number of requests: whatever a *)
(* request remembers while it waits for Tara, each of its steps is one of  *)
(* the transactions of the sale or touches no row.  What is proved of the  *)
(* records therefore holds under the checkout.  Then, from what stays true *)
(* of a request's memory, that its claims about money and links at Tara    *)
(* are right, and that the customer's status page never counts a paid      *)
(* attempt as not started.                                                 *)
(***************************************************************************)
EXTENDS StatusPage, SaleRecords_proofs

\* A transaction of the sale that names its rows is a step of Next.
LEMMA RowSteps ==
  /\ \A a \in Attempts, i \in Insts :
        (CreateAttempt(a, i) \/ AttributeToNew(a, i) \/ AttributeToOpen(a, i) \/ AttributionConflict(a, i)) => Next
  /\ \A a \in Attempts, url \in BOOLEAN : StoreLink(a, url) => Next
  /\ \A a \in Attempts, st \in {"SUCCEEDED", "FAILED", "EXPIRED", "UNKNOWN"} : MoveAttempt(a, st) => Next
  /\ \A a \in Attempts : Credit(a) \/ Fail(a) => Next
  BY DEF Next, AttemptStep, AdminStep

LEMMA MoveOrIgnoreStep ==
  ASSUME NEW a \in Attempts, NEW st \in {"SUCCEEDED", "FAILED", "EXPIRED", "UNKNOWN"}, MoveOrIgnore(a, st)
  PROVE  [Next]_db
  BY RowSteps DEF MoveOrIgnore

\* A request holds an attempt and an installment whenever it is about to use them.
LEMMA CheckoutTypeInit == CheckoutInit => CheckoutTypeOK
<1> SUFFICES ASSUME CheckoutInit PROVE CheckoutTypeOK
  OBVIOUS
<1>1. TypeOK /\ TaraTypeOK
  BY TypeInit DEF CheckoutInit, TaraInit, TaraTypeOK, TaraStates
<1> QED BY <1>1 DEF CheckoutInit, CheckoutTypeOK, Stages

\* Each step of the checkout is a transaction of the sale, or leaves its rows alone.
LEMMA CheckoutStep == CheckoutTypeOK /\ [CheckoutNext]_vars => [Next]_db
<1> SUFFICES ASSUME CheckoutTypeOK, [CheckoutNext]_vars PROVE [Next]_db
  OBVIOUS
<1>1. ASSUME NEW r \in Requests, Serve(r) PROVE [Next]_db
  <2>1. target[r] \in Insts \cup {0} /\ mine[r] \in Attempts \cup {0}
    BY DEF CheckoutTypeOK
  <2>2. ASSUME Reopen(r) PROVE [Next]_db
    BY <2>2 DEF Reopen, Next, OrderStep
  <2>3. ASSUME PickInstallment(r) \/ NothingDue(r) PROVE [Next]_db
    BY <2>3 DEF PickInstallment, NothingDue
  <2>4. ASSUME NEW a \in Attempts, Resume(r, a) PROVE [Next]_db
    BY <2>4 DEF Resume
  <2>5. ASSUME NEW a \in Attempts, Begin(r, a) PROVE [Next]_db
    <3>1. target[r] \in Insts
      BY <2>1, <2>5 DEF Begin, CheckoutTypeOK
    <3> QED BY <2>5, <3>1, RowSteps DEF Begin
  <2>6. ASSUME NEW v \in Verdicts, Ask(r, v) PROVE [Next]_db
    BY <2>6 DEF Ask
  <2>7. ASSUME Recheck(r) PROVE [Next]_db
    <3>1. mine[r] \in Attempts
      BY <2>1, <2>7 DEF Recheck, CheckoutTypeOK
    <3>2. MoveOrIgnore(mine[r], "SUCCEEDED") \/ MoveOrIgnore(mine[r], "FAILED") \/ UNCHANGED db
      BY <2>7 DEF Recheck
    <3> QED BY <3>1, <3>2, MoveOrIgnoreStep
  <2>8. ASSUME Retire(r) PROVE [Next]_db
    <3>1. mine[r] \in Attempts
      BY <2>1, <2>8 DEF Retire, CheckoutTypeOK
    <3> QED BY <2>8, <3>1, MoveOrIgnoreStep DEF Retire
  <2>9. ASSUME NEW reply \in LinkReplies, RequestLink(r, reply) PROVE [Next]_db
    BY <2>9 DEF RequestLink
  <2>10. ASSUME StoreReply(r) PROVE [Next]_db
    <3>1. mine[r] \in Attempts
      BY <2>1, <2>10 DEF StoreReply, CheckoutTypeOK
    <3>2. \/ StoreLink(mine[r], told[r] # "NO_URL")
          \/ MoveOrIgnore(mine[r], "UNKNOWN") \/ MoveOrIgnore(mine[r], "FAILED")
          \/ UNCHANGED db
      BY <2>10 DEF StoreReply
    <3>3. (told[r] # "NO_URL") \in BOOLEAN
      OBVIOUS
    <3> QED BY <3>1, <3>2, <3>3, RowSteps, MoveOrIgnoreStep
  <2> QED
    BY <1>1, <2>2, <2>3, <2>4, <2>5, <2>6, <2>7, <2>8, <2>9, <2>10 DEF Serve
<1>2. ASSUME NEW r \in Requests, Abandon(r) PROVE [Next]_db
  BY <1>2 DEF Abandon
<1>3. ASSUME NEW a \in Attempts, NEW st \in TaraStates, CustomerPays(a, st) PROVE [Next]_db
  BY <1>3 DEF CustomerPays
<1>4. CASE Others
  <2>1. ASSUME NEW a \in Attempts, Verified(a) PROVE [Next]_db
    BY <2>1, RowSteps DEF Verified
  <2>2. ASSUME NEW a \in Attempts, NEW i \in Insts, Attributed(a, i) PROVE [Next]_db
    BY <2>2, RowSteps DEF Attributed
  <2>3. ASSUME Decided PROVE [Next]_db
    BY <2>3 DEF Decided, Next, AdminStep, OrderStep
  <2> QED BY <1>4, <2>1, <2>2, <2>3 DEF Others
<1>5. CASE UNCHANGED vars
  BY <1>5 DEF vars
<1> QED BY <1>1, <1>2, <1>3, <1>4, <1>5 DEF CheckoutNext

\* What CheckoutTypeOK says of the requests
SessionOK ==
  /\ stage \in [Requests -> Stages]
  /\ target \in [Requests -> Insts \cup {0}]
  /\ mine \in [Requests -> Attempts \cup {0}]
  /\ told \in [Requests -> Verdicts \cup LinkReplies \cup {""}]
  /\ retried \in [Requests -> BOOLEAN]
  /\ \A r \in Requests :
        /\ mine[r] # 0 <=> stage[r] \in {"ask", "learned", "retire", "link", "reply"}
        /\ told[r] # "" <=> stage[r] \in {"learned", "reply"}
        /\ target[r] = 0 <=> stage[r] \in {"idle", "reopened"}

LEMMA AttemptsArePositive == 0 \notin Attempts /\ 0 \notin Insts
  BY RecordsAssumption, SaleAssumption DEF Attempts, Insts

LEMMA FinishKeepsSession ==
  ASSUME SessionOK, NEW r \in Requests, Finish(r)
  PROVE  SessionOK'
  BY AttemptsArePositive DEF SessionOK, Finish, Stages

LEMMA SessionStep == CheckoutTypeOK /\ [CheckoutNext]_vars => SessionOK'
<1> SUFFICES ASSUME CheckoutTypeOK, [CheckoutNext]_vars PROVE SessionOK'
  OBVIOUS
<1>0. SessionOK
  BY DEF CheckoutTypeOK, SessionOK
<1>1. ASSUME NEW r \in Requests, Serve(r) PROVE SessionOK'
  <2>1. ASSUME Reopen(r) PROVE SessionOK'
    BY <1>0, <2>1 DEF SessionOK, Reopen, GoTo, Stages
  <2>2. ASSUME PickInstallment(r) PROVE SessionOK'
    <3>1. PICK i \in Insts : target' = [target EXCEPT ![r] = i]
      BY <2>2 DEF PickInstallment, Outstanding
    <3> QED BY <1>0, <2>2, <3>1, AttemptsArePositive DEF SessionOK, PickInstallment, Stages
  <2>3. ASSUME NothingDue(r) PROVE SessionOK'
    BY <1>0, <2>3, FinishKeepsSession DEF NothingDue
  <2>4. ASSUME NEW a \in Attempts, Resume(r, a) PROVE SessionOK'
    <3>1. PICK old \in BOOLEAN :
             LET to == NextStage(r, attStatus[a], attLink[a], old) IN
             IF to = "idle" THEN Finish(r)
             ELSE /\ stage' = [stage EXCEPT ![r] = to]
                  /\ mine' = [mine EXCEPT ![r] = a]
                  /\ UNCHANGED <<target, told, retried>>
      BY <2>4 DEF Resume
    <3> DEFINE to == NextStage(r, attStatus[a], attLink[a], old)
    <3>2. CASE to = "idle"
      BY <1>0, <3>1, <3>2, FinishKeepsSession
    <3>3. CASE to # "idle"
      <4>1. to \in {"ask", "retire", "link"}
        BY <3>3 DEF NextStage
      <4>2. stage[r] \in {"chosen", "again"}
        BY <2>4 DEF Resume
      <4>3. stage' = [stage EXCEPT ![r] = to] /\ mine' = [mine EXCEPT ![r] = a]
            /\ UNCHANGED <<target, told, retried>>
        BY <3>1, <3>3
      <4> HIDE DEF to
      <4> QED BY <1>0, <4>1, <4>2, <4>3, AttemptsArePositive DEF SessionOK, Stages
    <3> QED BY <3>2, <3>3
  <2>5. ASSUME NEW a \in Attempts, Begin(r, a) PROVE SessionOK'
    BY <1>0, <2>5, AttemptsArePositive DEF SessionOK, Begin, Stages
  <2>6. ASSUME NEW v \in Verdicts, Ask(r, v) PROVE SessionOK'
    BY <1>0, <2>6 DEF SessionOK, Ask, Hear, Stages, Verdicts
  <2>7. ASSUME Recheck(r) PROVE SessionOK'
    <3>1. CASE Finish(r)
      BY <1>0, <3>1, FinishKeepsSession
    <3>2. CASE ~Finish(r)
      BY <1>0, <2>7, <3>2 DEF SessionOK, Recheck, Stages
    <3> QED BY <3>1, <3>2
  <2>8. ASSUME Retire(r) PROVE SessionOK'
    BY <1>0, <2>8 DEF SessionOK, Retire, Stages
  <2>9. ASSUME NEW reply \in LinkReplies, RequestLink(r, reply) PROVE SessionOK'
    BY <1>0, <2>9 DEF SessionOK, RequestLink, Hear, Stages, LinkReplies
  <2>10. ASSUME StoreReply(r) PROVE SessionOK'
    BY <1>0, <2>10, FinishKeepsSession DEF StoreReply
  <2> QED
    BY <1>1, <2>1, <2>2, <2>3, <2>4, <2>5, <2>6, <2>7, <2>8, <2>9, <2>10 DEF Serve
<1>2. ASSUME NEW r \in Requests, Abandon(r) PROVE SessionOK'
  BY <1>0, <1>2, FinishKeepsSession DEF Abandon
<1>3. CASE UNCHANGED session
  BY <1>0, <1>3 DEF SessionOK, session
<1> QED BY <1>1, <1>2, <1>3 DEF CheckoutNext, Others, vars

LEMMA TaraStep == CheckoutTypeOK /\ [CheckoutNext]_vars => TaraTypeOK'
<1> SUFFICES ASSUME CheckoutTypeOK, [CheckoutNext]_vars PROVE TaraTypeOK'
  OBVIOUS
<1> USE DEF CheckoutTypeOK, TaraTypeOK
<1>1. ASSUME NEW r \in Requests, Serve(r) PROVE TaraTypeOK'
  BY <1>1 DEF Serve, Reopen, PickInstallment, NothingDue, Resume, Begin, Ask, Recheck, Retire,
     RequestLink, StoreReply, OpenAtTara, NoteRecheck, CheckoutTypeOK, TaraStates
<1>2. ASSUME NEW r \in Requests, Abandon(r) PROVE TaraTypeOK'
  BY <1>2 DEF Abandon
<1>3. ASSUME NEW a \in Attempts, NEW st \in TaraStates, CustomerPays(a, st) PROVE TaraTypeOK'
  BY <1>3 DEF CustomerPays
<1>4. CASE Others
  BY <1>4 DEF Others, Verified, Attributed, Decided, TaraStates
<1>5. CASE UNCHANGED vars
  BY <1>5 DEF vars
<1> QED BY <1>1, <1>2, <1>3, <1>4, <1>5 DEF CheckoutNext

\* Every request is where it can be, with the attempt and the answer it should hold.
THEOREM CheckoutTypeCorrect == CheckoutSpec => []CheckoutTypeOK
<1>1. CheckoutTypeOK /\ [CheckoutNext]_vars => CheckoutTypeOK'
  <2>1. CheckoutTypeOK /\ [CheckoutNext]_vars => TypeOK'
    BY CheckoutStep, TypeStep DEF CheckoutTypeOK
  <2> QED BY <2>1, SessionStep, TaraStep DEF CheckoutTypeOK, SessionOK
<1> QED BY <1>1, CheckoutTypeInit, PTL DEF CheckoutSpec

\* The checkout implements the transactions of the sale.
THEOREM CheckoutImplementsRecords == CheckoutSpec => Spec
<1>1. CheckoutInit => Init
  BY DEF CheckoutInit
<1> QED BY <1>1, CheckoutTypeCorrect, CheckoutStep, PTL DEF CheckoutSpec, Spec

\* Concurrent customer requests never leave two live attempts of an installment.
THEOREM CheckoutKeepsOneActive == CheckoutSpec => []OneActiveAttempt
  BY CheckoutImplementsRecords, OneActiveAttemptAlways, PTL

\* Two tabs, late answers and repeated clicks break nothing else the sale promises:
\* what is paid, excused or over stays so, the order and the access follow the
\* installments (CheckoutService, through SaleRecords' transactions).
THEOREM CheckoutKeepsTheSale ==
  CheckoutSpec =>
    /\ LedgerIsKept /\ HistoryIsFinal
    /\ [](PaidHasPayer /\ ConfirmationFollowsPayment /\ OrderMatchesPayments /\ AccessFollowsPolicy)
  BY CheckoutImplementsRecords, RecordsImplementLedger, HistoryIsFinalAlways, PaidHasPayerAlways,
     ConfirmationFollowsPaymentAlways, OrderMatchesPaymentsAlways, AccessFollowsPolicyAlways, PTL

-----------------------------------------------------------------------------
\* Money, links and what a request remembers

Started(a) == attStatus[a] \notin {"NONE", "CREATED"}

\* A request's attempt exists, and what Tara told it is still so.
Remembers(r) ==
  mine[r] # 0 =>
    /\ Created(mine[r])
    /\ told[r] = "SUCCESS" => tara[mine[r]] = "success"
    /\ told[r] \in {"LINK", "UNUSABLE", "NO_URL"} => tara[mine[r]] # "none"

SessionIsTrue == \A r \in Requests : Remembers(r)

LinksAreOpen == \A a \in Attempts : attLink[a] => tara[a] # "none"
PaidIsStarted == \A a \in Attempts : tara[a] = "success" => Started(a)

MoneyInv == SessionIsTrue /\ LinksAreOpen /\ PaidIsStarted /\ ShownLinkIsKnown /\ NoFalseSuccess

\* What Tara opened stays open, what it received it keeps.
TaraKeeps == \A a \in Attempts : /\ tara[a] # "none" => tara'[a] # "none"
                                 /\ tara[a] = "success" => tara'[a] = "success"

\* What a step adds is true when it is added.
AddsTruth == \A a \in Attempts :
  /\ attStatus'[a] = "SUCCEEDED" => attStatus[a] = "SUCCEEDED" \/ tara'[a] = "success"
  /\ attLink'[a] => attLink[a] \/ tara'[a] # "none"
  /\ shown'[a] => shown[a] \/ (tara'[a] # "none" /\ Started(a)')
  /\ tara'[a] = "success" => tara[a] = "success" \/ Started(a)'

LEMMA TruthIsKept ==
  ASSUME LinksAreOpen, PaidIsStarted, ShownLinkIsKnown, NoFalseSuccess, RowsGoOn, TaraKeeps, AddsTruth
  PROVE  (LinksAreOpen /\ PaidIsStarted /\ ShownLinkIsKnown /\ NoFalseSuccess)'
  BY DEF LinksAreOpen, PaidIsStarted, ShownLinkIsKnown, NoFalseSuccess, RowsGoOn, TaraKeeps, AddsTruth, Started

\* A request that keeps its attempt and hears nothing new remembers what is still so.
LEMMA MemoryFrame ==
  ASSUME RowsGoOn, TaraKeeps, CheckoutTypeOK, NEW r \in Requests, Remembers(r),
         mine'[r] = 0 \/ (mine'[r] = mine[r] /\ told'[r] \in {told[r], ""})
  PROVE  Remembers(r)'
<1>1. mine[r] # 0 => mine[r] \in Attempts
  BY DEF CheckoutTypeOK
<1> QED BY <1>1 DEF Remembers, RowsGoOn, TaraKeeps, Created

LEMMA OthersRemember ==
  ASSUME RowsGoOn, TaraKeeps, CheckoutTypeOK, SessionIsTrue, NEW r \in Requests, Remembers(r)',
         \A q \in Requests \ {r} : mine'[q] = mine[q] /\ told'[q] = told[q]
  PROVE  SessionIsTrue'
<1>1. \A q \in Requests \ {r} : Remembers(q)'
  BY MemoryFrame DEF SessionIsTrue
<1> QED BY <1>1 DEF SessionIsTrue

\* A request moves only itself.
LEMMA OnlyItself ==
  ASSUME CheckoutTypeOK, NEW r \in Requests, Serve(r) \/ Abandon(r)
  PROVE  \A q \in Requests \ {r} : mine'[q] = mine[q] /\ told'[q] = told[q]
  BY DEF CheckoutTypeOK, Serve, Abandon, Reopen, PickInstallment, NothingDue, Resume, Begin, Ask, Recheck,
     Retire, RequestLink, StoreReply, GoTo, Finish, Hear

\* MoveOrIgnore succeeds the attempt only where that is asked, and stores no link.
LEMMA MoveOrIgnoreFacts ==
  ASSUME TypeOK, NEW a \in Attempts, NEW st \in {"SUCCEEDED", "FAILED", "EXPIRED", "UNKNOWN"}, MoveOrIgnore(a, st)
  PROVE  /\ attLink' = attLink
         /\ \A b \in Attempts : attStatus'[b] = "SUCCEEDED" =>
               attStatus[b] = "SUCCEEDED" \/ (b = a /\ st = "SUCCEEDED")
<1>1. MoveAttempt(a, st) \/ UNCHANGED db
  BY DEF MoveOrIgnore
<1>2. attLink' = attLink
  BY <1>1 DEF MoveAttempt, db
<1>3. CASE MoveAttempt(a, st)
  BY <1>2, <1>3, WhoSucceeds
<1>4. CASE UNCHANGED db
  BY <1>2, <1>4 DEF db
<1> QED BY <1>1, <1>3, <1>4

LEMMA RequestStep ==
  ASSUME CheckoutTypeOK, MoneyInv, RowsGoOn, NEW r \in Requests, Serve(r) \/ Abandon(r)
  PROVE  TaraKeeps /\ AddsTruth /\ Remembers(r)'
<1>0. /\ TypeOK /\ TaraTypeOK /\ Remembers(r)
      /\ mine \in [Requests -> Attempts \cup {0}] /\ told \in [Requests -> Verdicts \cup LinkReplies \cup {""}]
      /\ mine[r] # 0 <=> stage[r] \in {"ask", "learned", "retire", "link", "reply"}
      /\ told[r] # "" <=> stage[r] \in {"learned", "reply"}
      /\ target[r] = 0 <=> stage[r] \in {"idle", "reopened"}
      /\ target[r] \in Insts \cup {0}
  BY DEF CheckoutTypeOK, MoneyInv, SessionIsTrue
<1>k. ASSUME UNCHANGED tara PROVE TaraKeeps
  BY <1>k DEF TaraKeeps
<1>a. ASSUME UNCHANGED <<attStatus, attLink, tara, shown>> PROVE AddsTruth
  BY <1>a DEF AddsTruth
<1>f. ASSUME TaraKeeps, mine'[r] = 0 \/ (mine'[r] = mine[r] /\ told'[r] \in {told[r], ""}) PROVE Remembers(r)'
  BY <1>f, <1>0, MemoryFrame
<1>1. ASSUME Reopen(r) \/ PickInstallment(r) \/ NothingDue(r) \/ Abandon(r)
      PROVE  TaraKeeps /\ AddsTruth /\ Remembers(r)'
  <2>1. UNCHANGED <<attStatus, attLink, tara, shown>>
    BY <1>1 DEF Reopen, PickInstallment, NothingDue, Abandon, ReopenOrder, db
  <2>2. mine'[r] = 0 \/ (mine'[r] = mine[r] /\ told'[r] = told[r])
    BY <1>0, <1>1 DEF Reopen, PickInstallment, NothingDue, Abandon, Finish, GoTo
  <2> QED BY <1>k, <1>a, <1>f, <2>1, <2>2
<1>2. ASSUME NEW a \in Attempts, Resume(r, a) PROVE TaraKeeps /\ AddsTruth /\ Remembers(r)'
  <2>0. UNCHANGED <<attStatus, attLink, tara>> /\ told[r] = "" /\ Created(a)
    <3>1. target[r] # 0 /\ attInst[a] = target[r]
      BY <1>0, <1>2 DEF Resume, IsLatest, AttemptsOf
    <3> QED BY <1>0, <1>2, <3>1 DEF Resume, db, Created, TypeOK
  <2>1. PICK old \in BOOLEAN :
          LET to == NextStage(r, attStatus[a], attLink[a], old) IN
          IF to = "idle"
          THEN /\ shown' = [shown EXCEPT ![a] = @ \/ attStatus[a] # "SUCCEEDED"]
               /\ Finish(r)
          ELSE /\ stage' = [stage EXCEPT ![r] = to]
               /\ mine' = [mine EXCEPT ![r] = a]
               /\ UNCHANGED <<shown, target, told, retried>>
    BY <1>2 DEF Resume
  <2>2. CASE NextStage(r, attStatus[a], attLink[a], old) = "idle"
    <3>1. shown' = [shown EXCEPT ![a] = @ \/ attStatus[a] # "SUCCEEDED"] /\ mine'[r] = 0
      BY <1>0, <2>1, <2>2 DEF Finish
    <3>2. attStatus[a] # "SUCCEEDED" => attLink[a] /\ attStatus[a] \in {"LINK_CREATED", "PENDING"}
      BY <2>2 DEF NextStage
    <3>3. attStatus[a] # "SUCCEEDED" => tara'[a] # "none" /\ Started(a)'
      BY <2>0, <3>2 DEF MoneyInv, LinksAreOpen, Started
    <3>4. \A b \in Attempts : shown'[b] => shown[b] \/ (b = a /\ attStatus[a] # "SUCCEEDED")
      BY <1>0, <3>1 DEF TaraTypeOK
    <3>5. AddsTruth
      BY <2>0, <3>3, <3>4 DEF AddsTruth
    <3> QED BY <1>k, <1>f, <2>0, <3>1, <3>5
  <2>3. CASE NextStage(r, attStatus[a], attLink[a], old) # "idle"
    <3>1. mine'[r] = a /\ UNCHANGED <<shown, told>>
      BY <1>0, <2>1, <2>3
    <3>2. Remembers(r)'
      BY <2>0, <3>1 DEF Remembers, Created
    <3> QED BY <1>k, <1>a, <2>0, <3>1, <3>2
  <2> QED BY <2>2, <2>3
<1>3. ASSUME NEW a \in Attempts, Begin(r, a) PROVE TaraKeeps /\ AddsTruth /\ Remembers(r)'
  <2>1. /\ CreateAttempt(a, target[r]) /\ UNCHANGED <<tara, shown, told>> /\ mine'[r] = a
        /\ target[r] \in Insts /\ told[r] = ""
    BY <1>0, <1>3 DEF Begin
  <2>2. attStatus'[a] # "NONE" /\ attLink' = attLink
    BY <1>0, <2>1 DEF CreateAttempt, InsertAttempt, TypeOK
  <2>3. Remembers(r)'
    BY <2>1, <2>2 DEF Remembers, Created
  <2>4. \A b \in Attempts : attStatus'[b] = "SUCCEEDED" => attStatus[b] = "SUCCEEDED"
    BY <1>0, <2>1, WhoSucceeds
  <2>5. AddsTruth
    BY <2>1, <2>2, <2>4 DEF AddsTruth
  <2> QED BY <1>k, <2>1, <2>3, <2>5
<1>4. ASSUME NEW v \in Verdicts, Ask(r, v) PROVE TaraKeeps /\ AddsTruth /\ Remembers(r)'
  <2>1. UNCHANGED <<attStatus, attLink, tara, shown, mine>> /\ told'[r] = v /\ v \in Answers(mine[r])
    BY <1>0, <1>4 DEF Ask, Hear, db
  <2>2. Remembers(r)'
    BY <1>0, <2>1 DEF Remembers, Created, Answers
  <2> QED BY <1>k, <1>a, <2>1, <2>2
<1>5. ASSUME Recheck(r) PROVE TaraKeeps /\ AddsTruth /\ Remembers(r)'
  <2>0. mine[r] \in Attempts /\ UNCHANGED <<tara, shown>>
    BY <1>0, <1>5 DEF Recheck
  <2>1. \/ told[r] = "SUCCESS" /\ MoveOrIgnore(mine[r], "SUCCEEDED")
        \/ MoveOrIgnore(mine[r], "FAILED") \/ UNCHANGED db
    BY <1>5 DEF Recheck
  <2>2. attLink' = attLink /\ \A b \in Attempts : attStatus'[b] = "SUCCEEDED" =>
           attStatus[b] = "SUCCEEDED" \/ (b = mine[r] /\ told[r] = "SUCCESS")
    BY <1>0, <2>0, <2>1, MoveOrIgnoreFacts DEF db
  <2>3. told[r] = "SUCCESS" => tara'[mine[r]] = "success"
    BY <1>0, <2>0, RecordsAssumption DEF Remembers, Attempts
  <2>4. AddsTruth
    BY <2>0, <2>2, <2>3 DEF AddsTruth
  <2>5. mine'[r] = 0 \/ (mine'[r] = mine[r] /\ told'[r] = "")
    BY <1>0, <1>5 DEF Recheck, Finish
  <2> QED BY <1>k, <1>f, <2>0, <2>4, <2>5
<1>6. ASSUME Retire(r) PROVE TaraKeeps /\ AddsTruth /\ Remembers(r)'
  <2>0. mine[r] \in Attempts /\ UNCHANGED <<tara, shown>> /\ mine'[r] = 0
    BY <1>0, <1>6 DEF Retire
  <2>1. attLink' = attLink /\ \A b \in Attempts : attStatus'[b] = "SUCCEEDED" => attStatus[b] = "SUCCEEDED"
    BY <1>0, <1>6, <2>0, MoveOrIgnoreFacts DEF Retire
  <2>2. AddsTruth
    BY <2>0, <2>1 DEF AddsTruth
  <2> QED BY <1>k, <1>f, <2>0, <2>2
<1>7. ASSUME NEW reply \in LinkReplies, RequestLink(r, reply) PROVE TaraKeeps /\ AddsTruth /\ Remembers(r)'
  <2>0. /\ mine[r] \in Attempts /\ UNCHANGED <<attStatus, attLink, shown, mine>> /\ told'[r] = reply
        /\ OpenAtTara(mine[r]) \/ UNCHANGED tara
        /\ reply \in {"LINK", "UNUSABLE", "NO_URL"} => OpenAtTara(mine[r])
    BY <1>0, <1>7 DEF RequestLink, Hear, db
  <2>1. /\ \A a \in Attempts : tara[a] # "none" => tara'[a] = tara[a]
        /\ \A a \in Attempts : tara'[a] = "success" => tara[a] = "success"
        /\ OpenAtTara(mine[r]) => tara'[mine[r]] # "none"
    BY <1>0, <2>0 DEF OpenAtTara, TaraTypeOK
  <2>2. TaraKeeps /\ AddsTruth
    BY <2>0, <2>1 DEF TaraKeeps, AddsTruth
  <2>3. Remembers(r)'
    BY <1>0, <2>0, <2>1 DEF Remembers, Created, LinkReplies
  <2> QED BY <2>2, <2>3
<1>8. ASSUME StoreReply(r) PROVE TaraKeeps /\ AddsTruth /\ Remembers(r)'
  <2>0. mine[r] \in Attempts /\ UNCHANGED tara /\ mine'[r] = 0 /\ Created(mine[r])
    BY <1>0, <1>8, RecordsAssumption DEF StoreReply, Finish, Remembers, Attempts
  <2>1. shown' = [shown EXCEPT ![mine[r]] = @ \/ told[r] = "LINK"]
    BY <1>8 DEF StoreReply
  <2>2. told[r] \in {"LINK", "UNUSABLE", "NO_URL"} => tara'[mine[r]] # "none"
    BY <1>0, <2>0, RecordsAssumption DEF Remembers, Attempts
  <2>3. \/ /\ told[r] \in {"LINK", "UNUSABLE", "NO_URL"} /\ attStatus[mine[r]] = "CREATED"
           /\ StoreLink(mine[r], told[r] # "NO_URL")
        \/ told[r] \in {"LINK", "UNUSABLE", "NO_URL"} /\ attStatus[mine[r]] # "CREATED" /\ UNCHANGED db
        \/ told[r] # "LINK" /\ (MoveOrIgnore(mine[r], "UNKNOWN") \/ MoveOrIgnore(mine[r], "FAILED") \/ UNCHANGED db)
    BY <1>8 DEF StoreReply
  <2>4. \A b \in Attempts : /\ attStatus'[b] = "SUCCEEDED" => attStatus[b] = "SUCCEEDED"
                            /\ attLink'[b] => attLink[b] \/ tara'[b] # "none"
    <3>1. CASE told[r] \in {"LINK", "UNUSABLE", "NO_URL"} /\ StoreLink(mine[r], told[r] # "NO_URL")
      BY <1>0, <2>0, <2>2, <3>1 DEF StoreLink, TypeOK
    <3>2. CASE MoveOrIgnore(mine[r], "UNKNOWN") \/ MoveOrIgnore(mine[r], "FAILED")
      BY <1>0, <2>0, <3>2, MoveOrIgnoreFacts
    <3>3. CASE UNCHANGED db
      BY <3>3 DEF db
    <3> QED BY <2>3, <3>1, <3>2, <3>3
  <2>5. told[r] = "LINK" => attStatus'[mine[r]] \notin {"NONE", "CREATED"}
    <3>1. ASSUME told[r] = "LINK", attStatus[mine[r]] = "CREATED" PROVE attStatus'[mine[r]] \notin {"NONE", "CREATED"}
      BY <1>0, <2>0, <2>3, <3>1 DEF StoreLink, TypeOK
    <3>2. ASSUME told[r] = "LINK", attStatus[mine[r]] # "CREATED" PROVE attStatus'[mine[r]] \notin {"NONE", "CREATED"}
      BY <2>0, <3>2 DEF RowsGoOn, Created
    <3> QED BY <3>1, <3>2
  <2>6. \A b \in Attempts : shown'[b] => shown[b] \/ (b = mine[r] /\ told[r] = "LINK")
    BY <1>0, <2>0, <2>1 DEF TaraTypeOK
  <2>7. AddsTruth
    BY <2>0, <2>2, <2>4, <2>5, <2>6 DEF AddsTruth, Started
  <2> QED BY <1>k, <1>f, <2>0, <2>7
<1> QED BY <1>1, <1>2, <1>3, <1>4, <1>5, <1>6, <1>7, <1>8 DEF Serve

\* The customer, the answers verified elsewhere, and staff
LEMMA OtherStep ==
  ASSUME CheckoutTypeOK, MoneyInv, RowsGoOn,
         Others \/ \E a \in Attempts, st \in TaraStates : CustomerPays(a, st) /\ UNCHANGED session
  PROVE  TaraKeeps /\ AddsTruth /\ UNCHANGED session
<1>0. TypeOK /\ TaraTypeOK
  BY DEF CheckoutTypeOK
<1>1. ASSUME NEW a \in Attempts, NEW st \in TaraStates, CustomerPays(a, st) PROVE TaraKeeps /\ AddsTruth
  <2>1. /\ shown[a] /\ tara[a] # "success" /\ st # "none" /\ UNCHANGED <<attStatus, attLink, shown>>
        /\ tara' = [tara EXCEPT ![a] = st]
    BY <1>1 DEF CustomerPays, db
  <2>2. Started(a)
    BY <2>1 DEF MoneyInv, ShownLinkIsKnown, Started
  <2>3. TaraKeeps
    BY <1>0, <2>1 DEF TaraKeeps, TaraTypeOK
  <2>4. AddsTruth
    BY <1>0, <2>1, <2>2 DEF AddsTruth, TaraTypeOK, Started
  <2> QED BY <2>3, <2>4
<1>2. ASSUME NEW a \in Attempts, Verified(a), UNCHANGED shown PROVE TaraKeeps /\ AddsTruth
  <2>1. UNCHANGED <<tara, shown, attLink>>
    BY <1>2 DEF Verified, Credit, RecordPayment, Fail
  <2>2. \A b \in Attempts : attStatus'[b] = "SUCCEEDED" => attStatus[b] = "SUCCEEDED" \/ tara[b] = "success"
    BY <1>0, <1>2, WhoSucceeds DEF Verified
  <2> QED BY <2>1, <2>2 DEF TaraKeeps, AddsTruth
<1>3. ASSUME NEW a \in Attempts, NEW i \in Insts, Attributed(a, i), UNCHANGED shown PROVE TaraKeeps /\ AddsTruth
  <2>1. attLink' = attLink
    BY <1>3 DEF Attributed, AttributeToNew, AttributeToOpen, AttributionConflict, Credit, RecordPayment
  <2>2. CASE (AttributeToNew(a, i) \/ AttributeToOpen(a, i)) /\ tara' = [tara EXCEPT ![a] = "success"]
    <3>1. \A b \in Attempts : attStatus'[b] = "SUCCEEDED" => attStatus[b] = "SUCCEEDED" \/ b = a
      BY <1>0, <2>2, WhoSucceeds DEF AttributeToOpen
    <3>2. attStatus'[a] = "SUCCEEDED"
      BY <1>0, <2>2 DEF AttributeToNew, AttributeToOpen, Credit, TypeOK
    <3>3. TaraKeeps
      BY <1>0, <2>2 DEF TaraKeeps, TaraTypeOK
    <3>4. AddsTruth
      BY <1>0, <1>3, <2>1, <2>2, <3>1, <3>2 DEF AddsTruth, TaraTypeOK, Started
    <3> QED BY <3>3, <3>4
  <2>3. CASE AttributionConflict(a, i) /\ UNCHANGED tara
    <3>1. \A b \in Attempts : attStatus'[b] = "SUCCEEDED" => attStatus[b] = "SUCCEEDED"
      BY <1>0, <2>3, WhoSucceeds
    <3> QED BY <1>3, <2>1, <2>3, <3>1 DEF TaraKeeps, AddsTruth
  <2> QED BY <1>3, <2>2, <2>3 DEF Attributed
<1>4. ASSUME Decided, UNCHANGED shown PROVE TaraKeeps /\ AddsTruth
  <2>1. UNCHANGED <<tara, attLink>>
    BY <1>4 DEF Decided, CancelOrder, ExpireOrder, CancelInstallment, WaiveInstallment
  <2>2. \A b \in Attempts : attStatus'[b] = "SUCCEEDED" => attStatus[b] = "SUCCEEDED"
    BY <1>0, <1>4 DEF Decided, CancelOrder, ExpireOrder, CancelInstallment, WaiveInstallment, CloseAttempts, TypeOK
  <2> QED BY <1>4, <2>1, <2>2 DEF TaraKeeps, AddsTruth
<1>5. UNCHANGED session
  BY DEF Others
<1> QED BY <1>1, <1>2, <1>3, <1>4, <1>5 DEF Others

LEMMA MoneyStep == CheckoutTypeOK /\ MoneyInv /\ [CheckoutNext]_vars => MoneyInv'
<1> SUFFICES ASSUME CheckoutTypeOK, MoneyInv, [CheckoutNext]_vars PROVE MoneyInv'
  OBVIOUS
<1>1. RowsGoOn
  BY CheckoutStep, RowsGoOnStep DEF CheckoutTypeOK
<1>2. ASSUME TaraKeeps, AddsTruth, SessionIsTrue' PROVE MoneyInv'
  BY <1>1, <1>2, TruthIsKept DEF MoneyInv
<1>3. ASSUME NEW r \in Requests, Serve(r) \/ Abandon(r) PROVE MoneyInv'
  <2>1. TaraKeeps /\ AddsTruth /\ Remembers(r)'
    BY <1>1, <1>3, RequestStep
  <2>2. SessionIsTrue'
    BY <1>1, <1>3, <2>1, OnlyItself, OthersRemember DEF MoneyInv
  <2> QED BY <1>2, <2>1, <2>2
<1>4. ASSUME TaraKeeps, UNCHANGED session PROVE SessionIsTrue'
  <2>1. \A r \in Requests : mine'[r] = mine[r] /\ told'[r] = told[r]
    BY <1>4 DEF session
  <2> QED BY <1>1, <1>4, <2>1, MemoryFrame DEF SessionIsTrue, MoneyInv
<1>5. ASSUME Others \/ \E a \in Attempts, st \in TaraStates : CustomerPays(a, st) /\ UNCHANGED session
      PROVE  MoneyInv'
  BY <1>1, <1>2, <1>4, <1>5, OtherStep
<1>6. CASE UNCHANGED vars
  <2>1. TaraKeeps /\ AddsTruth /\ UNCHANGED session
    BY <1>6 DEF vars, db, TaraKeeps, AddsTruth
  <2> QED BY <1>2, <1>4, <2>1
<1> QED BY <1>3, <1>5, <1>6 DEF CheckoutNext

LEMMA MoneyInit == CheckoutInit => MoneyInv
<1> SUFFICES ASSUME CheckoutInit PROVE MoneyInv
  OBVIOUS
<1>1. SessionIsTrue
  BY DEF CheckoutInit, SessionIsTrue, Remembers
<1> QED BY <1>1 DEF CheckoutInit, Init, TaraInit, MoneyInv, LinksAreOpen, PaidIsStarted, ShownLinkIsKnown, NoFalseSuccess

LEMMA MoneyAlways == CheckoutSpec => []MoneyInv
  BY MoneyInit, MoneyStep, CheckoutTypeCorrect, PTL DEF CheckoutSpec

\* A request that writes SUCCEEDED, however late, does so for an attempt whose
\* money Tara has.
THEOREM CheckoutSucceedsPaid == CheckoutSpec => []NoFalseSuccess
<1>1. MoneyInv => NoFalseSuccess
  BY DEF MoneyInv
<1> QED BY <1>1, MoneyAlways, PTL

\* Every link handed out, by whichever request, is of a page Tara opened and of an
\* attempt that is past CREATED.
THEOREM ShownLinkIsKnownAlways == CheckoutSpec => []ShownLinkIsKnown
<1>1. MoneyInv => ShownLinkIsKnown
  BY DEF MoneyInv
<1> QED BY <1>1, MoneyAlways, PTL

\* What a step makes SUCCEEDED, it credits or notes as rechecked.
NewIsCredited == \A b \in Attempts : attStatus'[b] = "SUCCEEDED" =>
  attStatus[b] = "SUCCEEDED" \/ inst'[attInst'[b]] = "PAID" \/ b \in rechecked'

LEMMA CreditedStays ==
  ASSUME TypeOK, [Next]_db, SucceededIsCredited, NewIsCredited, rechecked \subseteq rechecked'
  PROVE  SucceededIsCredited'
<1>1. AttemptsAreFinal /\ InstallmentsAreFinal
  BY AttemptsFinalStep, InstallmentsFinalStep
<1>2. \A a \in Attempts : attStatus[a] = "SUCCEEDED" => attInst[a] \in Insts
  BY DEF TypeOK
<1> QED BY <1>1, <1>2 DEF SucceededIsCredited, NewIsCredited, AttemptsAreFinal, InstallmentsAreFinal

LEMMA RecheckedGrows == [CheckoutNext]_vars => rechecked \subseteq rechecked'
<1> SUFFICES ASSUME [CheckoutNext]_vars PROVE rechecked \subseteq rechecked'
  OBVIOUS
<1>1. ASSUME NEW r \in Requests, Serve(r) \/ Abandon(r) PROVE rechecked \subseteq rechecked'
  BY <1>1 DEF Serve, Abandon, Reopen, PickInstallment, NothingDue, Resume, Begin, Ask, Recheck, NoteRecheck,
     Retire, RequestLink, StoreReply
<1> QED BY <1>1 DEF CheckoutNext, CustomerPays, Others, vars

LEMMA RequestCredits ==
  ASSUME CheckoutTypeOK, NEW r \in Requests, Serve(r) \/ Abandon(r)
  PROVE  NewIsCredited
<1>0. /\ TypeOK /\ mine[r] \in Attempts \cup {0} /\ target[r] \in Insts \cup {0}
      /\ mine[r] # 0 <=> stage[r] \in {"ask", "learned", "retire", "link", "reply"}
      /\ target[r] = 0 <=> stage[r] \in {"idle", "reopened"}
  BY DEF CheckoutTypeOK
<1>1. CASE UNCHANGED attStatus
  BY <1>1 DEF NewIsCredited
<1>2. ASSUME NEW a \in Attempts, Begin(r, a) PROVE NewIsCredited
  <2>1. target[r] \in Insts /\ CreateAttempt(a, target[r])
    BY <1>0, <1>2 DEF Begin
  <2> QED BY <1>0, <2>1, WhoSucceeds DEF NewIsCredited
<1>3. CASE Recheck(r)
  <2>1. mine[r] \in Attempts
    BY <1>0, <1>3 DEF Recheck
  <2>2. MoveOrIgnore(mine[r], "SUCCEEDED") \/ MoveOrIgnore(mine[r], "FAILED") \/ UNCHANGED db
    BY <1>3 DEF Recheck
  <2>3. \A b \in Attempts : attStatus'[b] = "SUCCEEDED" => attStatus[b] = "SUCCEEDED" \/ b = mine[r]
    BY <1>0, <2>1, <2>2, MoveOrIgnoreFacts DEF db
  <2>4. NoteRecheck(mine[r])
    BY <1>3 DEF Recheck
  <2> QED BY <2>1, <2>3, <2>4 DEF NewIsCredited, NoteRecheck
<1>4. CASE Retire(r) \/ StoreReply(r)
  <2>1. mine[r] \in Attempts
    BY <1>0, <1>4 DEF Retire, StoreReply
  <2>2. \/ \E url \in BOOLEAN : StoreLink(mine[r], url)
        \/ \E st \in {"EXPIRED", "UNKNOWN", "FAILED"} : MoveOrIgnore(mine[r], st)
        \/ UNCHANGED attStatus
    BY <1>4 DEF Retire, StoreReply, db
  <2>3. \A b \in Attempts : attStatus'[b] = "SUCCEEDED" => attStatus[b] = "SUCCEEDED"
    BY <1>0, <2>1, <2>2, MoveOrIgnoreFacts, WhoSucceeds
  <2> QED BY <2>3 DEF NewIsCredited
<1>5. ASSUME \/ Reopen(r) \/ PickInstallment(r) \/ NothingDue(r) \/ Abandon(r)
             \/ \E a \in Attempts : Resume(r, a)
             \/ \E v \in Verdicts : Ask(r, v)
             \/ \E reply \in LinkReplies : RequestLink(r, reply)
      PROVE  NewIsCredited
  <2>1. UNCHANGED attStatus
    BY <1>5 DEF Reopen, ReopenOrder, PickInstallment, NothingDue, Abandon, Resume, Ask, RequestLink, db
  <2> QED BY <1>1, <2>1
<1> QED BY <1>2, <1>3, <1>4, <1>5 DEF Serve

LEMMA OthersCredit ==
  ASSUME CheckoutTypeOK, Others
  PROVE  NewIsCredited
<1>0. TypeOK
  BY DEF CheckoutTypeOK
<1>1. ASSUME NEW a \in Attempts, Credit(a) \/ \E i \in Insts : AttributeToNew(a, i) PROVE NewIsCredited
  <2>1. \A b \in Attempts : attStatus'[b] = "SUCCEEDED" => attStatus[b] = "SUCCEEDED" \/ b = a
    BY <1>0, <1>1, WhoSucceeds
  <2> QED BY <1>0, <1>1, <2>1, CreditPays DEF NewIsCredited
<1>2. ASSUME NEW a \in Attempts, Verified(a) PROVE NewIsCredited
  <2>1. CASE Fail(a)
    BY <1>0, <2>1, WhoSucceeds DEF NewIsCredited
  <2> QED BY <1>1, <1>2, <2>1 DEF Verified
<1>3. ASSUME NEW a \in Attempts, NEW i \in Insts, Attributed(a, i) PROVE NewIsCredited
  <2>1. CASE AttributionConflict(a, i)
    BY <1>0, <2>1, WhoSucceeds DEF NewIsCredited
  <2> QED BY <1>1, <1>3, <2>1 DEF Attributed, AttributeToOpen
<1>4. CASE Decided
  <2>1. \A b \in Attempts : attStatus'[b] = "SUCCEEDED" => attStatus[b] = "SUCCEEDED"
    BY <1>0, <1>4 DEF Decided, CancelOrder, ExpireOrder, CancelInstallment, WaiveInstallment, CloseAttempts, TypeOK
  <2> QED BY <2>1 DEF NewIsCredited
<1> QED BY <1>2, <1>3, <1>4 DEF Others

LEMMA CreditsStep == CheckoutTypeOK /\ SucceededIsCredited /\ [CheckoutNext]_vars => SucceededIsCredited'
<1> SUFFICES ASSUME CheckoutTypeOK, SucceededIsCredited, [CheckoutNext]_vars PROVE SucceededIsCredited'
  OBVIOUS
<1>1. NewIsCredited
  <2>1. CASE UNCHANGED db
    BY <2>1 DEF NewIsCredited, db
  <2> QED BY <2>1, RequestCredits, OthersCredit DEF CheckoutNext, CustomerPays, vars
<1> QED BY <1>1, CreditedStays, CheckoutStep, RecheckedGrows DEF CheckoutTypeOK

\* Crediting and the recheck are the only ways to SUCCEEDED, in whatever order the
\* requests and the other writers come: a SUCCEEDED attempt has its installment
\* paid, or is one the recheck wrote.
THEOREM SucceededIsCreditedAlways == CheckoutSpec => []SucceededIsCredited
<1>1. CheckoutInit => SucceededIsCredited
  BY DEF CheckoutInit, Init, SucceededIsCredited
<1> QED BY <1>1, CreditsStep, CheckoutTypeCorrect, PTL DEF CheckoutSpec

\* Once past CREATED an attempt can be credited, unless its installment is closed
\* or settled, or the recheck took one of the installment's attempts for paid.
LEMMA StartedIsReachable ==
  ASSUME TypeOK, PaidIsStarted, SucceededIsCredited
  PROVE  PaymentStaysReachable
<1> SUFFICES ASSUME NEW a \in Attempts, tara[a] = "success", ~SpoiltByRecheck(a),
                    inst[attInst[a]] \notin {"PAID", "CANCELLED", "WAIVED"}
             PROVE  Creditable(a)
  BY DEF PaymentStaysReachable
<1>1. \A b \in Attempts : attInst[b] = attInst[a] => attStatus[b] # "SUCCEEDED"
  BY DEF SucceededIsCredited, SpoiltByRecheck
<1>2. attStatus[a] \in {"LINK_CREATED", "PENDING", "FAILED", "EXPIRED", "UNKNOWN"}
  BY <1>1 DEF PaidIsStarted, Started, TypeOK, AttemptStatuses
<1>3. inst[attInst[a]] \in {"SCHEDULED", "DUE", "PENDING", "FAILED"}
  BY <1>2 DEF TypeOK, InstStatuses
<1>4. ~PaidByAnother(a)
  BY <1>1 DEF PaidByAnother, HasSucceeded, AttemptsOf
<1> QED BY <1>2, <1>3, <1>4 DEF Creditable, Created, LateSuccess, AttemptAllows, InstAllows

\* A payment on a link the checkout handed out settles its installment or can
\* still be credited, whatever the requests did, with two exceptions: staff closed
\* the installment, or a recheck made one of its attempts SUCCEEDED and credited
\* nothing (_recheck_unknown_attempt).
THEOREM PaymentStaysReachableAlways == CheckoutSpec => []PaymentStaysReachable
<1>1. MoneyInv /\ CheckoutTypeOK /\ SucceededIsCredited => PaymentStaysReachable
  BY StartedIsReachable DEF MoneyInv, CheckoutTypeOK
<1> QED BY <1>1, MoneyAlways, SucceededIsCreditedAlways, CheckoutTypeCorrect, PTL

-----------------------------------------------------------------------------
\* What the status page says of a payment that has not started

\* No attempt keeps a link before it is past CREATED; money is on its way only on
\* a link handed out, or recorded by staff; a link handed out is stored, unless
\* it came when its attempt had moved on.
StoredIsStarted == \A a \in Attempts : attLink[a] => Started(a)
PaidWasShown == \A a \in Attempts : tara[a] \notin {"none", "open"} => shown[a] \/ attStatus[a] = "SUCCEEDED"
ShownIsStored == \A a \in Attempts \ crossed : shown[a] => attLink[a]

PageInv == StoredIsStarted /\ PaidWasShown /\ ShownIsStored

LEMMA OnlyStoreLink ==
  ASSUME [Next]_db
  PROVE  attLink' = attLink \/ \E a \in Attempts, url \in BOOLEAN : StoreLink(a, url)
<1>1. ASSUME NEW a \in Attempts, AttemptStep(a), ~\E url \in BOOLEAN : StoreLink(a, url) PROVE attLink' = attLink
  BY <1>1 DEF AttemptStep, CreateAttempt, MoveAttempt, Credit, RecordPayment, Fail, RepairConfirmation
<1>2. ASSUME AdminStep PROVE attLink' = attLink
  BY <1>2 DEF AdminStep, CancelOrder, CancelInstallment, WaiveInstallment, AttributeToNew, AttributeToOpen,
     AttributionConflict, Credit, RecordPayment
<1>3. ASSUME OrderStep PROVE attLink' = attLink
  BY <1>3 DEF OrderStep, ReopenOrder, MarkDue, MarkLate, ExpireOrder, SuspendOrder, ResumeOrder, RefreshOrder, NextDay
<1>4. CASE UNCHANGED db
  BY <1>4 DEF db
<1> QED BY <1>1, <1>2, <1>3, <1>4 DEF Next

LEMMA LinksStay ==
  ASSUME TypeOK, StoredIsStarted, [Next]_db
  PROVE  \A a \in Attempts : (attLink[a] => attLink'[a]) /\ (attLink'[a] => Started(a)')
<1>1. RowsGoOn
  BY RowsGoOnStep
<1>2. CASE attLink' = attLink
  BY <1>1, <1>2 DEF StoredIsStarted, Started, RowsGoOn
<1>3. ASSUME NEW a \in Attempts, NEW url \in BOOLEAN, StoreLink(a, url), NEW b \in Attempts
      PROVE  (attLink[b] => attLink'[b]) /\ (attLink'[b] => Started(b)')
  <2>1. ~attLink[a]
    BY <1>3 DEF StoreLink, StoredIsStarted, Started
  <2>2. attStatus'[a] = "LINK_CREATED" /\ \A c \in Attempts \ {a} : attLink'[c] = attLink[c]
    BY <1>3 DEF StoreLink, TypeOK
  <2> QED BY <1>1, <2>1, <2>2 DEF StoredIsStarted, Started, RowsGoOn
<1> QED BY <1>2, <1>3, OnlyStoreLink

\* What a step hands out is stored, or its attempt had moved on; what it receives was handed out.
LEMMA HandedOut ==
  ASSUME CheckoutTypeOK, MoneyInv, [CheckoutNext]_vars, NEW b \in Attempts
  PROVE  /\ shown[b] => shown'[b]
         /\ shown'[b] => shown[b] \/ attLink'[b] \/ attStatus[b] # "CREATED"
         /\ tara'[b] \notin {"none", "open"} =>
              tara[b] \notin {"none", "open"} \/ shown[b] \/ attStatus'[b] = "SUCCEEDED"
<1>0. TypeOK /\ TaraTypeOK
  BY DEF CheckoutTypeOK
<1> DEFINE Goal == /\ shown[b] => shown'[b]
                   /\ shown'[b] => shown[b] \/ attLink'[b] \/ attStatus[b] # "CREATED"
                   /\ tara'[b] \notin {"none", "open"} =>
                        tara[b] \notin {"none", "open"} \/ shown[b] \/ attStatus'[b] = "SUCCEEDED"
<1>1. ASSUME NEW r \in Requests, NEW a \in Attempts, Resume(r, a) PROVE Goal
  <2>0. UNCHANGED <<attLink, tara>>
    BY <1>1 DEF Resume, db
  <2>1. \/ UNCHANGED shown
        \/ \E old \in BOOLEAN : /\ NextStage(r, attStatus[a], attLink[a], old) = "idle"
                                /\ shown' = [shown EXCEPT ![a] = @ \/ attStatus[a] # "SUCCEEDED"]
    BY <1>1 DEF Resume
  <2>2. CASE UNCHANGED shown
    BY <2>0, <2>2
  <2>3. ASSUME NEW old \in BOOLEAN, NextStage(r, attStatus[a], attLink[a], old) = "idle",
               shown' = [shown EXCEPT ![a] = @ \/ attStatus[a] # "SUCCEEDED"]
        PROVE  Goal
    <3>1. attStatus[a] # "SUCCEEDED" => attLink[a]
      BY <2>3 DEF NextStage
    <3>2. (shown[b] => shown'[b]) /\ (shown'[b] => shown[b] \/ (b = a /\ attStatus[a] # "SUCCEEDED"))
      BY <1>0, <2>3 DEF TaraTypeOK
    <3> QED BY <2>0, <3>1, <3>2
  <2> QED BY <2>1, <2>2, <2>3
<1>2. ASSUME NEW r \in Requests, StoreReply(r) PROVE Goal
  <2>0. mine[r] \in Attempts /\ UNCHANGED tara
    BY <1>2 DEF StoreReply, CheckoutTypeOK
  <2>1. shown' = [shown EXCEPT ![mine[r]] = @ \/ told[r] = "LINK"]
    BY <1>2 DEF StoreReply
  <2>2. (shown[b] => shown'[b]) /\ (shown'[b] => shown[b] \/ (b = mine[r] /\ told[r] = "LINK"))
    BY <1>0, <2>0, <2>1 DEF TaraTypeOK
  <2>3. CASE attStatus[mine[r]] = "CREATED"
    <3>1. told[r] = "LINK" => StoreLink(mine[r], TRUE)
      BY <1>2, <2>3 DEF StoreReply
    <3>2. told[r] = "LINK" => attLink'[mine[r]]
      BY <1>0, <2>0, <3>1 DEF StoreLink, TypeOK
    <3> QED BY <2>0, <2>2, <3>2
  <2>4. CASE attStatus[mine[r]] # "CREATED"
    BY <2>0, <2>2, <2>4
  <2> QED BY <2>3, <2>4
<1>3. ASSUME NEW r \in Requests, NEW reply \in LinkReplies, RequestLink(r, reply) PROVE Goal
  <2>1. UNCHANGED shown /\ (OpenAtTara(mine[r]) \/ UNCHANGED tara)
    BY <1>3 DEF RequestLink
  <2>2. tara'[b] \notin {"none", "open"} => tara[b] \notin {"none", "open"}
    BY <1>0, <2>1 DEF OpenAtTara, TaraTypeOK
  <2> QED BY <2>1, <2>2
<1>4. ASSUME NEW r \in Requests, Serve(r) \/ Abandon(r), ~\E a \in Attempts : Resume(r, a), ~StoreReply(r),
             ~\E reply \in LinkReplies : RequestLink(r, reply)
      PROVE  Goal
  <2>1. UNCHANGED <<tara, shown>>
    BY <1>4 DEF Serve, Abandon, Reopen, PickInstallment, NothingDue, Begin, Ask, Recheck, Retire
  <2> QED BY <2>1
<1>5. ASSUME NEW a \in Attempts, NEW st \in TaraStates, CustomerPays(a, st) PROVE Goal
  BY <1>0, <1>5 DEF CustomerPays, TaraTypeOK
<1>6. ASSUME NEW a \in Attempts, NEW i \in Insts, Attributed(a, i), UNCHANGED shown PROVE Goal
  <2>1. CASE (AttributeToNew(a, i) \/ AttributeToOpen(a, i)) /\ tara' = [tara EXCEPT ![a] = "success"]
    <3>1. attStatus'[a] = "SUCCEEDED"
      BY <1>0, <2>1 DEF AttributeToNew, AttributeToOpen, Credit, TypeOK
    <3> QED BY <1>0, <1>6, <2>1, <3>1 DEF TaraTypeOK
  <2> QED BY <1>6, <2>1 DEF Attributed
<1>7. ASSUME (\E a \in Attempts : Verified(a)) \/ Decided, UNCHANGED shown PROVE Goal
  BY <1>7 DEF Verified, Decided
<1>8. ASSUME UNCHANGED vars PROVE Goal
  BY <1>8 DEF vars
<1>9. ASSUME NEW r \in Requests, Serve(r) \/ Abandon(r) PROVE Goal
  <2> HIDE DEF Goal
  <2> QED BY <1>1, <1>2, <1>3, <1>4, <1>9
<1> HIDE DEF Goal
<1>10. ASSUME Others PROVE Goal
  BY <1>6, <1>7, <1>10 DEF Others
<1>11. ASSUME CheckoutNext PROVE Goal
  BY <1>5, <1>9, <1>10, <1>11 DEF CheckoutNext
<1>12. Goal
  BY <1>8, <1>11
<1> QED BY <1>12 DEF Goal

LEMMA PageStep == CheckoutTypeOK /\ MoneyInv /\ PageInv /\ [PageNext]_pageVars => PageInv'
<1> SUFFICES ASSUME CheckoutTypeOK, MoneyInv, PageInv, [PageNext]_pageVars PROVE PageInv'
  OBVIOUS
<1>1. [CheckoutNext]_vars /\ crossed \subseteq crossed'
  BY DEF PageNext, pageVars
<1>2. \A b \in Attempts : ~shown[b] /\ shown'[b] /\ attStatus[b] # "CREATED" /\ ~attLink[b] => b \in crossed'
  BY DEF PageNext, pageVars, vars, Crossing
<1>3. [Next]_db /\ TypeOK
  BY <1>1, CheckoutStep DEF CheckoutTypeOK
<1>4. \A a \in Attempts : (attLink[a] => attLink'[a]) /\ (attLink'[a] => Started(a)')
  BY <1>3, LinksStay DEF PageInv
<1>5. AttemptsAreFinal
  BY <1>3, AttemptsFinalStep
<1>6. \A b \in Attempts :
         /\ shown[b] => shown'[b]
         /\ shown'[b] => shown[b] \/ attLink'[b] \/ attStatus[b] # "CREATED"
         /\ tara'[b] \notin {"none", "open"} =>
              tara[b] \notin {"none", "open"} \/ shown[b] \/ attStatus'[b] = "SUCCEEDED"
  BY <1>1, HandedOut DEF PageInv
<1>7. StoredIsStarted'
  BY <1>4 DEF StoredIsStarted
<1>8. PaidWasShown'
  BY <1>5, <1>6 DEF PageInv, PaidWasShown, AttemptsAreFinal
<1>9. ShownIsStored'
  BY <1>1, <1>2, <1>4, <1>6 DEF PageInv, ShownIsStored
<1> QED BY <1>7, <1>8, <1>9 DEF PageInv

\* Staying on the page adds nothing to the checkout.
LEMMA PageIsCheckout == PageSpec => CheckoutSpec
<1>1. PageInit => CheckoutInit
  BY DEF PageInit
<1>2. [PageNext]_pageVars => [CheckoutNext]_vars
  BY DEF PageNext, pageVars
<1> QED BY <1>1, <1>2, PTL DEF PageSpec, CheckoutSpec

LEMMA NotStartedFollows ==
  ASSUME PageInv, MoneyInv
  PROVE  NotStartedIsUncharged
<1> SUFFICES ASSUME NEW a \in Attempts, DisplayStatus(a) = "not_started", a \notin crossed,
                    tara[a] \notin {"none", "open"}
             PROVE  FALSE
  BY DEF NotStartedIsUncharged, Displayed, Succeeded, Latest
<1>1. attStatus[a] = "CREATED" \/ (attStatus[a] = "UNKNOWN" /\ ~attLink[a])
  BY DEF DisplayStatus
<1>2. shown[a]
  BY <1>1 DEF PageInv, PaidWasShown
<1>3. attLink[a] /\ attStatus[a] # "CREATED"
  BY <1>2 DEF PageInv, ShownIsStored, MoneyInv, ShownLinkIsKnown
<1> QED BY <1>1, <1>3

\* When the page says a payment has not started, no money is on its way for it,
\* unless its link came after the attempt had moved on.
THEOREM NotStartedIsUnchargedAlways == PageSpec => []NotStartedIsUncharged
<1>1. PageInit => PageInv
  BY DEF PageInit, CheckoutInit, Init, TaraInit, PageInv, StoredIsStarted, PaidWasShown, ShownIsStored
<1>2. PageInv /\ MoneyInv => NotStartedIsUncharged
  BY NotStartedFollows
<1> QED
  BY <1>1, <1>2, PageStep, PageIsCheckout, MoneyAlways, CheckoutTypeCorrect, PTL DEF PageSpec
=============================================================================
