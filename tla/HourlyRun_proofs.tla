--------------------------- MODULE HourlyRun_proofs ---------------------------
(***************************************************************************)
(* Proofs about the hourly run, for any number of runs, workers and alert  *)
(* commands and any limits: its steps are steps of the confirmation's own  *)
(* specification, the customer's e-mails are bounded and a confirmation    *)
(* marked sent was delivered, and the team is told of an item once, but    *)
(* for the excuses StaffAlerts names.                                      *)
(***************************************************************************)
EXTENDS HourlyRun, FiniteSetTheorems, TLAPS

LEMMA StepNames ==
  /\ Last = 8
  /\ \A n \in 1..8 : /\ Steps[n] = "confirmations" <=> n = 3
                     /\ Steps[n] = "alerts" <=> n = 8
  BY DEF Last, Steps

\* Where a run may have something in hand
Confirming(r) == lock = r /\ step = 3
Alerting(r) == lock = r /\ step = 8

LEMMA Places ==
  ASSUME NEW r
  PROVE  /\ At(r, "confirmations") <=> Confirming(r)
         /\ At(r, "alerts") <=> Alerting(r)
  BY StepNames DEF At, Confirming, Alerting

RunsOK ==
  /\ lock \in Runs \cup {NoRun}
  /\ step \in 0..9
  /\ breaks \in 0..MaxBreaks
  /\ enabled \in BOOLEAN
  /\ lock = NoRun <=> step = 0

\* A run has a confirmation or a digest in hand only in the step it is for.
InHand ==
  \A r \in Runs : /\ doing[r] # "idle" => Confirming(r)
                  /\ digest[r] # {} => Alerting(r)

GoneOK == \A s \in Senders : gone[s] => digest[s] # {}

HourlyInv == DeliveryTypeOK /\ Alerts!AlertsTypeOK /\ RunsOK /\ InHand /\ GoneOK

LEMMA InvGivesType == HourlyInv => HourlyTypeOK
<1> SUFFICES ASSUME HourlyInv PROVE HourlyTypeOK
  OBVIOUS
<1>1. \A r \in Runs \ {lock} : Quiet(r)
  BY DEF HourlyInv, InHand, Confirming, Alerting, Quiet
<1> QED BY <1>1, StepNames DEF HourlyInv, RunsOK, HourlyTypeOK

LEMMA RunsAreWorkers ==
  /\ Runs \subseteq Workers /\ NoRun \notin Runs /\ Runs \subseteq Senders
  /\ Commands \cap Runs = {} /\ IsFiniteSet(Workers) /\ IsFiniteSet(Senders)
<1>1. Runs \subseteq Workers /\ NoRun \notin Runs /\ Commands \cap Workers = {}
  BY HourlyAssumption
<1>2. IsFiniteSet(Workers) /\ IsFiniteSet(Commands)
  BY HourlyAssumption, DeliveryAssumption
<1>3. IsFiniteSet(Runs)
  BY <1>1, <1>2, FS_Subset
<1> QED BY <1>1, <1>2, <1>3, FS_Union DEF Senders

LEMMA Limits == MaxSends \in Nat /\ MaxSends > 0 /\ MaxRetries \in Nat /\ MaxBreaks \in Nat /\ MaxExcuses \in Nat
  BY DeliveryAssumption, HourlyAssumption

LEMMA HourlyInvInit == HourlyInit => HourlyInv
<1> SUFFICES ASSUME HourlyInit PROVE HourlyInv
  OBVIOUS
<1>1. DeliveryTypeOK
  BY Limits DEF HourlyInit, Init, DeliveryTypeOK, Ends
<1>2. Alerts!AlertsTypeOK /\ GoneOK
  BY Limits DEF HourlyInit, Alerts!AlertsInit, Alerts!AlertsTypeOK, GoneOK
<1>3. RunsOK
  BY Limits, RunsAreWorkers DEF HourlyInit, RunsOK
<1>4. InHand
  BY RunsAreWorkers DEF HourlyInit, Init, Alerts!AlertsInit, InHand
<1> QED BY <1>1, <1>2, <1>3, <1>4 DEF HourlyInv

-----------------------------------------------------------------------------
\* The confirmation

\* Every step of the hourly run is one of the confirmation's, or leaves it alone.
LEMMA DeliveryStep ==
  ASSUME HourlyInv, [HourlyNext]_hourlyVars
  PROVE  [Next]_vars
<1>1. ASSUME NEW r \in Runs, Begin(r) \/ RunStep(r) \/ Break(r) \/ Crash(r) PROVE [Next]_vars
  <2>1. r \in Workers
    BY RunsAreWorkers
  <2>2. Claim(r) \/ Work(r) \/ Die(r) \/ UNCHANGED vars
    BY <1>1 DEF Begin, RunStep, Break, Crash, FailStep, NothingDue, ClaimInRun, SendInRun, FinishInRun,
       NothingToTell, Work
  <2> QED BY <2>1, <2>2 DEF Next
<1>2. ASSUME NEW s \in Senders, AlertStep(s) PROVE [Next]_vars
  BY <1>2 DEF AlertStep, Tell, RecordAlert, SendAlert
<1>3. ASSUME Elsewhere PROVE [Next]_vars
  BY <1>3 DEF Elsewhere, Next
<1>4. ASSUME EndStep \/ Complete \/ SwitchAlerts \/ UNCHANGED hourlyVars PROVE [Next]_vars
  BY <1>4 DEF EndStep, Complete, SwitchAlerts, hourlyVars
<1>5. ASSUME NEW c \in Commands, StopCommand(c) PROVE [Next]_vars
  BY <1>5 DEF StopCommand
<1> QED BY <1>1, <1>2, <1>3, <1>4, <1>5 DEF HourlyNext

LEMMA DeliveryTypeStep == DeliveryTypeOK /\ [Next]_vars => DeliveryTypeOK'
<1> SUFFICES ASSUME DeliveryTypeOK, [Next]_vars PROVE DeliveryTypeOK'
  OBVIOUS
<1> USE Limits DEF DeliveryTypeOK
<1>1. ASSUME NEW w \in Workers, Claim(w) PROVE DeliveryTypeOK'
  BY <1>1 DEF Claim, Claimable
<1>2. ASSUME NEW w \in Workers, Work(w) PROVE DeliveryTypeOK'
  <2>1. ASSUME NEW end \in Ends, NEW arrived \in BOOLEAN, Send(w, end, arrived) PROVE DeliveryTypeOK'
    BY <2>1 DEF Send
  <2>2. CASE Finish(w)
    BY <2>2 DEF Finish
  <2> QED BY <1>2, <2>1, <2>2 DEF Work
<1>3. ASSUME NEW w \in Workers, Die(w) PROVE DeliveryTypeOK'
  BY <1>3 DEF Die
<1>4. CASE ReleaseStuck
  BY <1>4 DEF ReleaseStuck
<1>5. CASE Retry
  BY <1>5 DEF Retry
<1>6. CASE UNCHANGED vars
  BY <1>6 DEF vars
<1> QED BY <1>1, <1>2, <1>3, <1>4, <1>5, <1>6 DEF Next

-----------------------------------------------------------------------------
\* The digest

\* What happens to it, whoever does it
AlertMove ==
  \/ \E s \in Senders :
       \/ Alerts!Collect(s, Open, enabled)
       \/ \E ok, arrived \in BOOLEAN : Alerts!SendDigest(s, ok, arrived)
       \/ Alerts!RecordDigest(s) \/ Alerts!StopSender(s)
  \/ UNCHANGED alertVars

LEMMA AlertMoves ==
  ASSUME [HourlyNext]_hourlyVars
  PROVE  AlertMove
<1>1. ASSUME NEW r \in Runs, Begin(r) \/ RunStep(r) \/ Break(r) PROVE AlertMove
  BY <1>1 DEF Begin, RunStep, Break, FailStep, NothingDue, ClaimInRun, SendInRun, FinishInRun,
     NothingToTell, AlertMove
<1>2. ASSUME NEW r \in Runs, Crash(r) PROVE AlertMove
  BY <1>2, RunsAreWorkers DEF Crash, AlertMove
<1>3. ASSUME NEW s \in Senders, AlertStep(s) PROVE AlertMove
  BY <1>3 DEF AlertStep, Tell, RecordAlert, SendAlert, AlertMove
<1>4. ASSUME NEW c \in Commands, StopCommand(c) PROVE AlertMove
  BY <1>4 DEF StopCommand, AlertMove, Senders
<1>5. ASSUME EndStep \/ Complete \/ SwitchAlerts \/ Elsewhere \/ UNCHANGED hourlyVars PROVE AlertMove
  BY <1>5 DEF EndStep, Complete, SwitchAlerts, Elsewhere, hourlyVars, AlertMove
<1> QED BY <1>1, <1>2, <1>3, <1>4, <1>5 DEF HourlyNext

LEMMA OpenAreItems == Open \subseteq Items
  BY DEF Open

LEMMA ExcuseType ==
  ASSUME excuses \in 0..MaxExcuses, NEW b \in BOOLEAN, Alerts!Excuse(b)
  PROVE  excuses' \in 0..MaxExcuses
  BY Limits DEF Alerts!Excuse

LEMMA AlertsTypeStep ==
  ASSUME Alerts!AlertsTypeOK, GoneOK, AlertMove
  PROVE  Alerts!AlertsTypeOK' /\ GoneOK'
<1> USE DEF Alerts!AlertsTypeOK, GoneOK
<1>1. ASSUME NEW s \in Senders, Alerts!Collect(s, Open, enabled) PROVE Alerts!AlertsTypeOK' /\ GoneOK'
  <2>1. excuses' \in 0..MaxExcuses
    BY <1>1, ExcuseType DEF Alerts!Collect, Alerts!Overlapping
  <2>2. Open \ alerted \in SUBSET Items /\ Open \ alerted # {}
    BY <1>1, OpenAreItems DEF Alerts!Collect, Alerts!NothingToSend, Alerts!New
  <2> QED BY <1>1, <2>1, <2>2 DEF Alerts!Collect, Alerts!New
<1>2. ASSUME NEW s \in Senders, NEW ok \in BOOLEAN, NEW arrived \in BOOLEAN, Alerts!SendDigest(s, ok, arrived)
      PROVE  Alerts!AlertsTypeOK' /\ GoneOK'
  <2>1. excuses' \in 0..MaxExcuses
    BY <1>2, ExcuseType DEF Alerts!SendDigest
  <2>2. mailed' \in [Items -> Nat]
    BY <1>2 DEF Alerts!SendDigest
  <2> QED BY <1>2, <2>1, <2>2 DEF Alerts!SendDigest
<1>3. ASSUME NEW s \in Senders, Alerts!RecordDigest(s) PROVE Alerts!AlertsTypeOK' /\ GoneOK'
  BY <1>3 DEF Alerts!RecordDigest, Alerts!Forget
<1>4. ASSUME NEW s \in Senders, Alerts!StopSender(s) PROVE Alerts!AlertsTypeOK' /\ GoneOK'
  <2>1. excuses' \in 0..MaxExcuses
    BY <1>4, ExcuseType DEF Alerts!StopSender
  <2> QED BY <1>4, <2>1 DEF Alerts!StopSender, Alerts!Forget
<1>5. CASE UNCHANGED alertVars
  BY <1>5 DEF alertVars
<1> QED BY <1>1, <1>2, <1>3, <1>4, <1>5 DEF AlertMove

-----------------------------------------------------------------------------
\* The run

\* What no run has in hand is no run's concern.
LEMMA HandsFrame ==
  ASSUME InHand, UNCHANGED <<lock, step>>,
         \A r \in Runs : (doing[r] = "idle" => doing'[r] = "idle") /\ (digest[r] = {} => digest'[r] = {})
  PROVE  InHand'
  BY DEF InHand, Confirming, Alerting

LEMMA EmptyHands ==
  ASSUME \A r \in Runs : doing'[r] = "idle" /\ digest'[r] = {}
  PROVE  InHand'
  BY DEF InHand

\* A run that ends its step with nothing in hand, and no other has anything.
LEMMA NobodyElse ==
  ASSUME InHand, NEW r \in Runs, lock = r
  PROVE  \A q \in Runs \ {r} : doing[q] = "idle" /\ digest[q] = {}
  BY DEF InHand, Confirming, Alerting

LEMMA AdvanceFacts ==
  ASSUME RunsOK, step \in 1..8, UNCHANGED <<lock, breaks, enabled>>, step' = step + 1
  PROVE  RunsOK'
  BY DEF RunsOK

LEMMA EndRunFacts ==
  ASSUME RunsOK, EndRun, breaks' \in 0..MaxBreaks, UNCHANGED enabled
  PROVE  RunsOK'
  BY DEF RunsOK, EndRun

LEMMA RunStepKeeps ==
  ASSUME HourlyInv, NEW r \in Runs, RunStep(r)
  PROVE  RunsOK' /\ InHand'
<1>0. RunsOK /\ InHand /\ DeliveryTypeOK /\ r \in Workers
  BY RunsAreWorkers DEF HourlyInv
<1>a. ASSUME lock = r, Advance, UNCHANGED enabled, step \in 1..8, doing'[r] = "idle", digest[r] = {},
             UNCHANGED digest, \A q \in Runs \ {r} : doing'[q] = doing[q]
      PROVE  RunsOK' /\ InHand'
  BY <1>0, <1>a, NobodyElse, EmptyHands, AdvanceFacts DEF Advance
<1>1. ASSUME FailStep(r) PROVE RunsOK' /\ InHand'
  BY <1>0, <1>1, <1>a, StepNames DEF FailStep, Quiet, Advance, vars, alertVars
<1>2. ASSUME NothingDue(r) PROVE RunsOK' /\ InHand'
  <2>1. Confirming(r) /\ digest[r] = {}
    BY <1>0, <1>2, Places DEF NothingDue, InHand, Confirming, Alerting
  <2> QED BY <1>2, <1>a, <2>1 DEF NothingDue, Confirming, vars, alertVars
<1>3. ASSUME ClaimInRun(r) PROVE RunsOK' /\ InHand'
  <2>1. Confirming(r) /\ digest[r] = {} /\ doing[r] = "idle"
    BY <1>0, <1>3, Places DEF ClaimInRun, Claim, InHand, Confirming, Alerting
  <2>2. \A q \in Runs \ {r} : doing'[q] = doing[q]
    BY <1>0, <1>3, RunsAreWorkers DEF ClaimInRun, Claim, DeliveryTypeOK
  <2>3. CASE doing'[r] = "idle"
    BY <1>3, <1>a, <2>1, <2>2, <2>3 DEF ClaimInRun, Confirming, alertVars
  <2>4. CASE doing'[r] # "idle"
    <3>1. UNCHANGED <<lock, step, breaks, enabled, digest>>
      BY <1>3, <2>4 DEF ClaimInRun, runVars, alertVars
    <3>2. RunsOK'
      BY <1>0, <3>1 DEF RunsOK
    <3> QED BY <1>0, <2>1, <2>2, <3>1, <3>2 DEF InHand, Confirming, Alerting
  <2> QED BY <2>3, <2>4
<1>4. ASSUME SendInRun(r) PROVE RunsOK' /\ InHand'
  <2>1. doing[r] # "idle" /\ \A q \in Runs \ {r} : doing'[q] = doing[q]
    BY <1>0, <1>4, RunsAreWorkers DEF SendInRun, Send, DeliveryTypeOK
  <2>2. UNCHANGED <<lock, step, breaks, enabled, digest>>
    BY <1>4 DEF SendInRun, runVars, alertVars
  <2>3. RunsOK'
    BY <1>0, <2>2 DEF RunsOK
  <2> QED BY <1>0, <2>1, <2>2, <2>3 DEF InHand, Confirming, Alerting
<1>5. ASSUME FinishInRun(r) PROVE RunsOK' /\ InHand'
  <2>1. doing[r] # "idle" /\ doing'[r] = "idle" /\ \A q \in Runs \ {r} : doing'[q] = doing[q]
    BY <1>0, <1>5, RunsAreWorkers DEF FinishInRun, Finish, DeliveryTypeOK, Ends
  <2>2. Confirming(r) /\ digest[r] = {}
    BY <1>0, <2>1 DEF InHand, Confirming, Alerting
  <2> QED BY <1>5, <1>a, <2>1, <2>2 DEF FinishInRun, Confirming, alertVars
<1>6. ASSUME NothingToTell(r) PROVE RunsOK' /\ InHand'
  <2>1. Alerting(r) /\ doing[r] = "idle" /\ digest[r] = {}
    BY <1>0, <1>6, Places DEF NothingToTell, InHand, Confirming, Alerting
  <2> QED BY <1>6, <1>a, <2>1 DEF NothingToTell, Alerting, vars, alertVars
<1> QED BY <1>1, <1>2, <1>3, <1>4, <1>5, <1>6 DEF RunStep

LEMMA AlertStepKeeps ==
  ASSUME HourlyInv, NEW s \in Senders, AlertStep(s)
  PROVE  RunsOK' /\ InHand'
<1>0. RunsOK /\ InHand /\ GoneOK /\ Alerts!AlertsTypeOK
  BY DEF HourlyInv
<1>1. UNCHANGED <<doing, enabled>>
  BY DEF AlertStep, Tell, RecordAlert, SendAlert, vars
<1>2. ASSUME NEW q \in Runs \ {s} PROVE digest'[q] = digest[q]
  <2>1. q \in Senders
    BY RunsAreWorkers
  <2> QED BY <1>0, <2>1 DEF AlertStep, Tell, RecordAlert, SendAlert, Alerts!Collect, Alerts!RecordDigest,
          Alerts!SendDigest, Alerts!Forget, Alerts!AlertsTypeOK
<1>a. ASSUME UNCHANGED runVars, s \in Runs => Alerting(s) PROVE RunsOK' /\ InHand'
  <2>1. RunsOK'
    BY <1>0, <1>1, <1>a DEF RunsOK, runVars
  <2> QED BY <1>0, <1>1, <1>2, <1>a, <2>1 DEF InHand, Confirming, Alerting, runVars
<1>b. ASSUME s \in Runs, Alerting(s), Advance, digest'[s] = {} PROVE RunsOK' /\ InHand'
  <2>1. RunsOK'
    BY <1>0, <1>1, <1>b, AdvanceFacts DEF Advance, Alerting
  <2>2. doing[s] = "idle"
    BY <1>0, <1>b DEF InHand, Confirming, Alerting
  <2> QED BY <1>0, <1>1, <1>2, <1>b, <2>1, <2>2, NobodyElse, EmptyHands DEF Alerting
<1>3. ASSUME Tell(s) PROVE RunsOK' /\ InHand'
  BY <1>3, <1>a, Places DEF Tell
<1>4. ASSUME NEW ok \in BOOLEAN, NEW arrived \in BOOLEAN, SendAlert(s, ok, arrived) PROVE RunsOK' /\ InHand'
  <2>1. s \in Runs => Alerting(s)
    BY <1>0, <1>4 DEF SendAlert, Alerts!SendDigest, InHand
  <2>2. CASE s \in Runs /\ ~ok
    <3>1. digest'[s] = {}
      BY <1>0, <1>4, <2>2 DEF SendAlert, Alerts!SendDigest, Alerts!AlertsTypeOK
    <3> QED BY <1>4, <1>b, <2>1, <2>2, <3>1 DEF SendAlert
  <2>3. CASE ~(s \in Runs /\ ~ok)
    BY <1>4, <1>a, <2>1, <2>3 DEF SendAlert
  <2> QED BY <2>2, <2>3
<1>5. ASSUME RecordAlert(s) PROVE RunsOK' /\ InHand'
  <2>1. s \in Runs => Alerting(s)
    BY <1>0, <1>5 DEF RecordAlert, Alerts!RecordDigest, InHand, GoneOK
  <2>2. digest'[s] = {}
    BY <1>0, <1>5 DEF RecordAlert, Alerts!RecordDigest, Alerts!Forget, Alerts!AlertsTypeOK
  <2> QED BY <1>5, <1>a, <1>b, <2>1, <2>2 DEF RecordAlert
<1> QED BY <1>3, <1>4, <1>5 DEF AlertStep

LEMMA RunsStep ==
  ASSUME HourlyInv, [HourlyNext]_hourlyVars
  PROVE  RunsOK' /\ InHand'
<1>0. RunsOK /\ InHand /\ DeliveryTypeOK /\ Alerts!AlertsTypeOK
  BY DEF HourlyInv
<1>a. ASSUME UNCHANGED <<doing, digest>>, lock = NoRun \/ step \notin {3, 8} PROVE InHand'
  <2>1. \A r \in Runs : doing[r] = "idle" /\ digest[r] = {}
    BY <1>0, <1>a, RunsAreWorkers DEF InHand, Confirming, Alerting
  <2> QED BY <1>a, <2>1, EmptyHands
<1>1. ASSUME EndStep PROVE RunsOK' /\ InHand'
  <2>1. step \in 1..8 /\ step \notin {3, 8}
    BY <1>1, StepNames DEF EndStep, Followed
  <2> QED BY <1>0, <1>1, <1>a, <2>1, AdvanceFacts DEF EndStep, Advance, vars, alertVars
<1>2. ASSUME Complete PROVE RunsOK' /\ InHand'
  <2>1. step = 9
    BY <1>2, StepNames DEF Complete
  <2> QED BY <1>0, <1>2, <1>a, <2>1, EndRunFacts DEF Complete, RunsOK, vars, alertVars
<1>3. ASSUME NEW r \in Runs, Begin(r) PROVE RunsOK' /\ InHand'
  <2>1. RunsOK'
    BY <1>0, <1>3, RunsAreWorkers DEF Begin, RunsOK
  <2> QED BY <1>3, <1>a, <2>1 DEF Begin, vars, alertVars
<1>4. ASSUME NEW r \in Runs, Break(r) PROVE RunsOK' /\ InHand'
  <2>1. RunsOK'
    BY <1>0, <1>4, Limits, EndRunFacts DEF Break, RunsOK
  <2>2. \A q \in Runs : doing'[q] = "idle" /\ digest'[q] = {}
    BY <1>0, <1>4, NobodyElse DEF Break, Quiet, vars, alertVars
  <2> QED BY <2>1, <2>2, EmptyHands
<1>5. ASSUME NEW r \in Runs, Crash(r) PROVE RunsOK' /\ InHand'
  <2>0. r \in Workers /\ r \in Senders
    BY RunsAreWorkers
  <2>1. RunsOK'
    BY <1>0, <1>5, Limits, EndRunFacts DEF Crash, RunsOK
  <2>2. doing' = [doing EXCEPT ![r] = "idle"]
    BY <1>0, <1>5, <2>0 DEF Crash, Die, vars, DeliveryTypeOK
  <2>3. digest' = [digest EXCEPT ![r] = {}]
    BY <1>0, <1>5, <2>0 DEF Crash, Alerts!StopSender, Alerts!Forget, alertVars, Alerts!AlertsTypeOK
  <2>4. \A q \in Runs : doing'[q] = "idle" /\ digest'[q] = {}
    BY <1>0, <1>5, <2>2, <2>3, NobodyElse, RunsAreWorkers DEF Crash, DeliveryTypeOK, Alerts!AlertsTypeOK
  <2> QED BY <2>1, <2>4, EmptyHands
<1>6. ASSUME NEW c \in Commands, StopCommand(c) PROVE RunsOK' /\ InHand'
  <2>1. RunsOK'
    BY <1>0, <1>6 DEF StopCommand, runVars, RunsOK
  <2>2. digest' = [digest EXCEPT ![c] = {}] /\ UNCHANGED <<doing, lock, step>>
    BY <1>6 DEF StopCommand, Alerts!StopSender, Alerts!Forget, vars, runVars
  <2>3. \A q \in Runs : digest'[q] = digest[q]
    BY <1>0, <2>2, RunsAreWorkers DEF Alerts!AlertsTypeOK
  <2> QED BY <1>0, <2>1, <2>2, <2>3, HandsFrame
<1>7. ASSUME SwitchAlerts \/ UNCHANGED hourlyVars PROVE RunsOK' /\ InHand'
  <2>1. RunsOK'
    BY <1>0, <1>7 DEF SwitchAlerts, hourlyVars, runVars, RunsOK
  <2> QED BY <1>0, <1>7, <2>1, HandsFrame DEF SwitchAlerts, hourlyVars, runVars, vars, alertVars
<1>8. ASSUME Elsewhere PROVE RunsOK' /\ InHand'
  <2>1. RunsOK'
    BY <1>0, <1>8 DEF Elsewhere, runVars, RunsOK
  <2>2. \A q \in Runs : doing'[q] = doing[q]
    BY <1>0, <1>8, RunsAreWorkers DEF Elsewhere, Claim, Work, Send, Finish, Die, ReleaseStuck, Retry, DeliveryTypeOK
  <2> QED BY <1>0, <1>8, <2>1, <2>2, HandsFrame DEF Elsewhere, runVars, alertVars
<1> QED
  BY <1>1, <1>2, <1>3, <1>4, <1>5, <1>6, <1>7, <1>8, RunStepKeeps, AlertStepKeeps DEF HourlyNext

LEMMA HourlyInvStep == HourlyInv /\ [HourlyNext]_hourlyVars => HourlyInv'
<1> SUFFICES ASSUME HourlyInv, [HourlyNext]_hourlyVars PROVE HourlyInv'
  OBVIOUS
<1>1. DeliveryTypeOK'
  BY DeliveryStep, DeliveryTypeStep DEF HourlyInv
<1>2. Alerts!AlertsTypeOK' /\ GoneOK'
  BY AlertMoves, AlertsTypeStep DEF HourlyInv
<1> QED BY <1>1, <1>2, RunsStep DEF HourlyInv

\* Runs, workers and digests are where they can be; a run that ended has nothing
\* in hand.
THEOREM HourlyTypeCorrect == HourlySpec => []HourlyTypeOK
  BY HourlyInvInit, HourlyInvStep, InvGivesType, PTL DEF HourlySpec

LEMMA HourlyInvAlways == HourlySpec => []HourlyInv
  BY HourlyInvInit, HourlyInvStep, PTL DEF HourlySpec

\* Lock, steps, failures and cut-off runs do nothing to a confirmation that its
\* own specification does not allow.
THEOREM HourlyDelivers == HourlySpec => Init /\ [][Next]_vars
<1>1. HourlyInit => Init
  BY DEF HourlyInit
<1> QED BY <1>1, HourlyInvAlways, DeliveryStep, PTL DEF HourlySpec

-----------------------------------------------------------------------------
\* What the customer gets

\* A worker that holds the outcome "sent" has delivered an e-mail.
SentHere == (\E w \in Workers : doing[w] = "sent") => mails > 0

LEMMA SentStep ==
  ASSUME DeliveryTypeOK, SentHere, SentWasDelivered, [Next]_vars
  PROVE  SentHere' /\ SentWasDelivered'
<1> USE DEF DeliveryTypeOK, SentHere, SentWasDelivered
<1>1. ASSUME NEW w \in Workers, Claim(w) PROVE SentHere' /\ SentWasDelivered'
  BY <1>1 DEF Claim
<1>2. ASSUME NEW w \in Workers, NEW end \in Ends, NEW arrived \in BOOLEAN, Send(w, end, arrived)
      PROVE  SentHere' /\ SentWasDelivered'
  BY <1>2 DEF Send
<1>3. ASSUME NEW w \in Workers, Finish(w) PROVE SentHere' /\ SentWasDelivered'
  BY <1>3 DEF Finish, Ends
<1>4. ASSUME NEW w \in Workers, Die(w) PROVE SentHere' /\ SentWasDelivered'
  BY <1>4 DEF Die
<1>5. CASE ReleaseStuck \/ Retry \/ UNCHANGED vars
  BY <1>5 DEF ReleaseStuck, Retry, vars
<1> QED BY <1>1, <1>2, <1>3, <1>4, <1>5 DEF Next, Work

\* A confirmation counts as sent only when the customer has received one.
THEOREM SentWasDeliveredAlways == HourlySpec => []SentWasDelivered
<1>1. HourlyInit => SentHere /\ SentWasDelivered
  BY DEF HourlyInit, Init, SentHere, SentWasDelivered
<1>2. HourlyInv /\ [HourlyNext]_hourlyVars => [Next]_vars /\ DeliveryTypeOK
  BY DeliveryStep DEF HourlyInv
<1>3. SentHere /\ SentWasDelivered /\ HourlyInv /\ [HourlyNext]_hourlyVars => (SentHere /\ SentWasDelivered)'
  BY <1>2, SentStep
<1> QED BY <1>1, <1>3, HourlyInvAlways, PTL DEF HourlySpec

-----------------------------------------------------------------------------
\* How many e-mails

\* A claim is an e-mail that may still be sent.
Sending == {w \in Workers : doing[w] = "claimed"}
Allowed == MaxSends * retries + count
Budget == mails + Cardinality(Sending) <= Allowed

LEMMA SendingIsFinite == IsFiniteSet(Sending) /\ Cardinality(Sending) \in Nat
<1>1. IsFiniteSet(Sending)
  BY RunsAreWorkers, FS_Subset DEF Sending
<1> QED BY <1>1, FS_CardinalityType

LEMMA AllowedGrows ==
  ASSUME DeliveryTypeOK, [Next]_vars
  PROVE  Allowed \in Nat /\ Allowed' \in Nat /\ Allowed' >= Allowed
<1>0. MaxSends \in Nat /\ count \in 0..MaxSends /\ retries \in Nat
  BY Limits DEF DeliveryTypeOK
<1>1. MaxSends * retries \in Nat /\ MaxSends * (retries + 1) \in Nat
  BY <1>0
<1>2. MaxSends * (retries + 1) = MaxSends * retries + MaxSends
  BY <1>0
<1>3. CASE Retry
  <2>1. Allowed' = MaxSends * (retries + 1)
    BY <1>0, <1>1, <1>3 DEF Retry, Allowed
  <2> QED BY <1>0, <1>1, <1>2, <2>1 DEF Allowed
<1>4. CASE ~Retry
  <2>1. retries' = retries /\ (count' = count \/ count' = count + 1)
    BY <1>4 DEF Next, Work, Claim, Send, Finish, Die, ReleaseStuck, vars
  <2> QED BY <1>0, <1>1, <2>1 DEF Allowed
<1> QED BY <1>3, <1>4

LEMMA BudgetStep ==
  ASSUME DeliveryTypeOK, Budget, [Next]_vars
  PROVE  Budget'
<1>0. mails \in Nat /\ doing \in [Workers -> {"idle", "claimed"} \cup Ends] /\ count \in 0..MaxSends
      /\ retries \in Nat /\ MaxSends * retries \in Nat
  BY Limits DEF DeliveryTypeOK
<1>1. Cardinality(Sending) \in Nat /\ Cardinality(Sending') \in Nat /\ IsFiniteSet(Sending)
      /\ IsFiniteSet(Sending')
  <2>1. IsFiniteSet(Sending')
    BY RunsAreWorkers, FS_Subset DEF Sending
  <2> QED BY <2>1, SendingIsFinite, FS_CardinalityType
<1>2. Allowed \in Nat /\ Allowed' \in Nat /\ Allowed' >= Allowed
  BY AllowedGrows
<1>3. ASSUME mails' = mails, Sending' \subseteq Sending PROVE Budget'
  <2>1. Cardinality(Sending') <= Cardinality(Sending)
    BY <1>1, <1>3, FS_Subset
  <2> QED BY <1>0, <1>1, <1>2, <1>3, <2>1 DEF Budget
<1>4. ASSUME NEW w \in Workers, Claim(w) PROVE Budget'
  <2>1. CASE count >= MaxSends
    <3>1. Sending' \subseteq Sending /\ mails' = mails
      BY <1>4, <2>1 DEF Claim, Sending
    <3> QED BY <1>3, <3>1
  <2>2. CASE count < MaxSends
    <3>1. Sending' = Sending \cup {w} /\ mails' = mails /\ w \notin Sending
      BY <1>0, <1>4, <2>2, Limits DEF Claim, Sending
    <3>2. Cardinality(Sending') = Cardinality(Sending) + 1
      BY <1>1, <3>1, FS_AddElement
    <3>3. Allowed' = Allowed + 1
      BY <1>0, <1>4, <2>2, Limits DEF Claim, Allowed
    <3> QED BY <1>0, <1>1, <1>2, <3>1, <3>2, <3>3 DEF Budget
  <2> QED BY <1>0, <2>1, <2>2, Limits
<1>5. ASSUME NEW w \in Workers, NEW end \in Ends, NEW arrived \in BOOLEAN, Send(w, end, arrived)
      PROVE  Budget'
  <2>1. Sending' = Sending \ {w} /\ w \in Sending
    BY <1>0, <1>5 DEF Send, Sending, Ends
  <2>2. Cardinality(Sending') = Cardinality(Sending) - 1
    BY <1>1, <2>1, FS_RemoveElement
  <2>3. mails' \in Nat /\ mails' <= mails + 1
    BY <1>0, <1>5 DEF Send
  <2> QED BY <1>0, <1>1, <1>2, <2>2, <2>3 DEF Budget
<1>6. ASSUME NEW w \in Workers, Finish(w) \/ Die(w) PROVE Budget'
  <2>1. Sending' \subseteq Sending /\ mails' = mails
    BY <1>0, <1>6 DEF Finish, Die, Sending
  <2> QED BY <1>3, <2>1
<1>7. CASE ReleaseStuck \/ Retry \/ UNCHANGED vars
  <2>1. Sending' = Sending /\ mails' = mails
    BY <1>7 DEF ReleaseStuck, Retry, vars, Sending
  <2> QED BY <1>3, <2>1
<1> QED BY <1>4, <1>5, <1>6, <1>7 DEF Next, Work

LEMMA BudgetBounds ==
  ASSUME DeliveryTypeOK, Budget
  PROVE  MailsAreBounded
<1>1. MaxSends \in Nat /\ count \in 0..MaxSends /\ retries \in Nat /\ mails \in Nat
  BY Limits DEF DeliveryTypeOK
<1>2. MaxSends * retries \in Nat /\ MaxSends * (retries + 1) = MaxSends * retries + MaxSends
  BY <1>1
<1> QED BY <1>1, <1>2, SendingIsFinite DEF Budget, Allowed, MailsAreBounded

\* The customer gets no more e-mails than the attempts of each request for one
\* allow, however claims, crashes, releases and outdated results interleave.
THEOREM MailsAreBoundedAlways == HourlySpec => []MailsAreBounded
<1>1. HourlyInit => Budget
  <2> SUFFICES ASSUME HourlyInit PROVE Budget
    OBVIOUS
  <2>1. Sending = {}
    BY DEF HourlyInit, Init, Sending
  <2>2. mails = 0 /\ count = 0 /\ retries = 0
    BY DEF HourlyInit, Init
  <2>3. MaxSends * retries = 0
    BY <2>2, Limits
  <2> QED BY <2>1, <2>2, <2>3, FS_EmptySet DEF Budget, Allowed
<1>2. HourlyInv /\ [HourlyNext]_hourlyVars => [Next]_vars /\ DeliveryTypeOK
  BY DeliveryStep DEF HourlyInv
<1>3. Budget /\ HourlyInv /\ [HourlyNext]_hourlyVars => Budget'
  BY <1>2, BudgetStep
<1>4. Budget /\ HourlyInv => MailsAreBounded
  BY BudgetBounds DEF HourlyInv
<1> QED BY <1>1, <1>3, <1>4, HourlyInvAlways, PTL DEF HourlySpec

-----------------------------------------------------------------------------
\* What the team gets

\* A digest that was accepted has arrived.
GoneArrived == \A s \in Senders : gone[s] => \A k \in digest[s] : mailed[k] > 0
Told == GoneArrived /\ AlertedWasMailed

LEMMA ToldStep ==
  ASSUME Alerts!AlertsTypeOK, GoneOK, Told, AlertMove
  PROVE  Told'
<1> USE DEF Alerts!AlertsTypeOK, Told, GoneArrived, AlertedWasMailed, Alerts!AlertedWasMailed
<1>1. ASSUME NEW s \in Senders, Alerts!Collect(s, Open, enabled) PROVE Told'
  BY <1>1 DEF Alerts!Collect, GoneOK
<1>2. ASSUME NEW s \in Senders, NEW ok \in BOOLEAN, NEW arrived \in BOOLEAN, Alerts!SendDigest(s, ok, arrived)
      PROVE  Told'
  <2>1. \A k \in Items : mailed'[k] >= mailed[k] /\ (ok /\ k \in digest[s] => mailed'[k] > 0)
    BY <1>2 DEF Alerts!SendDigest
  <2>2. alerted' = alerted /\ \A q \in Senders : digest'[q] \subseteq digest[q]
    BY <1>2 DEF Alerts!SendDigest
  <2>3. \A q \in Senders : gone'[q] => gone[q] \/ (q = s /\ ok)
    BY <1>2 DEF Alerts!SendDigest
  <2>4. mailed' \in [Items -> Nat]
    BY <1>2 DEF Alerts!SendDigest
  <2>5. GoneArrived'
    <3> SUFFICES ASSUME NEW q \in Senders, gone'[q], NEW k \in digest'[q] PROVE mailed'[k] > 0
      OBVIOUS
    <3>1. k \in digest[q] /\ k \in Items /\ mailed[k] \in Nat /\ mailed'[k] \in Nat
      BY <2>1, <2>2, <2>4
    <3>2. CASE gone[q]
      <4>1. mailed[k] > 0
        BY <3>1, <3>2
      <4> QED BY <2>1, <3>1, <4>1
    <3>3. CASE ~gone[q]
      <4>1. q = s /\ ok
        BY <2>3, <3>3
      <4> QED BY <2>1, <3>1, <4>1
    <3> QED BY <3>2, <3>3
  <2>6. AlertedWasMailed'
    BY <2>1, <2>2, <2>4
  <2> QED BY <2>5, <2>6
<1>3. ASSUME NEW s \in Senders, Alerts!RecordDigest(s) PROVE Told'
  BY <1>3 DEF Alerts!RecordDigest, Alerts!Forget
<1>4. ASSUME NEW s \in Senders, Alerts!StopSender(s) PROVE Told'
  BY <1>4 DEF Alerts!StopSender, Alerts!Forget
<1>5. CASE UNCHANGED alertVars
  BY <1>5 DEF alertVars
<1> QED BY <1>1, <1>2, <1>3, <1>4, <1>5 DEF AlertMove

LEMMA HourlyAlerts == HourlyInv /\ [HourlyNext]_hourlyVars => AlertMove /\ Alerts!AlertsTypeOK /\ GoneOK
  BY AlertMoves DEF HourlyInv

\* What is recorded as told to the team was e-mailed to it.
THEOREM AlertedWasMailedAlways == HourlySpec => []AlertedWasMailed
<1>1. HourlyInit => Told
  BY DEF HourlyInit, Alerts!AlertsInit, Told, GoneArrived, AlertedWasMailed, Alerts!AlertedWasMailed
<1>2. Told /\ HourlyInv /\ [HourlyNext]_hourlyVars => Told'
  BY ToldStep, HourlyAlerts
<1>3. Told => AlertedWasMailed
  BY DEF Told
<1> QED BY <1>1, <1>2, <1>3, HourlyInvAlways, PTL DEF HourlySpec

-----------------------------------------------------------------------------
\* How often the team is told

\* The digests on their way that name an item: each may still arrive.
OnTheWay(k) == {s \in Senders : k \in digest[s] /\ ~gone[s]}

\* Nobody is telling, and nobody has recorded, the item.
Untold(k) == k \notin alerted /\ \A s \in Senders : k \notin digest[s]

Tellings(k) ==
  /\ mailed[k] + Cardinality(OnTheWay(k)) <= 1 + excuses
  /\ Untold(k) => mailed[k] <= excuses

LEMMA OnTheWayIsFinite ==
  ASSUME NEW k
  PROVE  /\ IsFiniteSet(OnTheWay(k)) /\ Cardinality(OnTheWay(k)) \in Nat
         /\ IsFiniteSet(OnTheWay(k)') /\ Cardinality(OnTheWay(k)') \in Nat
<1>1. OnTheWay(k) \subseteq Senders /\ OnTheWay(k)' \subseteq Senders
  BY DEF OnTheWay
<1>2. IsFiniteSet(OnTheWay(k)) /\ IsFiniteSet(OnTheWay(k)')
  BY <1>1, RunsAreWorkers, FS_Subset
<1> QED BY <1>2, FS_CardinalityType

LEMMA ExcuseCounts ==
  ASSUME excuses \in 0..MaxExcuses, NEW b \in BOOLEAN, Alerts!Excuse(b)
  PROVE  /\ excuses \in Nat /\ excuses' \in Nat /\ excuses' >= excuses
         /\ b => excuses' = excuses + 1
  BY Limits DEF Alerts!Excuse

\* A digest that leaves the way makes room for one e-mail.
LEMMA OffTheWay ==
  ASSUME NEW k, NEW s \in OnTheWay(k), OnTheWay(k)' = OnTheWay(k) \ {s}
  PROVE  Cardinality(OnTheWay(k)') = Cardinality(OnTheWay(k)) - 1
  BY OnTheWayIsFinite, FS_RemoveElement

LEMMA CollectTells ==
  ASSUME Alerts!AlertsTypeOK, GoneOK, NEW k \in Items, Tellings(k),
         NEW s \in Senders, Alerts!Collect(s, Open, enabled)
  PROVE  Tellings(k)'
<1> USE DEF Alerts!AlertsTypeOK
<1>1. Alerts!Excuse(Alerts!Overlapping(s)) /\ UNCHANGED <<alerted, gone, mailed>> /\ digest[s] = {} /\ ~gone[s]
  BY DEF Alerts!Collect, GoneOK
<1>2. digest' = [digest EXCEPT ![s] = Open \ alerted]
  BY DEF Alerts!Collect, Alerts!New
<1>3. /\ excuses \in Nat /\ excuses' \in Nat /\ excuses' >= excuses
      /\ Alerts!Overlapping(s) => excuses' = excuses + 1
  <2>1. Alerts!Overlapping(s) \in BOOLEAN
    BY DEF Alerts!Overlapping
  <2> QED BY <1>1, <2>1, ExcuseCounts
<1>4. mailed[k] \in Nat /\ mailed'[k] = mailed[k]
  BY <1>1
<1>5. CASE k \in Open \ alerted
  <2>1. OnTheWay(k)' = OnTheWay(k) \cup {s} /\ s \notin OnTheWay(k)
    BY <1>1, <1>2, <1>5 DEF OnTheWay
  <2>2. Cardinality(OnTheWay(k)') = Cardinality(OnTheWay(k)) + 1
    BY <2>1, OnTheWayIsFinite, FS_AddElement
  <2>3. ~Untold(k)'
    BY <1>2, <1>5 DEF Untold
  <2>4. CASE Alerts!Overlapping(s)
    BY <1>3, <1>4, <2>2, <2>3, <2>4, OnTheWayIsFinite DEF Tellings
  <2>5. CASE ~Alerts!Overlapping(s)
    <3>1. \A q \in Senders : digest[q] = {}
      BY <1>1, <2>5 DEF Alerts!Overlapping
    <3>2. Untold(k) /\ OnTheWay(k) = {}
      BY <1>5, <3>1 DEF Untold, OnTheWay
    <3>3. Cardinality(OnTheWay(k)) = 0
      BY <3>2, FS_EmptySet
    <3> QED BY <1>3, <1>4, <2>2, <2>3, <3>2, <3>3 DEF Tellings
  <2> QED BY <2>4, <2>5
<1>6. CASE k \notin Open \ alerted
  <2>1. OnTheWay(k)' = OnTheWay(k)
    BY <1>1, <1>2, <1>6 DEF OnTheWay
  <2>2. Untold(k)' => Untold(k)
    BY <1>1, <1>2, <1>6 DEF Untold
  <2> QED BY <1>3, <1>4, <2>1, <2>2, OnTheWayIsFinite DEF Tellings
<1> QED BY <1>5, <1>6

LEMMA SendTells ==
  ASSUME Alerts!AlertsTypeOK, GoneOK, NEW k \in Items, Tellings(k),
         NEW s \in Senders, NEW ok \in BOOLEAN, NEW arrived \in BOOLEAN, Alerts!SendDigest(s, ok, arrived)
  PROVE  Tellings(k)'
<1> USE DEF Alerts!AlertsTypeOK
<1>1. /\ ~gone[s] /\ (ok => arrived) /\ alerted' = alerted /\ Alerts!Excuse(arrived /\ ~ok)
      /\ gone' = [gone EXCEPT ![s] = ok]
      /\ digest' = IF ok THEN digest ELSE [digest EXCEPT ![s] = {}]
  BY DEF Alerts!SendDigest
<1>2. mailed'[k] = IF arrived /\ k \in digest[s] THEN mailed[k] + 1 ELSE mailed[k]
  BY DEF Alerts!SendDigest
<1>3. /\ excuses \in Nat /\ excuses' \in Nat /\ excuses' >= excuses
      /\ (arrived /\ ~ok) => excuses' = excuses + 1
  BY <1>1, ExcuseCounts
<1>4. mailed[k] \in Nat
  OBVIOUS
<1>5. CASE k \in digest[s]
  <2>1. OnTheWay(k)' = OnTheWay(k) \ {s} /\ s \in OnTheWay(k)
    BY <1>1, <1>5 DEF OnTheWay
  <2>2. Cardinality(OnTheWay(k)') = Cardinality(OnTheWay(k)) - 1
    BY <2>1, OffTheWay
  <2>3. ok => ~Untold(k)'
    BY <1>1, <1>5 DEF Untold
  <2>4. CASE ok
    BY <1>1, <1>2, <1>3, <1>4, <1>5, <2>2, <2>3, <2>4, OnTheWayIsFinite DEF Tellings
  <2>5. CASE ~ok
    BY <1>1, <1>2, <1>3, <1>4, <1>5, <2>2, <2>5, OnTheWayIsFinite DEF Tellings
  <2> QED BY <2>4, <2>5
<1>6. CASE k \notin digest[s]
  <2>1. OnTheWay(k)' = OnTheWay(k)
    BY <1>1, <1>6 DEF OnTheWay
  <2>2. Untold(k)' => Untold(k)
    BY <1>1, <1>6 DEF Untold
  <2> QED BY <1>2, <1>3, <1>4, <1>6, <2>1, <2>2, OnTheWayIsFinite DEF Tellings
<1> QED BY <1>5, <1>6

LEMMA RecordTells ==
  ASSUME Alerts!AlertsTypeOK, NEW k \in Items, Tellings(k), NEW s \in Senders, Alerts!RecordDigest(s)
  PROVE  Tellings(k)'
<1> USE DEF Alerts!AlertsTypeOK
<1>1. gone[s] /\ alerted' = alerted \cup digest[s] /\ UNCHANGED <<mailed, excuses>>
  BY DEF Alerts!RecordDigest
<1>2. digest' = [digest EXCEPT ![s] = {}] /\ gone' = [gone EXCEPT ![s] = FALSE]
  BY DEF Alerts!RecordDigest, Alerts!Forget
<1>3. OnTheWay(k)' = OnTheWay(k)
  BY <1>1, <1>2 DEF OnTheWay
<1>4. Untold(k)' => Untold(k)
  BY <1>1, <1>2 DEF Untold
<1> QED BY <1>1, <1>3, <1>4 DEF Tellings

LEMMA StopTells ==
  ASSUME Alerts!AlertsTypeOK, NEW k \in Items, Tellings(k), NEW s \in Senders, Alerts!StopSender(s)
  PROVE  Tellings(k)'
<1> USE DEF Alerts!AlertsTypeOK
<1>1. Alerts!Excuse(gone[s]) /\ UNCHANGED <<alerted, mailed>>
  BY DEF Alerts!StopSender
<1>2. digest' = [digest EXCEPT ![s] = {}] /\ gone' = [gone EXCEPT ![s] = FALSE]
  BY DEF Alerts!StopSender, Alerts!Forget
<1>3. /\ excuses \in Nat /\ excuses' \in Nat /\ excuses' >= excuses /\ mailed[k] \in Nat
      /\ gone[s] => excuses' = excuses + 1
  BY <1>1, ExcuseCounts
<1>4. CASE k \in digest[s] /\ ~gone[s]
  <2>1. OnTheWay(k)' = OnTheWay(k) \ {s} /\ s \in OnTheWay(k)
    BY <1>2, <1>4 DEF OnTheWay
  <2>2. Cardinality(OnTheWay(k)') = Cardinality(OnTheWay(k)) - 1
    BY <2>1, OffTheWay
  <2> QED BY <1>1, <1>3, <2>2, OnTheWayIsFinite DEF Tellings
<1>5. CASE gone[s]
  <2>1. OnTheWay(k)' = OnTheWay(k)
    BY <1>2, <1>5 DEF OnTheWay
  <2> QED BY <1>1, <1>3, <1>5, <2>1, OnTheWayIsFinite DEF Tellings
<1>6. CASE k \notin digest[s]
  <2>1. OnTheWay(k)' = OnTheWay(k)
    BY <1>2, <1>6 DEF OnTheWay
  <2>2. Untold(k)' => Untold(k)
    BY <1>1, <1>2, <1>6 DEF Untold
  <2> QED BY <1>1, <1>3, <2>1, <2>2, OnTheWayIsFinite DEF Tellings
<1> QED BY <1>4, <1>5, <1>6

TellingsOK == \A k \in Items : Tellings(k)

LEMMA TellingsStep ==
  ASSUME Alerts!AlertsTypeOK, GoneOK, TellingsOK, AlertMove
  PROVE  TellingsOK'
<1>1. ASSUME NEW k \in Items PROVE Tellings(k)'
  <2>0. Tellings(k)
    BY DEF TellingsOK
  <2>1. CASE UNCHANGED alertVars
    <3>1. UNCHANGED <<OnTheWay(k), Untold(k), mailed, excuses>>
      BY <2>1 DEF alertVars, OnTheWay, Untold
    <3> QED BY <2>0, <3>1 DEF Tellings
  <2> QED BY <2>0, <2>1, CollectTells, SendTells, RecordTells, StopTells DEF AlertMove
<1> QED BY <1>1 DEF TellingsOK, Items

\* The team is told of an item once, and once more for each digest that was cut
\* off before its record, arrived although it failed, or overlapped another.
THEOREM DigestsDoNotRepeatAlways == HourlySpec => []DigestsDoNotRepeat
<1>1. HourlyInit => TellingsOK
  <2> SUFFICES ASSUME HourlyInit, NEW k \in Items PROVE Tellings(k)
    BY DEF TellingsOK
  <2>1. OnTheWay(k) = {} /\ mailed[k] = 0 /\ excuses = 0
    BY DEF HourlyInit, Alerts!AlertsInit, OnTheWay
  <2> QED BY <2>1, FS_EmptySet DEF Tellings
<1>2. TellingsOK /\ HourlyInv /\ [HourlyNext]_hourlyVars => TellingsOK'
  BY TellingsStep, HourlyAlerts
<1>3. TellingsOK /\ HourlyInv => DigestsDoNotRepeat
  <2> SUFFICES ASSUME TellingsOK, HourlyInv, NEW k \in Items PROVE mailed[k] <= 1 + excuses
    BY DEF DigestsDoNotRepeat, Alerts!DigestsDoNotRepeat
  <2>1. Tellings(k) /\ mailed[k] \in Nat /\ excuses \in Nat
    BY Limits DEF TellingsOK, HourlyInv, Alerts!AlertsTypeOK
  <2> QED BY <2>1, OnTheWayIsFinite DEF Tellings
<1> QED BY <1>1, <1>2, <1>3, HourlyInvAlways, PTL DEF HourlySpec
=============================================================================
