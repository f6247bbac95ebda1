--------------------------- MODULE Reminders_proofs ---------------------------
(***************************************************************************)
(* Proofs about the reminders of one installment, for any number of        *)
(* collectors and tries: what is marked sent was mailed, and a kind is     *)
(* mailed twice only when something happened that excuses it.              *)
(***************************************************************************)
EXTENDS Reminders, TLAPS

Jobs == [at : Points, kind : Kinds, to : BOOLEAN, tries : 0..MaxTries, ok : BOOLEAN]

Sending(c, k) == job[c].kind = k /\ job[c].at = "send"
Saving(c, k) == job[c].kind = k /\ job[c].at = "save"
Busy(c, k) == Sending(c, k) \/ Saving(c, k)

\* A collector about to send has a try left.
TryIsLeft == \A c \in Collectors : job[c].at # "save" => job[c].tries < MaxTries

\* A send that returned was received.
OkIsMailed == \A c \in Collectors : job[c].at = "save" /\ job[c].ok => mails[job[c].kind] > 0

TypeInv == RemindersTypeOK /\ TryIsLeft
MailedInv == OkIsMailed /\ SentWasMailed

\* While nothing excuses a repetition, one collector at a time has the row in
\* hand, and between collectors the row tells whether the e-mail went out.
Once(k) ==
  /\ mails[k] <= 1
  /\ \A c, d \in Collectors : Busy(c, k) /\ Busy(d, k) => c = d
  /\ \A c \in Collectors : Sending(c, k) => mails[k] = 0
  /\ \A c \in Collectors : Saving(c, k) => mails[k] = IF job[c].ok THEN 1 ELSE 0
  /\ mails[k] > 0 /\ (\A c \in Collectors : ~Saving(c, k)) => row[k] = "SENT"
  /\ row[k] = "NONE" => \A c \in Collectors : ~Busy(c, k)

OnceInv == \A k \in Kinds \ excused : Once(k)

LEMMA TriesAreNat == MaxTries \in Nat /\ MaxTries > 0
  BY RemindersAssumption DEF RemindersAssumption

-----------------------------------------------------------------------------
\* What the steps do to the jobs

LEMMA GotoFacts ==
  ASSUME TypeInv, NEW c \in Collectors, NEW pt \in Points, Goto(c, pt)
  PROVE  /\ job' \in [Collectors -> Jobs]
         /\ job'[c] = [job[c] EXCEPT !.at = pt]
         /\ \A d \in Collectors \ {c} : job'[d] = job[d]
<1>1. job \in [Collectors -> Jobs]
  BY DEF TypeInv, RemindersTypeOK, Jobs
<1>2. [job[c] EXCEPT !.at = pt] \in Jobs
  BY <1>1 DEF Jobs
<1>3. job' = [job EXCEPT ![c] = [job[c] EXCEPT !.at = pt]]
  BY DEF Goto
<1> QED BY <1>1, <1>2, <1>3

LEMMA NewJobFacts ==
  ASSUME TypeInv, NEW c \in Collectors, NEW j \in Jobs, job' = [job EXCEPT ![c] = j]
  PROVE  /\ job' \in [Collectors -> Jobs]
         /\ job'[c] = j
         /\ \A d \in Collectors \ {c} : job'[d] = job[d]
<1>1. job \in [Collectors -> Jobs]
  BY DEF TypeInv, RemindersTypeOK, Jobs
<1> QED BY <1>1

LEMMA IdleIsJob == Idle \in Jobs /\ Idle.at = "idle" /\ Idle.tries = 0
  BY TriesAreNat DEF Idle, Jobs, Points, Kinds

LEMMA RestFacts ==
  ASSUME TypeInv, NEW c \in Collectors, Rest(c)
  PROVE  /\ job' \in [Collectors -> Jobs]
         /\ job'[c] = Idle
         /\ \A d \in Collectors \ {c} : job'[d] = job[d]
  BY IdleIsJob, NewJobFacts DEF Rest

\* Steps that touch no job, row, try or mail
Outside == NextDay \/ CloseSale \/ StaffActs \/ UNCHANGED vars

\* Steps that pick a job or give it up before the row is in hand
Before(c) ==
  \/ Select(c) \/ SelectOverdue(c) \/ Freeze(c) \/ FreezeRefused(c)

\* Every step is one of these.
LEMMA StepKinds ==
  ASSUME [Next]_vars
  PROVE  \/ Outside
         \/ \E c \in Collectors :
               \/ Before(c) \/ Look(c) \/ Create(c) \/ Skip(c) \/ Save(c) \/ Stop(c)
               \/ \E ok, arrived \in BOOLEAN : Send(c, ok, arrived)
  BY DEF Next, Work, Mail, Outside, Before

LEMMA OutsideFacts ==
  ASSUME TypeInv, Outside
  PROVE  /\ UNCHANGED <<row, tries, job, mails, excused>>
         /\ day' \in Days /\ sale' \in {"collectable", "frozen", "closed"}
         /\ marked' \in BOOLEAN /\ address' \in BOOLEAN
  BY DEF TypeInv, RemindersTypeOK, Outside, NextDay, CloseSale, StaffActs, vars, facts, Days

LEMMA SelectedFacts ==
  ASSUME TypeInv, NEW c \in Collectors, NEW j \in Jobs, job' = [job EXCEPT ![c] = j],
         j.at \notin {"send", "save"}, j.tries = 0
  PROVE  /\ job' \in [Collectors -> Jobs]
         /\ job'[c].at \notin {"send", "save"} /\ job'[c].tries < MaxTries
         /\ \A d \in Collectors \ {c} : job'[d] = job[d]
  BY NewJobFacts, TriesAreNat

LEMMA BeforeFacts ==
  ASSUME TypeInv, NEW c \in Collectors, Before(c)
  PROVE  /\ job' \in [Collectors -> Jobs]
         /\ job[c].at \notin {"send", "save"}
         /\ job'[c].at \notin {"send", "save"} /\ job'[c].tries < MaxTries
         /\ \A d \in Collectors \ {c} : job'[d] = job[d]
         /\ UNCHANGED <<day, address, row, tries, mails, excused>>
         /\ sale' \in {"collectable", "frozen", "closed"} /\ marked' \in BOOLEAN
<1>0. address \in BOOLEAN /\ sale \in {"collectable", "frozen", "closed"} /\ marked \in BOOLEAN
  BY DEF TypeInv, RemindersTypeOK
<1>1. CASE Select(c)
  <2>1. [Idle EXCEPT !.at = "look", !.kind = DueKind, !.to = address] \in Jobs
    BY <1>0, IdleIsJob DEF Jobs, Points, Kinds, DueKind
  <2>2. /\ [Idle EXCEPT !.at = "look", !.kind = DueKind, !.to = address].at = "look"
        /\ [Idle EXCEPT !.at = "look", !.kind = DueKind, !.to = address].tries = 0
    BY DEF Idle
  <2> QED BY <1>0, <1>1, <2>1, <2>2, SelectedFacts DEF Select, At, facts
<1>2. CASE SelectOverdue(c)
  <2>1. [Idle EXCEPT !.at = "freeze", !.kind = "SUSPENDED"] \in Jobs
    BY IdleIsJob DEF Jobs, Points, Kinds
  <2>2. /\ [Idle EXCEPT !.at = "freeze", !.kind = "SUSPENDED"].at = "freeze"
        /\ [Idle EXCEPT !.at = "freeze", !.kind = "SUSPENDED"].tries = 0
    BY DEF Idle
  <2> QED BY <1>0, <1>2, <2>1, <2>2, SelectedFacts DEF SelectOverdue, At, facts
<1>3. CASE Freeze(c)
  <2>1. job[c] \in Jobs /\ job[c].tries < MaxTries /\ job[c].at = "freeze"
    BY <1>3 DEF TypeInv, RemindersTypeOK, TryIsLeft, Jobs, Freeze, At
  <2> DEFINE j == [job[c] EXCEPT !.at = "create", !.to = address]
  <2>2. j \in Jobs /\ j.at = "create" /\ j.tries = job[c].tries
    BY <1>0, <2>1 DEF Jobs, Points
  <2>3. job' = [job EXCEPT ![c] = j]
    BY <1>3 DEF Freeze
  <2> HIDE DEF j
  <2>4. job' \in [Collectors -> Jobs] /\ job'[c] = j /\ \A d \in Collectors \ {c} : job'[d] = job[d]
    BY <2>2, <2>3, NewJobFacts
  <2> QED BY <1>0, <1>3, <2>1, <2>2, <2>4 DEF Freeze
<1>4. CASE FreezeRefused(c)
  BY <1>0, <1>4, RestFacts, IdleIsJob, TriesAreNat DEF FreezeRefused, At, facts
<1> QED BY <1>1, <1>2, <1>3, <1>4 DEF Before

LEMMA LookFacts ==
  ASSUME TypeInv, NEW c \in Collectors, Look(c)
  PROVE  /\ job' \in [Collectors -> Jobs]
         /\ \A d \in Collectors \ {c} : job'[d] = job[d]
         /\ job[c].at = "look" /\ job'[c].tries < MaxTries
         /\ UNCHANGED <<facts, row, tries, mails>>
         /\ \/ job'[c].at \in {"create", "idle"} /\ excused' = excused
            \/ /\ job'[c].at = "send" /\ job'[c].kind = job[c].kind /\ row[job[c].kind] = "FAILED"
               /\ excused' = IF Overlapping(c) THEN excused \cup {job[c].kind} ELSE excused
<1>1. job[c] \in Jobs /\ job[c].tries < MaxTries /\ job[c].at = "look"
  BY DEF TypeInv, RemindersTypeOK, TryIsLeft, Jobs, Look, At
<1>2. CASE Retryable(Kind(c))
  <2> DEFINE j == [job[c] EXCEPT !.at = "send", !.tries = tries[Kind(c)]]
  <2>1. tries[Kind(c)] \in 0..MaxTries /\ tries[Kind(c)] < MaxTries /\ row[Kind(c)] = "FAILED"
    BY <1>1, <1>2 DEF Retryable, TypeInv, RemindersTypeOK, Kind, Jobs
  <2>2. j \in Jobs /\ j.at = "send" /\ j.tries < MaxTries /\ j.kind = job[c].kind
    BY <1>1, <2>1 DEF Jobs, Points
  <2>3. job' = [job EXCEPT ![c] = j]
    BY <1>2 DEF Look
  <2> HIDE DEF j
  <2>4. job' \in [Collectors -> Jobs] /\ job'[c] = j /\ \A d \in Collectors \ {c} : job'[d] = job[d]
    BY <2>2, <2>3, NewJobFacts
  <2> QED BY <1>1, <1>2, <2>1, <2>2, <2>4 DEF Look, Excuse, Kind
<1>3. CASE ~Retryable(Kind(c)) /\ Goto(c, "create")
  <2>1. "create" \in Points
    BY DEF Points
  <2>2. /\ job' \in [Collectors -> Jobs] /\ job'[c] = [job[c] EXCEPT !.at = "create"]
        /\ \A d \in Collectors \ {c} : job'[d] = job[d]
    BY <1>3, <2>1, GotoFacts
  <2>3. job'[c].at = "create" /\ job'[c].tries = job[c].tries
    BY <1>1, <2>2 DEF Jobs
  <2> QED BY <1>1, <1>3, <2>2, <2>3 DEF Look
<1>4. CASE ~Retryable(Kind(c)) /\ Rest(c)
  <2>1. job'[c].at = "idle" /\ job'[c].tries = 0
    BY <1>4, RestFacts, IdleIsJob
  <2> QED BY <1>1, <1>4, <2>1, RestFacts, TriesAreNat DEF Look
<1> QED BY <1>2, <1>3, <1>4 DEF Look

LEMMA CreateFacts ==
  ASSUME TypeInv, NEW c \in Collectors, Create(c)
  PROVE  /\ job' \in [Collectors -> Jobs]
         /\ \A d \in Collectors \ {c} : job'[d] = job[d]
         /\ job[c].at = "create" /\ job'[c].tries < MaxTries /\ job[c].kind \in Kinds
         /\ UNCHANGED <<facts, tries, mails, excused>>
         /\ \/ job'[c].at = "idle" /\ UNCHANGED row
            \/ /\ job'[c].at = "send" /\ job'[c].kind = job[c].kind
               /\ row[job[c].kind] = "NONE" /\ row' = [row EXCEPT ![job[c].kind] = "FAILED"]
<1>1. job[c] \in Jobs /\ job[c].tries < MaxTries /\ job[c].at = "create" /\ job[c].kind \in Kinds
  BY DEF TypeInv, RemindersTypeOK, TryIsLeft, Jobs, Create, At
<1>2. CASE row[Kind(c)] = "NONE"
  <2>1. "send" \in Points /\ Goto(c, "send")
    BY <1>2 DEF Points, Create
  <2>2. /\ job' \in [Collectors -> Jobs] /\ job'[c] = [job[c] EXCEPT !.at = "send"]
        /\ \A d \in Collectors \ {c} : job'[d] = job[d]
    BY <2>1, GotoFacts
  <2>3. job'[c].at = "send" /\ job'[c].tries = job[c].tries /\ job'[c].kind = job[c].kind
    BY <1>1, <2>2 DEF Jobs
  <2> QED BY <1>1, <1>2, <2>2, <2>3 DEF Create, Kind
<1>3. CASE row[Kind(c)] # "NONE"
  <2>1. Rest(c) /\ UNCHANGED row
    BY <1>3 DEF Create
  <2>2. job'[c].at = "idle" /\ job'[c].tries = 0
    BY <2>1, RestFacts, IdleIsJob
  <2> QED BY <1>1, <2>1, <2>2, RestFacts, TriesAreNat DEF Create
<1> QED BY <1>2, <1>3

LEMMA SendFacts ==
  ASSUME TypeInv, NEW c \in Collectors, NEW ok \in BOOLEAN, NEW arrived \in BOOLEAN, Send(c, ok, arrived)
  PROVE  /\ job' \in [Collectors -> Jobs]
         /\ \A d \in Collectors \ {c} : job'[d] = job[d]
         /\ job[c].at = "send" /\ job'[c].at = "save" /\ job'[c].kind = job[c].kind
         /\ job'[c].ok = ok /\ job[c].kind \in Kinds
<1>1. /\ job[c] \in Jobs /\ job[c].tries \in 0..MaxTries /\ job[c].tries < MaxTries
      /\ job[c].at = "send" /\ job[c].kind \in Kinds
  BY DEF TypeInv, RemindersTypeOK, TryIsLeft, Jobs, Send, At
<1> DEFINE j == [job[c] EXCEPT !.at = "save", !.ok = ok, !.tries = @ + 1]
<1>2. job[c].tries + 1 \in 0..MaxTries
  BY <1>1, TriesAreNat
<1>3. j \in Jobs /\ j.at = "save" /\ j.kind = job[c].kind /\ j.ok = ok
  BY <1>1, <1>2 DEF Jobs, Points
<1>4. job' = [job EXCEPT ![c] = j]
  BY DEF Send
<1> HIDE DEF j
<1>5. job' \in [Collectors -> Jobs] /\ job'[c] = j /\ \A d \in Collectors \ {c} : job'[d] = job[d]
  BY <1>3, <1>4, NewJobFacts
<1> QED BY <1>1, <1>3, <1>5

LEMMA GivenUpFacts ==
  ASSUME TypeInv, NEW c \in Collectors, Skip(c) \/ Save(c) \/ Stop(c)
  PROVE  /\ job' \in [Collectors -> Jobs]
         /\ \A d \in Collectors \ {c} : job'[d] = job[d]
         /\ job'[c].at = "idle" /\ job'[c].tries < MaxTries
         /\ job[c] \in Jobs
<1>1. Rest(c)
  BY DEF Skip, Save, Stop
<1>2. job'[c].at = "idle" /\ job'[c].tries = 0
  BY <1>1, RestFacts, IdleIsJob
<1>3. job[c] \in Jobs
  BY DEF TypeInv, RemindersTypeOK, Jobs
<1> QED BY <1>1, <1>2, <1>3, RestFacts, TriesAreNat

-----------------------------------------------------------------------------
\* RemindersTypeOK apart from the jobs
RowsOK ==
  /\ row \in [Kinds -> Statuses]
  /\ tries \in [Kinds -> 0..MaxTries]
  /\ mails \in [Kinds -> 0..2]
  /\ excused \subseteq Kinds
  /\ \A k \in Kinds : tries[k] > 0 => row[k] # "NONE"

FactsOK ==
  /\ day \in Days
  /\ sale \in {"collectable", "frozen", "closed"}
  /\ marked \in BOOLEAN
  /\ address \in BOOLEAN

LEMMA TypeParts == TypeInv <=> FactsOK /\ RowsOK /\ job \in [Collectors -> Jobs] /\ TryIsLeft
  BY DEF TypeInv, RemindersTypeOK, FactsOK, RowsOK, Jobs

LEMMA TypeInvInit == Init => TypeInv
<1> SUFFICES ASSUME Init PROVE FactsOK /\ RowsOK /\ job \in [Collectors -> Jobs] /\ TryIsLeft
  BY TypeParts
<1>1. job \in [Collectors -> Jobs] /\ TryIsLeft
  BY IdleIsJob, TriesAreNat DEF Init, TryIsLeft
<1>2. 0 \in 0..MaxTries
  BY TriesAreNat
<1>3. FactsOK
  BY DEF Init, FactsOK, Days
<1>4. tries = [k \in Kinds |-> 0] /\ row = [k \in Kinds |-> "NONE"] /\ mails = [k \in Kinds |-> 0] /\ excused = {}
  BY DEF Init
<1>5. RowsOK
  BY <1>2, <1>4 DEF RowsOK, Statuses
<1> QED BY <1>1, <1>3, <1>5

LEMMA TypeInvStep == TypeInv /\ [Next]_vars => TypeInv'
<1> SUFFICES ASSUME TypeInv, [Next]_vars PROVE FactsOK' /\ RowsOK' /\ job' \in [Collectors -> Jobs] /\ TryIsLeft'
  BY DEF TypeInv, RemindersTypeOK, FactsOK, RowsOK, Jobs
<1>0. FactsOK /\ RowsOK /\ job \in [Collectors -> Jobs] /\ TryIsLeft
  BY TypeParts
<1>a. ASSUME NEW c \in Collectors, \A d \in Collectors \ {c} : job'[d] = job[d],
             job'[c].at # "save" => job'[c].tries < MaxTries
      PROVE  TryIsLeft'
  BY <1>0, <1>a DEF TryIsLeft
<1>b. ASSUME UNCHANGED <<row, tries, mails, excused>> PROVE RowsOK'
  BY <1>0, <1>b DEF RowsOK
<1>c. ASSUME UNCHANGED facts PROVE FactsOK'
  BY <1>0, <1>c DEF FactsOK, facts
<1>1. ASSUME Outside PROVE FactsOK' /\ RowsOK' /\ job' \in [Collectors -> Jobs] /\ TryIsLeft'
  BY <1>0, <1>1, <1>b, OutsideFacts DEF FactsOK, TryIsLeft
<1>2. ASSUME NEW c \in Collectors, Before(c)
      PROVE  FactsOK' /\ RowsOK' /\ job' \in [Collectors -> Jobs] /\ TryIsLeft'
  <2>1. FactsOK'
    BY <1>0, <1>2, BeforeFacts DEF FactsOK
  <2> QED BY <1>2, <1>a, <1>b, <2>1, BeforeFacts
<1>3. ASSUME NEW c \in Collectors, Look(c)
      PROVE  FactsOK' /\ RowsOK' /\ job' \in [Collectors -> Jobs] /\ TryIsLeft'
  <2>1. job[c].kind \in Kinds
    BY <1>0 DEF Jobs
  <2>2. RowsOK'
    BY <1>0, <1>3, <2>1, LookFacts DEF RowsOK
  <2> QED BY <1>3, <1>a, <1>c, <2>2, LookFacts
<1>4. ASSUME NEW c \in Collectors, Create(c)
      PROVE  FactsOK' /\ RowsOK' /\ job' \in [Collectors -> Jobs] /\ TryIsLeft'
  <2>2. RowsOK'
    BY <1>0, <1>4, CreateFacts DEF RowsOK, Statuses
  <2> QED BY <1>4, <1>a, <1>c, <2>2, CreateFacts
<1>5. ASSUME NEW c \in Collectors, NEW ok \in BOOLEAN, NEW arrived \in BOOLEAN, Send(c, ok, arrived)
      PROVE  FactsOK' /\ RowsOK' /\ job' \in [Collectors -> Jobs] /\ TryIsLeft'
  <2>1. job[c].kind \in Kinds
    BY <1>0 DEF Jobs
  <2>2. RowsOK'
    BY <1>0, <1>5, <2>1 DEF RowsOK, Send, Excuse, Kind
  <2> QED BY <1>5, <1>a, <1>c, <2>2, SendFacts DEF Send
<1>6. ASSUME NEW c \in Collectors, Skip(c) \/ Save(c) \/ Stop(c)
      PROVE  FactsOK' /\ RowsOK' /\ job' \in [Collectors -> Jobs] /\ TryIsLeft'
  <2>1. job[c].kind \in Kinds /\ job[c].tries \in 0..MaxTries
    BY <1>0 DEF Jobs
  <2>2. ASSUME Skip(c) PROVE RowsOK'
    <3>1. row' = [row EXCEPT ![job[c].kind] = "SKIPPED_NO_EMAIL"] /\ UNCHANGED <<tries, mails, excused>>
      BY <2>2 DEF Skip, Kind
    <3> QED BY <1>0, <2>1, <3>1 DEF RowsOK, Statuses
  <2>3. ASSUME Save(c) PROVE RowsOK'
    <3>1. PICK st \in {"SENT", "FAILED"} : row' = [row EXCEPT ![job[c].kind] = st]
      BY <2>3 DEF Save, Kind
    <3>2. tries' = [tries EXCEPT ![job[c].kind] = job[c].tries] /\ UNCHANGED <<mails, excused>>
      BY <2>3 DEF Save, Kind
    <3>3. row' \in [Kinds -> Statuses] /\ tries' \in [Kinds -> 0..MaxTries]
      BY <1>0, <2>1, <3>1, <3>2 DEF RowsOK, Statuses
    <3>4. ASSUME NEW k \in Kinds, tries'[k] > 0 PROVE row'[k] # "NONE"
      BY <1>0, <2>1, <3>1, <3>2, <3>4 DEF RowsOK
    <3> QED BY <1>0, <3>2, <3>3, <3>4 DEF RowsOK
  <2>4. ASSUME Stop(c) PROVE RowsOK'
    <3>1. excused' \in {excused, excused \cup {job[c].kind}} /\ UNCHANGED <<row, tries, mails>>
      BY <2>4 DEF Stop, Excuse, Kind
    <3> QED BY <1>0, <2>1, <3>1 DEF RowsOK
  <2>5. FactsOK'
    BY <1>6, <1>c DEF Skip, Save, Stop
  <2> QED BY <1>6, <1>a, <2>2, <2>3, <2>4, <2>5, GivenUpFacts
<1> QED BY <1>1, <1>2, <1>3, <1>4, <1>5, <1>6, StepKinds

\* Collectors keep the rows, the tries and their copies well formed, and no row
\* is tried more often than allowed.
THEOREM RemindersTypeCorrect == Spec => []RemindersTypeOK
<1>1. TypeInv => RemindersTypeOK
  BY DEF TypeInv
<1> QED BY <1>1, TypeInvInit, TypeInvStep, PTL DEF Spec

-----------------------------------------------------------------------------
\* What is saved as sent

LEMMA MailedStep == TypeInv /\ MailedInv /\ [Next]_vars => MailedInv'
<1> SUFFICES ASSUME TypeInv, MailedInv, [Next]_vars PROVE OkIsMailed' /\ SentWasMailed'
  BY DEF MailedInv
<1>0. RowsOK /\ job \in [Collectors -> Jobs] /\ OkIsMailed /\ SentWasMailed
  BY TypeParts DEF MailedInv
<1>a. ASSUME NEW c \in Collectors, \A d \in Collectors \ {c} : job'[d] = job[d],
             \A k \in Kinds : mails[k] > 0 => mails'[k] > 0,
             job'[c].at = "save" /\ job'[c].ok => mails'[job'[c].kind] > 0
      PROVE  OkIsMailed'
  <2>1. \A d \in Collectors : job[d].kind \in Kinds
    BY <1>0 DEF Jobs
  <2> QED BY <1>0, <1>a, <2>1 DEF OkIsMailed
<1>b. ASSUME UNCHANGED <<row, mails>> PROVE SentWasMailed'
  BY <1>0, <1>b DEF SentWasMailed
<1>1. ASSUME Outside PROVE OkIsMailed' /\ SentWasMailed'
  BY <1>0, <1>1, <1>b, OutsideFacts DEF OkIsMailed
<1>2. ASSUME NEW c \in Collectors, Before(c) PROVE OkIsMailed' /\ SentWasMailed'
  BY <1>2, <1>a, <1>b, BeforeFacts
<1>3. ASSUME NEW c \in Collectors, Look(c) PROVE OkIsMailed' /\ SentWasMailed'
  BY <1>3, <1>a, <1>b, LookFacts
<1>4. ASSUME NEW c \in Collectors, Create(c) PROVE OkIsMailed' /\ SentWasMailed'
  <2>1. OkIsMailed'
    BY <1>4, <1>a, CreateFacts
  <2>2. SentWasMailed'
    BY <1>0, <1>4, CreateFacts DEF SentWasMailed, RowsOK
  <2> QED BY <2>1, <2>2
<1>5. ASSUME NEW c \in Collectors, NEW ok \in BOOLEAN, NEW arrived \in BOOLEAN, Send(c, ok, arrived)
      PROVE  OkIsMailed' /\ SentWasMailed'
  <2>1. /\ mails' = IF arrived THEN [mails EXCEPT ![job[c].kind] = IF @ = 0 THEN 1 ELSE 2] ELSE mails
        /\ ok => arrived
        /\ UNCHANGED row
    BY <1>5 DEF Send, Kind
  <2>2. \A k \in Kinds : mails[k] > 0 => mails'[k] > 0
    BY <1>0, <2>1 DEF RowsOK
  <2>3. ok => mails'[job[c].kind] > 0
    <3>1. job[c].kind \in Kinds
      BY <1>0 DEF Jobs
    <3>2. ok => mails' = [mails EXCEPT ![job[c].kind] = IF @ = 0 THEN 1 ELSE 2]
      BY <2>1
    <3> QED BY <1>0, <3>1, <3>2 DEF RowsOK
  <2>4. OkIsMailed'
    BY <1>5, <1>a, <2>2, <2>3, SendFacts
  <2> QED BY <1>0, <2>1, <2>2, <2>4 DEF SentWasMailed
<1>6. ASSUME NEW c \in Collectors, Skip(c) \/ Save(c) \/ Stop(c) PROVE OkIsMailed' /\ SentWasMailed'
  <2>1. UNCHANGED mails
    BY <1>6 DEF Skip, Save, Stop
  <2>2. OkIsMailed'
    BY <1>6, <1>a, <2>1, GivenUpFacts
  <2>3. job[c].kind \in Kinds
    BY <1>0 DEF Jobs
  <2>4. ASSUME Skip(c) PROVE SentWasMailed'
    BY <1>0, <2>1, <2>3, <2>4 DEF Skip, Kind, SentWasMailed, RowsOK
  <2>5. ASSUME Save(c) PROVE SentWasMailed'
    <3>1. job[c].ok => mails[job[c].kind] > 0
      BY <1>0, <2>5 DEF Save, At, OkIsMailed
    <3>2. row' = [row EXCEPT ![job[c].kind] = IF job[c].ok THEN "SENT" ELSE "FAILED"]
      BY <2>5 DEF Save, Kind
    <3> QED BY <1>0, <2>1, <2>3, <3>1, <3>2 DEF SentWasMailed, RowsOK
  <2>6. ASSUME Stop(c) PROVE SentWasMailed'
    BY <2>6, <1>b DEF Stop
  <2> QED BY <1>6, <2>2, <2>4, <2>5, <2>6
<1> QED BY <1>1, <1>2, <1>3, <1>4, <1>5, <1>6, StepKinds

\* What staff see as sent did reach the customer, whichever of the collectors'
\* copies of the row was saved last.
THEOREM SentWasMailedAlways == Spec => []SentWasMailed
<1>1. Init => MailedInv
  BY DEF Init, MailedInv, OkIsMailed, SentWasMailed, Idle
<1>2. Init => TypeInv
  BY TypeInvInit
<1>3. MailedInv => SentWasMailed
  BY DEF MailedInv
<1> QED BY <1>1, <1>2, <1>3, TypeInvStep, MailedStep, PTL DEF Spec

-----------------------------------------------------------------------------
\* Repeated reminders

\* Only the kind a collector works on is touched by its step.
LEMMA OtherKinds ==
  ASSUME TypeInv, NEW k \in Kinds, Once(k), NEW c \in Collectors,
         \A d \in Collectors \ {c} : job'[d] = job[d],
         ~Busy(c, k), ~Busy(c, k)', row'[k] = row[k], mails'[k] = mails[k]
  PROVE  Once(k)'
  BY DEF Once, Busy, Sending, Saving

\* A collector that takes the row in hand finds nobody else with it and nothing mailed.
LEMMA TakenOnce ==
  ASSUME TypeInv, NEW k \in Kinds, Once(k), NEW c \in Collectors,
         \A d \in Collectors \ {c} : job'[d] = job[d], \A d \in Collectors \ {c} : ~Busy(d, k),
         ~Busy(c, k), Sending(c, k)', row[k] # "SENT", row'[k] # "NONE", mails'[k] = mails[k]
  PROVE  Once(k)'
<1>1. mails[k] \in 0..2
  BY DEF TypeInv, RemindersTypeOK
<1>2. mails[k] = 0
  BY <1>1 DEF Once, Busy
<1>3. \A d \in Collectors \ {c} : ~Busy(d, k)'
  BY DEF Busy, Sending, Saving
<1>4. ~Saving(c, k)'
  BY DEF Saving, Sending
<1> QED BY <1>2, <1>3, <1>4 DEF Once, Busy

LEMMA OnceStep == TypeInv /\ OnceInv /\ [Next]_vars => OnceInv'
<1> SUFFICES ASSUME TypeInv, OnceInv, [Next]_vars, NEW k \in Kinds, k \notin excused' PROVE Once(k)'
  BY DEF OnceInv
<1>0. RowsOK /\ job \in [Collectors -> Jobs]
  BY TypeParts
<1>a. excused \subseteq excused'
  BY StepKinds, OutsideFacts, BeforeFacts, LookFacts, CreateFacts DEF Skip, Save, Stop, Send, Excuse
<1>b. Once(k)
  BY <1>a DEF OnceInv
<1>1. ASSUME Outside PROVE Once(k)'
  BY <1>1, <1>b, OutsideFacts DEF Once, Busy, Sending, Saving
<1>2. ASSUME NEW c \in Collectors, Before(c) PROVE Once(k)'
  <2>1. ~Busy(c, k) /\ ~Busy(c, k)'
    BY <1>2, BeforeFacts DEF Busy, Sending, Saving
  <2> QED BY <1>2, <1>b, <2>1, BeforeFacts, OtherKinds
<1>3. ASSUME NEW c \in Collectors, Look(c) PROVE Once(k)'
  <2>0. ~Busy(c, k)
    BY <1>3, LookFacts DEF Busy, Sending, Saving
  <2>1. CASE ~Busy(c, k)'
    BY <1>3, <1>b, <2>0, <2>1, LookFacts, OtherKinds
  <2>2. CASE Busy(c, k)'
    <3>1. job'[c].at = "send" /\ job[c].kind = k /\ row[k] = "FAILED" /\ ~Overlapping(c) /\ Sending(c, k)'
      BY <1>3, <2>2, LookFacts DEF Busy, Sending, Saving
    <3>2. \A d \in Collectors \ {c} : ~Busy(d, k)
      BY <3>1 DEF Overlapping, Kind, Busy, Sending, Saving
    <3> QED BY <1>3, <1>b, <2>0, <3>1, <3>2, LookFacts, TakenOnce
  <2> QED BY <2>1, <2>2
<1>4. ASSUME NEW c \in Collectors, Create(c) PROVE Once(k)'
  <2>0. ~Busy(c, k)
    BY <1>4, CreateFacts DEF Busy, Sending, Saving
  <2>1. CASE job'[c].at = "idle"
    <3>1. ~Busy(c, k)' /\ UNCHANGED row
      BY <1>4, <2>1, CreateFacts DEF Busy, Sending, Saving
    <3> QED BY <1>4, <1>b, <2>0, <3>1, CreateFacts, OtherKinds
  <2>2. CASE job'[c].at = "send" /\ job[c].kind # k
    <3>1. ~Busy(c, k)' /\ row'[k] = row[k]
      BY <1>0, <1>4, <2>2, CreateFacts DEF Busy, Sending, Saving, RowsOK
    <3> QED BY <1>4, <1>b, <2>0, <3>1, CreateFacts, OtherKinds
  <2>3. CASE job'[c].at = "send" /\ job[c].kind = k
    <3>1. row[k] = "NONE" /\ row'[k] = "FAILED" /\ Sending(c, k)'
      BY <1>0, <1>4, <2>3, CreateFacts DEF Sending, RowsOK
    <3>2. \A d \in Collectors : ~Busy(d, k)
      BY <1>b, <3>1 DEF Once
    <3> QED BY <1>4, <1>b, <3>1, <3>2, CreateFacts, TakenOnce
  <2> QED BY <1>4, <2>1, <2>2, <2>3, CreateFacts
<1>5. ASSUME NEW c \in Collectors, NEW ok \in BOOLEAN, NEW arrived \in BOOLEAN, Send(c, ok, arrived)
      PROVE  Once(k)'
  <2>0. /\ mails' = IF arrived THEN [mails EXCEPT ![job[c].kind] = IF @ = 0 THEN 1 ELSE 2] ELSE mails
        /\ ok => arrived
        /\ UNCHANGED row
        /\ arrived /\ ~ok => job[c].kind \in excused'
    BY <1>5 DEF Send, Kind, Excuse
  <2>1. CASE job[c].kind # k
    <3>1. ~Busy(c, k) /\ ~Busy(c, k)'
      BY <1>5, <2>1, SendFacts DEF Busy, Sending, Saving
    <3>2. mails'[k] = mails[k]
      BY <1>0, <2>0, <2>1 DEF RowsOK
    <3> QED BY <1>5, <1>b, <2>0, <3>1, <3>2, SendFacts, OtherKinds
  <2>2. CASE job[c].kind = k
    <3>1. Sending(c, k) /\ Saving(c, k)' /\ ~Sending(c, k)' /\ job'[c].ok = ok
      BY <1>5, <2>2, SendFacts DEF Sending, Saving
    <3>2. mails[k] = 0
      BY <1>b, <3>1 DEF Once
    <3>3. mails'[k] = IF ok THEN 1 ELSE 0
      BY <1>0, <2>0, <2>2, <3>2 DEF RowsOK
    <3>4. \A d \in Collectors \ {c} : ~Busy(d, k) /\ ~Busy(d, k)'
      BY <1>5, <1>b, <3>1, SendFacts DEF Once, Busy, Sending, Saving
    <3>5. row[k] # "NONE"
      BY <1>b, <3>1 DEF Once, Busy
    <3> QED BY <2>0, <3>1, <3>3, <3>4, <3>5 DEF Once, Busy
  <2> QED BY <2>1, <2>2
<1>6. ASSUME NEW c \in Collectors, Skip(c) \/ Save(c) \/ Stop(c) PROVE Once(k)'
  <2>0. ~Busy(c, k)' /\ UNCHANGED mails /\ job[c].kind \in Kinds
    BY <1>0, <1>6, GivenUpFacts DEF Busy, Sending, Saving, Skip, Save, Stop, Jobs
  <2>1. CASE ~Busy(c, k)
    <3>1. row'[k] = row[k]
      BY <1>0, <1>6, <2>0, <2>1 DEF RowsOK, Busy, Sending, Saving, Skip, Save, Stop, At, Kind
    <3> QED BY <1>6, <1>b, <2>0, <2>1, <3>1, GivenUpFacts, OtherKinds
  <2>2. CASE Busy(c, k)
    <3>1. \A d \in Collectors : ~Busy(d, k)'
      BY <1>6, <1>b, <2>0, <2>2, GivenUpFacts DEF Once, Busy, Sending, Saving
    <3>2. row'[k] # "NONE" /\ (mails[k] > 0 => row'[k] = "SENT")
      <4>1. row[k] # "NONE" /\ job[c].kind = k
        BY <1>b, <2>2 DEF Once, Busy, Sending, Saving
      <4>2. CASE Skip(c)
        <5>1. mails[k] = 0
          BY <1>b, <4>1, <4>2 DEF Skip, At, Once, Sending
        <5> QED BY <1>0, <4>1, <4>2, <5>1 DEF Skip, Kind, RowsOK
      <4>3. CASE Save(c)
        <5>1. mails[k] = IF job[c].ok THEN 1 ELSE 0
          BY <1>b, <4>1, <4>3 DEF Save, At, Once, Saving
        <5>2. row'[k] = IF job[c].ok THEN "SENT" ELSE "FAILED"
          BY <1>0, <4>1, <4>3 DEF Save, Kind, RowsOK
        <5> QED BY <5>1, <5>2
      <4>4. CASE Stop(c)
        <5>1. ~(At(c, "save") /\ job[c].ok)
          BY <4>1, <4>4 DEF Stop, Excuse, Kind
        <5>2. mails[k] = 0
          BY <1>b, <2>2, <5>1 DEF Once, Busy, Sending, Saving, At
        <5> QED BY <4>1, <4>4, <5>2 DEF Stop
      <4> QED BY <1>6, <4>2, <4>3, <4>4
    <3>3. \A d \in Collectors : ~Sending(d, k)' /\ ~Saving(d, k)'
      BY <3>1 DEF Busy
    <3>4. mails'[k] <= 1
      BY <1>b, <2>0 DEF Once
    <3> QED BY <2>0, <3>1, <3>2, <3>3, <3>4 DEF Once
  <2> QED BY <2>1, <2>2
<1> QED BY <1>1, <1>2, <1>3, <1>4, <1>5, <1>6, StepKinds

\* A kind of reminder is mailed twice only when a send was cut off before it was
\* saved, arrived although it failed, or met another collector at work.
THEOREM RepeatsAreExcusedAlways == Spec => []RepeatsAreExcused
<1>1. Init => OnceInv
  BY DEF Init, OnceInv, Once, Busy, Sending, Saving, Idle
<1>2. TypeInv /\ OnceInv => RepeatsAreExcused
  BY DEF OnceInv, Once, RepeatsAreExcused, TypeInv, RemindersTypeOK
<1> QED BY <1>1, <1>2, TypeInvInit, TypeInvStep, OnceStep, PTL DEF Spec
=============================================================================
