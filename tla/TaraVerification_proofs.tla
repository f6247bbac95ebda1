----------------------- MODULE TaraVerification_proofs -----------------------
(***************************************************************************)
(* Proofs about TaraVerification, for any paymentIds, any cap on the       *)
(* candidates and any earlier webhooks: which candidates are asked for,    *)
(* and what the answers heard so far say about the verdict.  The loop over *)
(* the given ids is one action per id, so that an invariant on the list    *)
(* takes the place of an induction over it.                                *)
(***************************************************************************)
EXTENDS TaraVerification, TLAPS

-----------------------------------------------------------------------------
\* The candidates

Known == {preferred, stored} \ {Nothing, Product}

LEMMA CapIsPositive == MaxCandidates \in Nat /\ MaxCandidates >= 1
  BY VerificationAssumption DEF VerificationAssumption

LEMMA NewestOf ==
  ASSUME NEW S, NEW seq \in Seq(S)
  PROVE  /\ Newest(seq) \in Seq(S)
         /\ Len(Newest(seq)) = IF Len(seq) < MaxCandidates THEN Len(seq) ELSE MaxCandidates
         /\ Len(Newest(seq)) <= MaxCandidates /\ Len(Newest(seq)) <= Len(seq)
         /\ \A k \in 1..Len(Newest(seq)) : k \in 1..Len(seq) /\ Newest(seq)[k] = seq[k]
<1> DEFINE n == IF Len(seq) < MaxCandidates THEN Len(seq) ELSE MaxCandidates
<1>1. n \in 0..Len(seq) /\ n <= MaxCandidates
  BY CapIsPositive
<1>2. Newest(seq) = SubSeq(seq, 1, n)
  BY DEF Newest
<1> HIDE DEF n
<1>3. /\ Newest(seq) \in Seq(S) /\ Len(Newest(seq)) = n
      /\ \A k \in 1..n : Newest(seq)[k] = seq[k]
  BY <1>1, <1>2
<1> QED BY <1>1, <1>3 DEF n

LEMMA EmptySeq == ASSUME NEW S PROVE <<>> \in Seq(S) /\ Len(<<>>) = 0 /\ DOMAIN <<>> = {}
  OBVIOUS

LEMMA WiderSeq ==
  ASSUME NEW S, NEW T, S \subseteq T, NEW seq \in Seq(S)
  PROVE  seq \in Seq(T)
<1>1. Len(seq) \in Nat /\ seq \in [1..Len(seq) -> T]
  BY Z3
<1> QED BY <1>1

LEMMA GivenAre ==
  ASSUME preferred \in Ids \cup {Nothing}, stored \in PaymentIds \cup {Nothing}, named \in Seq(Ids)
  PROVE  /\ Given \in Seq(Ids \cup {Nothing}) /\ Len(Given) \in Nat /\ Len(Given) >= 2
         /\ Given[1] = preferred /\ Given[2] = stored
<1>1. Newest(named) \in Seq(Ids)
  BY NewestOf
<1>2. Newest(named) \in Seq(Ids \cup {Nothing})
  BY <1>1, WiderSeq
<1>3. <<preferred, stored>> \in Seq(Ids \cup {Nothing}) /\ Len(<<preferred, stored>>) = 2
  BY DEF Ids
<1> QED BY <1>2, <1>3 DEF Given

LEMMA GivenIds ==
  ASSUME VerificationTypeOK
  PROVE  /\ Given \in Seq(Ids \cup {Nothing}) /\ Len(Given) \in Nat /\ Len(Given) >= 2
         /\ Given[1] = preferred /\ Given[2] = stored
  BY GivenAre DEF VerificationTypeOK

\* A list that n of the given ids led to: each of them once, those the caller and
\* the attempt know in its first two places.
Listed(list, n) ==
    /\ list \in Seq(PaymentIds)
    /\ IsInjective(list)
    /\ n <= 2 => Len(list) <= n /\ \A k \in 1..Len(list) : list[k] \in Known
    /\ n >= 1 /\ preferred \in Known => \E k \in 1..Len(list) : k <= 2 /\ list[k] = preferred
    /\ n >= 2 /\ stored \in Known => \E k \in 1..Len(list) : k <= 2 /\ list[k] = stored
    /\ \A k, l \in 1..Len(list) : list[k] \in Known /\ list[l] \notin Known => k < l

LEMMA AddIdListed ==
  ASSUME VerificationTypeOK, NEW n \in Nat, n < Len(Given), NEW list, Listed(list, n)
  PROVE  Listed(AddId(list, Given[n + 1]), n + 1)
<1> DEFINE id == Given[n + 1]
           more == AddId(list, id)
<1>1. /\ id \in Ids \cup {Nothing} /\ list \in Seq(PaymentIds)
      /\ n = 0 => id = preferred
      /\ n = 1 => id = stored
  BY GivenIds DEF Listed
<1>2. IsInjective(list) <=> \A k, l \in 1..Len(list) : list[k] = list[l] => k = l
  BY <1>1 DEF IsInjective
<1>3. Contains(list, id) <=> \E k \in 1..Len(list) : list[k] = id
  BY <1>1 DEF Contains
<1> HIDE DEF id
<1>4. CASE id \in {Nothing, Product} \/ Contains(list, id)
  <2>1. more = list
    BY <1>4 DEF AddId
  <2>2. n = 0 /\ preferred \in Known => \E k \in 1..Len(list) : k <= 2 /\ list[k] = preferred
    BY <1>1, <1>3, <1>4 DEF Listed, Known
  <2>3. n = 1 /\ stored \in Known => \E k \in 1..Len(list) : k <= 2 /\ list[k] = stored
    BY <1>1, <1>3, <1>4 DEF Listed, Known
  <2>4. /\ n + 1 <= 2 => Len(list) <= n + 1 /\ \A k \in 1..Len(list) : list[k] \in Known
        /\ n + 1 >= 1 /\ preferred \in Known => \E k \in 1..Len(list) : k <= 2 /\ list[k] = preferred
    BY <1>1, <2>2 DEF Listed
  <2>5. n + 1 >= 2 /\ stored \in Known => \E k \in 1..Len(list) : k <= 2 /\ list[k] = stored
    BY <1>1, <2>3 DEF Listed
  <2>6. Listed(list, n + 1)
    BY <2>4, <2>5 DEF Listed
  <2> QED BY <2>1, <2>6 DEF id
<1>5. CASE ~(id \in {Nothing, Product} \/ Contains(list, id))
  <2>1. more = Append(list, id) /\ id \in PaymentIds
    BY <1>1, <1>5 DEF AddId, Ids
  <2> HIDE DEF more
  <2>2. /\ more \in Seq(PaymentIds) /\ Len(more) = Len(list) + 1 /\ Len(list) \in Nat
        /\ more[Len(more)] = id
        /\ \A k \in 1..Len(list) : k \in 1..Len(more) /\ more[k] = list[k]
        /\ \A k \in 1..Len(more) : k # Len(more) => k \in 1..Len(list)
    BY <1>1, <2>1
  <2>3. \A k, l \in 1..Len(more) : more[k] = more[l] => k = l
    BY <1>2, <1>3, <1>5, <2>2 DEF Listed
  <2>4. IsInjective(more)
    BY <2>2, <2>3 DEF IsInjective
  <2>5. n <= 1 => id \in Known
    BY <1>1, <1>5, <2>1 DEF Known
  <2>6. n + 1 <= 2 => Len(more) <= n + 1 /\ \A k \in 1..Len(more) : more[k] \in Known
    <3> SUFFICES ASSUME n <= 1
                 PROVE  Len(more) <= n + 1 /\ \A k \in 1..Len(more) : more[k] \in Known
      OBVIOUS
    <3>1. Len(list) <= n /\ \A k \in 1..Len(list) : list[k] \in Known
      BY DEF Listed
    <3> QED BY <2>2, <2>5, <3>1
  <2>7. preferred \in Known => \E k \in 1..Len(more) : k <= 2 /\ more[k] = preferred
    <3>1. CASE n = 0
      <4>1. Len(list) = 0
        BY <2>2, <3>1 DEF Listed
      <4> QED BY <1>1, <2>2, <3>1, <4>1
    <3>2. CASE n >= 1
      BY <2>2, <3>2 DEF Listed
    <3> QED BY <3>1, <3>2
  <2>8. n + 1 >= 2 /\ stored \in Known => \E k \in 1..Len(more) : k <= 2 /\ more[k] = stored
    <3>1. CASE n = 1
      <4>1. Len(list) <= 1
        BY <3>1 DEF Listed
      <4> QED BY <1>1, <2>2, <3>1, <4>1
    <3>2. CASE n >= 2
      BY <2>2, <3>2 DEF Listed
    <3> QED BY <3>1, <3>2
  <2>9. \A k, l \in 1..Len(more) : more[k] \in Known /\ more[l] \notin Known => k < l
    <3> SUFFICES ASSUME NEW k \in 1..Len(more), NEW l \in 1..Len(more), more[k] \in Known, more[l] \notin Known
                 PROVE  k < l
      OBVIOUS
    <3>1. CASE k # Len(more) /\ l # Len(more)
      BY <2>2, <3>1 DEF Listed
    <3>2. CASE k # Len(more) /\ l = Len(more)
      BY <2>2, <3>2
    <3>3. CASE k = Len(more)
      <4>1. id \in Known
        BY <2>2, <3>3
      <4>2. n <= 1
        <5> SUFFICES ASSUME n >= 2 PROVE FALSE
          OBVIOUS
        <5>1. ~\E j \in 1..Len(list) : list[j] = id
          BY <1>3, <1>5
        <5>2. n >= 1 /\ (id = preferred \/ id = stored)
          BY <4>1 DEF Known
        <5>3. CASE id = preferred
          BY <4>1, <5>1, <5>2, <5>3 DEF Listed
        <5>4. CASE id = stored
          BY <4>1, <5>1, <5>4 DEF Listed
        <5> QED BY <5>2, <5>3, <5>4
      <4> QED BY <2>6, <4>2
    <3> QED BY <3>1, <3>2, <3>3
  <2> QED BY <2>2, <2>4, <2>6, <2>7, <2>8, <2>9 DEF Listed, more, id
<1> QED BY <1>4, <1>5

\* What is left after the slice
Selected(list) ==
    /\ list \in Seq(PaymentIds)
    /\ IsInjective(list) /\ Len(list) <= MaxCandidates
    /\ MaxCandidates >= 2 => Known \subseteq {list[k] : k \in 1..Len(list)}
    /\ \A k, l \in 1..Len(list) : list[k] \in Known /\ list[l] \notin Known => k < l

LEMMA NewestSelected ==
  ASSUME NEW n \in Nat, n >= 2, NEW list, Listed(list, n)
  PROVE  Selected(Newest(list))
<1> DEFINE few == Newest(list)
<1>1. list \in Seq(PaymentIds)
  BY DEF Listed
<1>2. /\ few \in Seq(PaymentIds) /\ Len(few) <= MaxCandidates
      /\ Len(few) = IF Len(list) < MaxCandidates THEN Len(list) ELSE MaxCandidates
      /\ \A k \in 1..Len(few) : k \in 1..Len(list) /\ few[k] = list[k]
  BY <1>1, NewestOf
<1> HIDE DEF few
<1>3. IsInjective(few)
  <2>1. \A k, l \in 1..Len(list) : list[k] = list[l] => k = l
    BY <1>1 DEF Listed, IsInjective
  <2> QED BY <1>2, <2>1 DEF IsInjective
<1>4. MaxCandidates >= 2 => Known \subseteq {few[k] : k \in 1..Len(few)}
  <2> SUFFICES ASSUME MaxCandidates >= 2, NEW x \in Known PROVE \E k \in 1..Len(few) : few[k] = x
    OBVIOUS
  <2>1. PICK k \in 1..Len(list) : k <= 2 /\ list[k] = x
    BY DEF Listed, Known
  <2>2. k \in 1..Len(few)
    BY <1>1, <1>2, <2>1, CapIsPositive
  <2> QED BY <1>2, <2>1, <2>2
<1>5. \A k, l \in 1..Len(few) : few[k] \in Known /\ few[l] \notin Known => k < l
  BY <1>2 DEF Listed
<1> QED BY <1>2, <1>3, <1>4, <1>5 DEF Selected, few

-----------------------------------------------------------------------------
\* The answers

LEMMA ProofProves == \A reply \in Replies : Proves(reply) <=> Proof(reply)
<1> SUFFICES ASSUME NEW reply \in Replies, reply.status = "SUCCESS"
             PROVE  Proves(reply) <=> Proof(reply)
  BY DEF Proves, Proof
<1>1. reply.bound \in Bindings
  BY DEF Replies
<1> QED BY <1>1 DEF Proves, Proof, BelongsToAttempt, Bindings

\* Nothing Tara said was refused.
Accepted(reply) ==
    Usable(reply) => BelongsToAttempt(reply.bound) /\ (reply.status = "SUCCESS" => reply.exact)

Heard == 1..Len(replies)

\* What the local variables of verify remember of the answers
AnswersInv ==
    /\ ~Chosen => replies = <<>> /\ verdict = ""
    /\ verdict # "SUCCESS" => \A k \in Heard : ~Proof(replies[k])
    /\ ~rejected => \A k \in Heard : Accepted(replies[k])
    /\ ~rejected /\ definitive = "" => \A k \in Heard : Usable(replies[k]) => Proof(replies[k])
    /\ verdict = "SUCCESS" => (\E k \in Heard : Proof(replies[k])) \/ \A k \in Heard : ~Usable(replies[k])
    /\ verdict = "FAILURE" => \A k \in Heard : Accepted(replies[k]) /\ ~Proof(replies[k])

ListInv ==
    /\ ~Chosen => Listed(candidates, read)
    /\ Chosen => Selected(candidates)

Inv == VerificationTypeOK /\ ListInv /\ AnswersInv

LEMMA InvInit == Init => Inv
<1> SUFFICES ASSUME Init PROVE Inv
  OBVIOUS
<1>1. /\ preferred \in Ids \cup {Nothing} /\ stored \in PaymentIds \cup {Nothing}
      /\ read = 0 /\ candidates = <<>> /\ replies = <<>>
      /\ rejected = FALSE /\ definitive = "" /\ verdict = ""
  BY Zenon DEF Init
<1>2. named \in Seq(Ids)
  <2>1. PICK n \in 0..MaxNamed : named \in [1..n -> Ids]
    BY DEF Init
  <2>2. n \in Nat
    BY <2>1, VerificationAssumption DEF VerificationAssumption
  <2> QED BY <2>1, <2>2
<1>3. Len(Given) \in Nat /\ Len(Given) >= 2
  BY <1>1, <1>2, GivenAre
<1>4. ~Chosen /\ read \in 0..Len(Given)
  <2>1. read = 0
    BY <1>1
  <2> QED BY <1>3, <2>1 DEF Chosen
<1>5. /\ candidates \in Seq(PaymentIds) /\ replies \in Seq(Replies)
      /\ Len(replies) = 0 /\ Len(candidates) = 0
  BY <1>1, EmptySeq
<1>6. VerificationTypeOK
  <2>1. preferred \in Ids \cup {Nothing} /\ stored \in PaymentIds \cup {Nothing}
    BY <1>1
  <2>2. rejected \in BOOLEAN /\ definitive = "" /\ verdict = ""
    BY <1>1
  <2>3. Len(replies) <= Len(candidates)
    BY <1>5
  <2> QED BY <1>2, <1>4, <1>5, <2>1, <2>2, <2>3 DEF VerificationTypeOK
<1>7. Listed(candidates, read)
  <2>1. read = 0 /\ candidates = <<>>
    BY <1>1
  <2>2. IsInjective(candidates)
    BY <2>1, EmptySeq DEF IsInjective
  <2> QED BY <1>5, <2>1, <2>2 DEF Listed
<1>8. AnswersInv
  <2>1. Heard = {}
    BY <1>5 DEF Heard
  <2> QED BY <1>1, <1>4, <2>1 DEF AnswersInv
<1> QED BY <1>4, <1>6, <1>7, <1>8 DEF Inv, ListInv

LEMMA CollectStep == Inv /\ Collect => Inv'
<1> SUFFICES ASSUME Inv, Collect PROVE Inv'
  OBVIOUS
<1> DEFINE list == AddId(candidates, Given[read + 1])
<1>1. /\ UNCHANGED <<preferred, stored, named, replies, rejected, definitive, verdict>>
      /\ read < Len(Given) /\ read' = read + 1
      /\ candidates' = IF read' = Len(Given) THEN Newest(list) ELSE list
  BY DEF Collect
<1>2. /\ VerificationTypeOK /\ Len(Given) >= 2 /\ Len(Given) \in Nat
      /\ read \in 0..Len(Given)
  <2>1. VerificationTypeOK
    BY DEF Inv
  <2> QED BY <2>1, GivenIds DEF VerificationTypeOK
<1>3. Given' = Given /\ Known' = Known
  BY <1>1 DEF Given, Newest, Known
<1>4. ~Chosen
  BY <1>1, <1>2 DEF Chosen
<1>5. Listed(list, read + 1)
  BY <1>1, <1>2, <1>4, AddIdListed DEF Inv, ListInv
<1> HIDE DEF list
<1>6. list \in Seq(PaymentIds)
  BY <1>5 DEF Listed
<1>7. ListInv' /\ candidates' \in Seq(PaymentIds)
  <2>1. CASE read' = Len(Given)
    <3>1. Selected(Newest(list)) /\ candidates' = Newest(list)
      BY <1>1, <1>2, <1>5, <2>1, NewestSelected
    <3>2. Selected(candidates)' /\ Chosen'
      BY <1>3, <2>1, <3>1 DEF Selected, Chosen
    <3> QED BY <3>1, <3>2 DEF ListInv, Selected
  <2>2. CASE read' # Len(Given)
    <3>1. ~Chosen' /\ candidates' = list /\ read' = read + 1
      BY <1>1, <1>3, <2>2 DEF Chosen
    <3>2. Listed(candidates, read)'
      BY <1>1, <1>3, <1>5, <3>1 DEF Listed
    <3> QED BY <1>6, <3>1, <3>2 DEF ListInv
  <2> QED BY <2>1, <2>2
<1>8. replies = <<>> /\ verdict = ""
  BY <1>4 DEF Inv, AnswersInv
<1>9. VerificationTypeOK'
  <2>1. read' \in 0..Len(Given)'
    BY <1>1, <1>2, <1>3
  <2>2. Len(replies') <= Len(candidates')
    <3>1. replies' = <<>> /\ candidates' \in Seq(PaymentIds)
      BY <1>1, <1>7, <1>8
    <3> QED BY <3>1, EmptySeq
  <2> QED BY <1>1, <1>2, <1>7, <2>1, <2>2 DEF VerificationTypeOK
<1>10. AnswersInv'
  <2>1. Heard' = {} /\ replies' = <<>> /\ verdict' = ""
    <3>1. replies' = <<>> /\ verdict' = ""
      BY <1>1, <1>8
    <3>2. Len(replies') = 0
      BY <3>1, EmptySeq
    <3>3. Heard' = {}
      BY <3>2 DEF Heard
    <3> QED BY <3>1, <3>3
  <2> QED BY <2>1 DEF AnswersInv
<1> QED BY <1>7, <1>9, <1>10 DEF Inv

\* Once the answers come, the candidates stay.
LEMMA ChosenStay ==
  ASSUME Inv, Chosen, UNCHANGED <<preferred, stored, named, read, candidates>>
  PROVE  ListInv' /\ Chosen'
<1>1. Given' = Given /\ Known' = Known
  BY DEF Given, Newest, Known
<1>2. Chosen' /\ Selected(candidates)
  BY <1>1 DEF Chosen, Inv, ListInv
<1>3. Selected(candidates)'
  BY <1>1, <1>2 DEF Selected
<1> QED BY <1>2, <1>3 DEF ListInv

LEMMA HearStep == ASSUME NEW reply \in Replies, Inv, Hear(reply) PROVE Inv'
<1>1. /\ Asking /\ replies' = Append(replies, reply)
      /\ verdict' = IF Proof(reply) THEN "SUCCESS" ELSE ""
      /\ UNCHANGED <<preferred, stored, named, read, candidates>>
  BY DEF Hear
<1>2. Chosen /\ verdict = "" /\ Len(replies) < Len(candidates)
  BY <1>1 DEF Asking
<1>3. ListInv' /\ Chosen' /\ Given' = Given
  BY <1>1, <1>2, ChosenStay DEF Given, Newest
<1>4. /\ rejected' \in BOOLEAN /\ (rejected => rejected')
      /\ ~rejected' => Accepted(reply)
  <2>1. rejected \in BOOLEAN
    BY DEF Inv, VerificationTypeOK
  <2> QED BY <2>1 DEF Hear, Accepted, Usable
<1>5. /\ definitive' \in {"", "FAILURE", "PENDING"}
      /\ definitive # "" => definitive' # ""
      /\ definitive' = "" => ~(BelongsToAttempt(reply.bound) /\ reply.status \in {"FAILURE", "PENDING"})
  <2>1. definitive \in {"", "FAILURE", "PENDING"}
    BY DEF Inv, VerificationTypeOK
  <2> QED BY <2>1 DEF Hear
<1>6. /\ replies \in Seq(Replies) /\ replies' \in Seq(Replies)
      /\ Len(replies') = Len(replies) + 1 /\ Len(replies') <= Len(candidates)
      /\ replies'[Len(replies')] = reply
      /\ \A k \in Heard : replies'[k] = replies[k]
      /\ \A k \in Heard' : k \in Heard \/ k = Len(replies')
      /\ Len(replies') \in Heard'
  <2>1. replies \in Seq(Replies) /\ candidates \in Seq(PaymentIds)
    BY DEF Inv, VerificationTypeOK
  <2>2. Len(replies) \in Nat /\ Len(candidates) \in Nat
    BY <2>1
  <2>3. replies' = Append(replies, reply) /\ candidates' = candidates
    BY <1>1
  <2>4. Len(replies) < Len(candidates)
    BY <1>2
  <2>5. replies' \in Seq(Replies) /\ Len(replies') = Len(replies) + 1 /\ replies'[Len(replies) + 1] = reply
    BY <2>1, <2>3
  <2>6. \A k \in 1..Len(replies) : replies'[k] = replies[k]
    BY <2>1, <2>3
  <2>7. Len(replies') <= Len(candidates)
    BY <2>2, <2>4, <2>5
  <2>8. /\ \A k \in Heard' : k \in Heard \/ k = Len(replies')
        /\ Len(replies') \in Heard'
    BY <2>2, <2>5 DEF Heard
  <2> QED BY <2>1, <2>5, <2>6, <2>7, <2>8 DEF Heard
<1>7. VerificationTypeOK'
  <2>1. VerificationTypeOK
    BY DEF Inv
  <2> QED BY <1>1, <1>3, <1>4, <1>5, <1>6, <2>1 DEF VerificationTypeOK
<1>8. /\ \A k \in Heard : ~Proof(replies[k])
      /\ ~rejected => \A k \in Heard : Accepted(replies[k])
      /\ ~rejected /\ definitive = "" => \A k \in Heard : ~Usable(replies[k])
  BY <1>2 DEF Inv, AnswersInv
<1>9. ~rejected' /\ definitive' = "" => (Usable(reply) => Proof(reply))
  <2>1. reply.status \in {"UNKNOWN", "FAILURE", "PENDING", "SUCCESS"}
    BY DEF Replies
  <2> QED BY <1>4, <1>5, <2>1 DEF Accepted, Usable, Proof
<1>10. /\ verdict' # "SUCCESS" => \A k \in Heard' : ~Proof(replies'[k])
       /\ verdict' = "SUCCESS" => \E k \in Heard' : Proof(replies'[k])
       /\ verdict' # "FAILURE"
  BY <1>1, <1>6, <1>8
<1>11. ~rejected' => \A k \in Heard' : Accepted(replies'[k])
  BY <1>4, <1>6, <1>8
<1>12. ~rejected' /\ definitive' = "" => \A k \in Heard' : Usable(replies'[k]) => Proof(replies'[k])
  BY <1>4, <1>5, <1>6, <1>8, <1>9
<1>13. AnswersInv'
  BY <1>3, <1>10, <1>11, <1>12 DEF AnswersInv, Proof, Accepted, Usable, BelongsToAttempt
<1> QED BY <1>3, <1>7, <1>13 DEF Inv

\* The verdict is the last step.
LEMMA VerdictStep ==
  ASSUME Inv, Chosen, verdict = "",
         UNCHANGED <<preferred, stored, named, read, candidates, replies, rejected, definitive>>,
         verdict' \in {"SUCCESS", "FAILURE", "PENDING", "UNKNOWN", "REFUSED", "ERROR"},
         verdict' = "SUCCESS" => ~rejected /\ definitive = "",
         verdict' = "FAILURE" => ~rejected
  PROVE  Inv'
<1>1. ListInv' /\ Chosen' /\ Given' = Given
  BY ChosenStay DEF Given, Newest
<1>2. VerificationTypeOK'
  BY <1>1 DEF Inv, VerificationTypeOK
<1>3. /\ \A k \in Heard : ~Proof(replies[k])
      /\ ~rejected => \A k \in Heard : Accepted(replies[k])
      /\ ~rejected /\ definitive = "" => \A k \in Heard : ~Usable(replies[k])
      /\ ~rejected /\ definitive = "" => \A k \in Heard : Usable(replies[k]) => Proof(replies[k])
  BY DEF Inv, AnswersInv
<1>4. Heard' = Heard
  BY DEF Heard
<1>5. /\ verdict' # "SUCCESS" => \A k \in Heard' : ~Proof(replies'[k])
      /\ ~rejected' => \A k \in Heard' : Accepted(replies'[k])
      /\ ~rejected' /\ definitive' = "" => \A k \in Heard' : Usable(replies'[k]) => Proof(replies'[k])
      /\ verdict' = "SUCCESS" => \A k \in Heard' : ~Usable(replies'[k])
      /\ verdict' = "FAILURE" => \A k \in Heard' : Accepted(replies'[k]) /\ ~Proof(replies'[k])
  BY <1>3, <1>4
<1>6. AnswersInv'
  BY <1>1, <1>5 DEF AnswersInv, Proof, Accepted, Usable, BelongsToAttempt
<1> QED BY <1>1, <1>2, <1>6 DEF Inv

LEMMA InvStep == Inv /\ [Next]_vars => Inv'
<1> SUFFICES ASSUME Inv, [Next]_vars PROVE Inv'
  OBVIOUS
<1>1. CASE Collect
  BY <1>1, CollectStep
<1>2. ASSUME NEW reply \in Replies, Hear(reply) PROVE Inv'
  BY <1>2, HearStep
<1>3. CASE Conclude
  <2>1. Chosen /\ verdict = ""
    BY <1>3 DEF Conclude, Asked
  <2>2. definitive \in {"", "FAILURE", "PENDING"}
    BY DEF Inv, VerificationTypeOK
  <2> QED BY <1>3, <2>1, <2>2, VerdictStep DEF Conclude
<1>4. ASSUME NEW status \in {"SUCCESS", "FAILURE", "PENDING", "UNKNOWN", "REFUSED"}, FallBack(status)
      PROVE  Inv'
  BY <1>4, VerdictStep DEF FallBack, Asked
<1>5. CASE Raise
  BY <1>5, VerdictStep DEF Raise, Asked, Asking
<1>6. CASE UNCHANGED vars
  <2>1. Given' = Given /\ Known' = Known
    BY <1>6 DEF vars, Given, Newest, Known
  <2>2. VerificationTypeOK'
    BY <1>6, <2>1 DEF vars, Inv, VerificationTypeOK
  <2>3. ListInv'
    BY <1>6, <2>1 DEF vars, Inv, ListInv, Chosen, Listed, Selected
  <2>4. AnswersInv'
    <3>1. UNCHANGED <<read, replies, rejected, definitive, verdict>>
      BY <1>6 DEF vars
    <3>2. Chosen' = Chosen /\ Heard' = Heard
      BY <2>1, <3>1 DEF Chosen, Heard
    <3>3. AnswersInv
      BY DEF Inv
    <3> QED BY <3>1, <3>2, <3>3 DEF AnswersInv, Proof, Accepted, Usable, BelongsToAttempt
  <2> QED BY <2>2, <2>3, <2>4 DEF Inv
<1> QED BY <1>1, <1>2, <1>3, <1>4, <1>5, <1>6 DEF Next

LEMMA InvAlways == Spec => []Inv
  BY InvInit, InvStep, PTL DEF Spec

\* The verification's local variables keep their types
\* (TaraVerificationService.candidate_payment_ids and verify).
THEOREM VerificationTypeCorrect == Spec => []VerificationTypeOK
<1>1. Inv => VerificationTypeOK
  BY DEF Inv
<1> QED BY <1>1, InvAlways, PTL

\* SUCCESS is returned only for a payment proved to be this attempt's, or when
\* nothing was found under any paymentId (verify).
THEOREM SuccessIsProvedAlways == Spec => []SuccessIsProved
<1>1. Inv => SuccessIsProved
  <2> SUFFICES ASSUME Inv, verdict = "SUCCESS", Replied(Usable) PROVE Replied(Proves)
    BY DEF SuccessIsProved
  <2>1. replies \in Seq(Replies)
    BY DEF Inv, VerificationTypeOK
  <2>2. PICK k \in Heard : Proof(replies[k])
    BY DEF Inv, AnswersInv, Replied, Heard
  <2>3. Proves(replies[k])
    BY <2>1, <2>2, ProofProves DEF Heard
  <2> QED BY <2>3 DEF Replied, Heard
<1> QED BY <1>1, InvAlways, PTL

\* A proof heard is the verdict, whatever was refused before it (verify).
THEOREM ProofIsTakenAlways == Spec => []ProofIsTaken
<1>1. Inv => ProofIsTaken
  <2> SUFFICES ASSUME Inv, Replied(Proves) PROVE verdict = "SUCCESS"
    BY DEF ProofIsTaken
  <2>1. PICK k \in Heard : Proves(replies[k])
    BY DEF Replied, Heard
  <2>2. replies[k] \in Replies
    <3>1. replies \in Seq(Replies)
      BY DEF Inv, VerificationTypeOK
    <3> QED BY <2>1, <3>1 DEF Heard
  <2>3. Proof(replies[k])
    BY <2>1, <2>2, ProofProves
  <2> QED BY <2>3 DEF Inv, AnswersInv
<1> QED BY <1>1, InvAlways, PTL

\* FAILURE is returned only when every usable answer was about this attempt and
\* none reported a payment (verify: a refused answer goes before a definitive one).
THEOREM FailureIsUnopposedAlways == Spec => []FailureIsUnopposed
<1>1. Inv => FailureIsUnopposed
  BY DEF Inv, AnswersInv, FailureIsUnopposed, Heard, Accepted, Proof
<1> QED BY <1>1, InvAlways, PTL

\* The ids to ask for are distinct and at most MAX_CANDIDATES, those the caller and
\* the attempt know first and complete (candidate_payment_ids).
THEOREM TrustedIdsComeFirstAlways == Spec => []TrustedIdsComeFirst
<1>1. Inv => TrustedIdsComeFirst
  BY DEF Inv, ListInv, Selected, Known, TrustedIdsComeFirst
<1> QED BY <1>1, InvAlways, PTL
=============================================================================
