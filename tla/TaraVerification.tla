-------------------------- MODULE TaraVerification --------------------------
(***************************************************************************)
(* One server-to-server verification of a PaymentAttempt                   *)
(* (TaraVerificationService): which paymentIds are asked for, how each     *)
(* answer is bound to the attempt, and what is made of all of them.  Every *)
(* question is a call of its own, so Tara's answers need not agree with    *)
(* each other.  Webhooks and checkers use the outcome; Tara!Answers is     *)
(* what is left of it there.                                               *)
(***************************************************************************)
EXTENDS Integers, Sequences, SequencesExt

CONSTANTS
    PaymentIds,      \* Tara's paymentIds
    Product,         \* the attempt's own tara_product_id, seen as a paymentId on PayPal
    Nothing,         \* an empty paymentId
    MaxCandidates,   \* MAX_CANDIDATES
    MaxNamed         \* bound: earlier webhooks that name a paymentId

ASSUME VerificationAssumption ==
    /\ Product \notin PaymentIds
    /\ Nothing \notin PaymentIds \cup {Product}
    /\ MaxCandidates \in Nat \ {0}
    /\ MaxNamed \in Nat

Ids == PaymentIds \cup {Product}

\* What Tara may answer about one paymentId. An amount matters for a SUCCESS
\* only; an UNKNOWN answer is never looked into.
Bindings == [product : {"own", "other"}, payment : {"asked", "absent", "other"},
             business : {"ours", "absent", "other"}]

Replies ==
    [status : {"UNKNOWN"}, bound : {[product |-> "other", payment |-> "absent", business |-> "absent"]},
     exact : {FALSE}]
    \cup [status : {"FAILURE", "PENDING"}, bound : Bindings, exact : {FALSE}]
    \cup [status : {"SUCCESS"}, bound : Bindings, exact : BOOLEAN]

VARIABLES
    preferred,    \* the paymentId the caller was given, if any
    stored,       \* the paymentId the attempt is linked to, if any
    named,        \* paymentIds of earlier webhooks for the product, newest first
    read,         \* how many of the given ids were looked at
    candidates,   \* the paymentIds to ask for, in this order
    replies,      \* history: Tara's answers so far
    rejected,     \* whether an answer was refused
    definitive,   \* the first usable answer that is no success, "" before one came
    verdict       \* what verify returns, "" before

vars == <<preferred, stored, named, read, candidates, replies, rejected, definitive, verdict>>

-----------------------------------------------------------------------------
\* candidate_payment_ids
Newest(seq) == SubSeq(seq, 1, IF Len(seq) < MaxCandidates THEN Len(seq) ELSE MaxCandidates)

\* Mutant of Given: the paymentIds of webhooks are asked for first.
GivenByWebhooksFirst == Newest(named) \o <<preferred, stored>>

\* The ids it is given, in order of trust
Given == <<preferred, stored>> \o Newest(named)

\* Each id counts once; our own product id is no paymentId.
AddId(list, id) ==
    IF id \in {Nothing, Product} \/ Contains(list, id) THEN list ELSE Append(list, id)

VerificationTypeOK ==
    /\ preferred \in Ids \cup {Nothing}
    /\ stored \in PaymentIds \cup {Nothing}
    /\ named \in Seq(Ids)
    /\ read \in 0..Len(Given)
    /\ candidates \in Seq(PaymentIds)
    /\ replies \in Seq(Replies) /\ Len(replies) <= Len(candidates)
    /\ rejected \in BOOLEAN
    /\ definitive \in {"", "FAILURE", "PENDING"}
    /\ verdict \in {"", "SUCCESS", "FAILURE", "PENDING", "UNKNOWN", "REFUSED", "ERROR"}

Init ==
    /\ preferred \in Ids \cup {Nothing}
    /\ stored \in PaymentIds \cup {Nothing}
    /\ named \in UNION {[1..n -> Ids] : n \in 0..MaxNamed}
    /\ read = 0
    /\ candidates = <<>>
    /\ replies = <<>>
    /\ rejected = FALSE
    /\ definitive = ""
    /\ verdict = ""

-----------------------------------------------------------------------------
\* One round of its loop; the slice comes after the last.
Collect ==
    /\ read < Len(Given)
    /\ read' = read + 1
    /\ LET list == AddId(candidates, Given[read + 1])
       IN  candidates' = IF read' = Len(Given) THEN Newest(list) ELSE list
    /\ UNCHANGED <<preferred, stored, named, replies, rejected, definitive, verdict>>

\* verify: candidates are asked for one after the other.
Chosen == read = Len(Given)
Asking == Chosen /\ verdict = "" /\ Len(replies) < Len(candidates)
Asked == Chosen /\ verdict = "" /\ Len(replies) = Len(candidates)

\* Mutant of BelongsToAttempt: the payment asked for is not compared.
BelongsToProduct(bound) == bound.product = "own" /\ bound.business \in {"ours", "absent"}

BelongsToAttempt(bound) ==
    /\ bound.product = "own"
    /\ bound.payment \in {"asked", "absent"}
    /\ bound.business \in {"ours", "absent"}

\* Mutant of Proof: an answer refused before it discredits it.
ProofUnlessRejected(reply) ==
    /\ reply.status = "SUCCESS"
    /\ BelongsToAttempt(reply.bound)
    /\ reply.exact
    /\ ~rejected

\* What proves the payment, whatever was heard before.
Proof(reply) == reply.status = "SUCCESS" /\ BelongsToAttempt(reply.bound) /\ reply.exact

\* One round of the loop. The first answer that proves the payment ends it.
Hear(reply) ==
    LET mine == BelongsToAttempt(reply.bound)
        refused == reply.status # "UNKNOWN" /\ (~mine \/ (reply.status = "SUCCESS" /\ ~reply.exact))
        usable == mine /\ reply.status \in {"FAILURE", "PENDING"}
    IN  /\ Asking
        /\ replies' = Append(replies, reply)
        /\ verdict' = IF Proof(reply) THEN "SUCCESS" ELSE ""
        /\ rejected' = (rejected \/ refused)
        /\ definitive' = IF usable /\ definitive = "" THEN reply.status ELSE definitive
        /\ UNCHANGED <<preferred, stored, named, read, candidates>>

\* Mutant of Conclude: a definitive answer counts before a refused one.
ConcludeByAnswer ==
    /\ Asked
    /\ rejected \/ definitive # ""
    /\ verdict' = IF definitive # "" THEN definitive ELSE "REFUSED"
    /\ UNCHANGED <<preferred, stored, named, read, candidates, replies, rejected, definitive>>

\* No candidate proved it: a refused answer counts before a definitive one.
Conclude ==
    /\ Asked
    /\ rejected \/ definitive # ""
    /\ verdict' = IF rejected THEN "REFUSED" ELSE definitive
    /\ UNCHANGED <<preferred, stored, named, read, candidates, replies, rejected, definitive>>

\* The documented lookup by our own product id, whose answer carries no amount;
\* an answer for another product is refused.
FallBack(status) ==
    /\ Asked
    /\ ~rejected /\ definitive = ""
    /\ verdict' = status
    /\ UNCHANGED <<preferred, stored, named, read, candidates, replies, rejected, definitive>>

\* Any of the calls may raise, which ends the verification for the caller.
Raise ==
    /\ Asking \/ (Asked /\ ~rejected /\ definitive = "")
    /\ verdict' = "ERROR"
    /\ UNCHANGED <<preferred, stored, named, read, candidates, replies, rejected, definitive>>

Next ==
    \/ Collect
    \/ \E reply \in Replies : Hear(reply)
    \/ Conclude
    \/ \E status \in {"SUCCESS", "FAILURE", "PENDING", "UNKNOWN", "REFUSED"} : FallBack(status)
    \/ Raise

Spec == Init /\ [][Next]_vars

-----------------------------------------------------------------------------
\* Correctness

Proves(reply) ==
    /\ reply.status = "SUCCESS"
    /\ reply.exact
    /\ reply.bound \in [product : {"own"}, payment : {"asked", "absent"}, business : {"ours", "absent"}]

Replied(P(_)) == \E k \in 1..Len(replies) : P(replies[k])
Usable(reply) == reply.status # "UNKNOWN"

\* A verification that ended with SUCCESS heard the payment proved, or heard
\* nothing at all about it under any paymentId and took the answer by product
\* id: no foreign, mistaken or unfinished payment is ever turned into one.
SuccessIsProved == verdict = "SUCCESS" => Replied(Proves) \/ ~Replied(Usable)

\* ... and a proof is never lost, whatever else was answered before it: forged
\* or foreign paymentIds can delay it but not replace it.
ProofIsTaken == Replied(Proves) => verdict = "SUCCESS"

\* A failure is reported only when nothing Tara said about the other
\* candidates was refused, so a declined try never hides an answer staff must see.
FailureIsUnopposed ==
    verdict = "FAILURE" => \A k \in 1..Len(replies) :
        Usable(replies[k]) => BelongsToAttempt(replies[k].bound) /\ replies[k].status # "SUCCESS"

\* Each lookup asks for something new, and the paymentIds the caller and the
\* attempt already know are never crowded out by those of stray webhooks.
TrustedIdsComeFirst ==
    LET known == {preferred, stored} \ {Nothing, Product}
        places == 1..Len(candidates)
    IN  Chosen =>
        /\ IsInjective(candidates) /\ Len(candidates) <= MaxCandidates
        /\ MaxCandidates >= 2 => known \subseteq {candidates[k] : k \in places}
        /\ \A k, l \in places : candidates[k] \in known /\ candidates[l] \notin known => k < l
=============================================================================
