--------------------------- MODULE ReplayRegister ---------------------------
(***************************************************************************)
(* The replay register of one unit (runtime/admission.go): the bounded     *)
(* memory of the attempts it has answered, and the claims on the attempts  *)
(* it is executing.  Every operator below is one method of replayRegister, *)
(* taken under its lock, and so one atomic step of whoever calls it.       *)
(*                                                                         *)
(* A body stands for the bytes of a request and for their digest: sha256   *)
(* is taken to tell different bodies apart.  An outcome's bytes are named  *)
(* by the delivery whose execution produced them.                          *)
(***************************************************************************)
EXTENDS Naturals, Sequences

CONSTANTS
    Attempt,   \* physical attempt identities
    Body,      \* request bodies, each standing for its digest
    Delivery,  \* requests the unit receives
    Limit,     \* replayRegisterSize: how many outcomes are remembered
    None       \* an absent map entry

Outcome == [body : Body, by : Delivery]

ASSUME LimitAssumption == Limit \in Nat \ {0}
ASSUME NoneAssumption  == None \notin Body \cup Delivery \cup Outcome

VARIABLES
    order,     \* remembered attempts, oldest first
    outcomes,  \* what each attempt was answered, None when not remembered
    pending    \* the body that claimed each attempt, None when unclaimed

register == <<order, outcomes, pending>>

RegisterType ==
    /\ order \in Seq(Attempt)
    /\ outcomes \in [Attempt -> Outcome \cup {None}]
    /\ pending \in [Attempt -> Body \cup {None}]

RegisterInit ==
    /\ order = <<>>
    /\ outcomes = [a \in Attempt |-> None]
    /\ pending = [a \in Attempt |-> None]

Known(a)   == outcomes[a] # None
Claimed(a) == pending[a] # None

(***************************************************************************)
(* What lookup and reserve answer.  lookup reads only the outcomes; the    *)
(* claims are reserve's alone.                                             *)
(***************************************************************************)
\* Slips that the runs tell apart from what lookup and reserve do: the digest
\* of the bytes not compared, or one of the two maps not consulted.
ReplayableByKey(a, b)      == Known(a)
ClaimedOtherByKey(a, b)    == ~Known(a) /\ Claimed(a)
ClaimableByOutcome(a)      == ~Known(a)
ClaimableByPending(a)      == ~Claimed(a)

Replayable(a, b)   == Known(a) /\ outcomes[a].body = b
AnsweredOther(a, b) == Known(a) /\ outcomes[a].body # b
ClaimedOther(a, b)  == ~Known(a) /\ Claimed(a) /\ pending[a] # b
Executing(a, b)    == ~Known(a) /\ pending[a] = b
Claimable(a)       == ~Known(a) /\ ~Claimed(a)

Claim(a, b) ==
    /\ pending' = [pending EXCEPT ![a] = b]
    /\ UNCHANGED <<order, outcomes>>

Release(a) ==
    /\ pending' = [pending EXCEPT ![a] = None]
    /\ UNCHANGED <<order, outcomes>>

\* The attempts forgotten to make room for an answer to a.
Evicted(a) ==
    IF ~Known(a) /\ Len(order) >= Limit THEN {Head(order)} ELSE {}

\* Record without its delete(r.pending, attempt).
RecordKeepingClaim(a, b, d) ==
    /\ order' = IF Known(a) THEN order
                ELSE Append(IF Evicted(a) = {} THEN order ELSE Tail(order), a)
    /\ outcomes' = [x \in Attempt |->
                       IF x = a THEN [body |-> b, by |-> d]
                       ELSE IF x \in Evicted(a) THEN None ELSE outcomes[x]]
    /\ UNCHANGED pending

\* Record that reuses the bytes of the outcome it evicts.
RecordAliased(a, b, d) ==
    /\ pending' = [pending EXCEPT ![a] = None]
    /\ order' = IF Known(a) THEN order
                ELSE Append(IF Evicted(a) = {} THEN order ELSE Tail(order), a)
    /\ outcomes' = [x \in Attempt |->
                       IF x = a \/ x \in Evicted(a) THEN [body |-> b, by |-> d]
                       ELSE outcomes[x]]

Record(a, b, d) ==
    /\ pending' = [pending EXCEPT ![a] = None]
    /\ order' = IF Known(a) THEN order
                ELSE Append(IF Evicted(a) = {} THEN order ELSE Tail(order), a)
    /\ outcomes' = [x \in Attempt |->
                       IF x = a THEN [body |-> b, by |-> d]
                       ELSE IF x \in Evicted(a) THEN None ELSE outcomes[x]]

\* The register is process memory: it ends with the process.
Forget ==
    /\ order' = <<>>
    /\ outcomes' = [a \in Attempt |-> None]
    /\ pending' = [a \in Attempt |-> None]
-----------------------------------------------------------------------------
\* The register remembers at most Limit attempts, its order lists each of
\* them once, and no attempt is both answered and claimed (admission.go:338).
RegisterCoherent ==
    /\ Len(order) <= Limit
    /\ \A i, j \in 1..Len(order) : order[i] = order[j] => i = j
    /\ \A a \in Attempt : Known(a) <=> \E i \in 1..Len(order) : order[i] = a
    /\ \A a \in Attempt : ~(Known(a) /\ Claimed(a))
=============================================================================
