--------------------------- MODULE AttemptLedger ----------------------------
(***************************************************************************)
(* What a unit promises of the attempts dispatched to it, with no handler, *)
(* lock, slot or clock in sight: an attempt is free, held by the one       *)
(* delivery that executes it, or answered by the one that executed it, and *)
(* a delivery hears only an answer to the very bytes it asked with.  An    *)
(* answer may be forgotten, but only to make room for another when Limit   *)
(* are remembered, or when the unit starts afresh.                         *)
(***************************************************************************)
EXTENDS Naturals, FiniteSets

CONSTANTS
    Attempt, Body, Delivery,
    AttemptOf,  \* the attempt each body belongs to
    Limit,      \* how many answers are remembered
    None

VARIABLES
    holder,  \* who holds each attempt, and with what bytes; None when it is free
    asked,   \* the bytes each delivery came with, None before it comes
    heard    \* whose answer each delivery is given, None until it is

vars == <<holder, asked, heard>>

Holder == [state : {"executing", "answered"}, body : Body, by : Delivery]

TypeOK ==
    /\ holder \in [Attempt -> Holder \cup {None}]
    /\ asked \in [Delivery -> Body \cup {None}]
    /\ heard \in [Delivery -> Delivery \cup {None}]

Init ==
    /\ holder = [a \in Attempt |-> None]
    /\ asked = [d \in Delivery |-> None]
    /\ heard = [d \in Delivery |-> None]

Executing(a) == holder[a] # None /\ holder[a].state = "executing"
Answered(a)  == holder[a] # None /\ holder[a].state = "answered"

Ask(d, b) ==
    /\ asked[d] = None
    /\ asked' = [asked EXCEPT ![d] = b]
    /\ UNCHANGED <<holder, heard>>

Begin(d, b) ==
    /\ asked[d] = b
    /\ heard[d] = None
    /\ holder[AttemptOf[b]] = None
    /\ holder' = [holder EXCEPT ![AttemptOf[b]] =
                     [state |-> "executing", body |-> b, by |-> d]]
    /\ UNCHANGED <<asked, heard>>

\* The holder answers, and a full ledger forgets one other answer for it.
Answer(a) ==
    /\ Executing(a)
    /\ heard' = [heard EXCEPT ![holder[a].by] = holder[a].by]
    /\ LET kept == {x \in Attempt : Answered(x)} IN
       \E forgotten \in SUBSET kept :
          /\ Cardinality(forgotten) = (IF Cardinality(kept) < Limit THEN 0 ELSE 1)
          /\ holder' = [x \in Attempt |->
                           IF x = a THEN [holder[a] EXCEPT !.state = "answered"]
                           ELSE IF x \in forgotten THEN None ELSE holder[x]]
    /\ UNCHANGED asked

GiveUp(a) ==
    /\ Executing(a)
    /\ holder' = [holder EXCEPT ![a] = None]
    /\ UNCHANGED <<asked, heard>>

Repeat(d, a) ==
    /\ Answered(a) /\ holder[a].body = asked[d]
    /\ heard[d] = None
    /\ heard' = [heard EXCEPT ![d] = holder[a].by]
    /\ UNCHANGED <<holder, asked>>

StartAfresh ==
    /\ holder' = [a \in Attempt |-> None]
    /\ UNCHANGED <<asked, heard>>

Settle(a) == Answer(a) \/ GiveUp(a) \/ (Executing(a) /\ StartAfresh)

Next ==
    \/ \E d \in Delivery, b \in Body : Ask(d, b) \/ Begin(d, b)
    \/ \E a \in Attempt : Settle(a)
    \/ \E d \in Delivery, a \in Attempt : Repeat(d, a)
    \/ StartAfresh

\* No attempt is held for ever by an execution that neither answers nor ends.
Spec == Init /\ [][Next]_vars /\ \A a \in Attempt : WF_vars(Settle(a))
=============================================================================
