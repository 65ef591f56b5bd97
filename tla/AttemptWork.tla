----------------------------- MODULE AttemptWork -----------------------------
(***************************************************************************)
(* What becomes of an attempt, with no execution, request, answer, retry,  *)
(* replica or crash in sight: one decision is bought for it at most, one   *)
(* page built on that decision is kept at most, and it comes to one        *)
(* verdict at most, which its task and the decision determine.  A verdict  *)
(* that names a page waits until the page is kept.                         *)
(***************************************************************************)
CONSTANTS
    Attempt,
    Offered,       \* what an attempt may be asked for
    Purchase,      \* the decisions that can be bought
    Asks(_),       \* whether a task asks the model
    Unasked(_),    \* what a task that does not ask comes to
    Bought(_, _),  \* what a task comes to by the decision bought for it
    Pages(_, _)    \* the page that names, if it names one

VARIABLES
    task,     \* what each attempt was asked for
    bought,   \* what was bought for it: nothing, or one decision
    kept,     \* the page kept for it, or none
    verdict   \* what it came to, if it did

vars == <<task, bought, kept, verdict>>

Init ==
    /\ task \in [Attempt -> Offered]
    /\ bought = [a \in Attempt |-> {}]
    /\ kept = [a \in Attempt |-> {}]
    /\ verdict = [a \in Attempt |-> {}]

Buy(a) ==
    /\ Asks(task[a])
    /\ bought[a] = {}
    /\ \E p \in Purchase : bought' = [bought EXCEPT ![a] = {p}]
    /\ UNCHANGED <<task, kept, verdict>>

Keep(a) ==
    /\ kept[a] = {}
    /\ \E p \in bought[a] :
          /\ Pages(task[a], p) # {}
          /\ kept' = [kept EXCEPT ![a] = Pages(task[a], p)]
    /\ UNCHANGED <<task, bought, verdict>>

Settle(a) ==
    /\ verdict[a] = {}
    /\ \/ ~Asks(task[a]) /\ verdict' = [verdict EXCEPT ![a] = {Unasked(task[a])}]
       \/ \E p \in bought[a] :
             /\ Asks(task[a])
             /\ Pages(task[a], p) \subseteq kept[a]
             /\ verdict' = [verdict EXCEPT ![a] = {Bought(task[a], p)}]
    /\ UNCHANGED <<task, bought, kept>>

Next == \E a \in Attempt : Buy(a) \/ Keep(a) \/ Settle(a)

Spec == Init /\ [][Next]_vars
=============================================================================
