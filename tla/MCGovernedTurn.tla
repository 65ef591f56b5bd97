--------------------------- MODULE MCGovernedTurn ---------------------------
(***************************************************************************)
(* Small sets of executions for TLC.  Two attempts, the first executed     *)
(* twice: by two replicas, or by one and, after a crash, by another.       *)
(***************************************************************************)
EXTENDS GovernedTurn, TLC

CONSTANTS a1, a2, e1, e2, e3, page, other

Shared == (e1 :> a1) @@ (e2 :> a1) @@ (e3 :> a2)

Asks(turn) == [turn |-> turn, brief |-> "complete", delegation |-> "none",
               released |-> {"model", "artifact"}]
Composing == {Asks("compose")}
ComposingOrPlanning == {Asks("compose"), Asks("plan")}

Meanings == [o \in Output |-> "page"]

Alike == Permutations({e1, e2})
=============================================================================
