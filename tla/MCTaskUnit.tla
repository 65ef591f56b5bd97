----------------------------- MODULE MCTaskUnit -----------------------------
(***************************************************************************)
(* Small units for TLC.  b1 and b1x are two bodies of attempt a1, b2 the   *)
(* body of a2; bc fails its contract, br names another release and bu      *)
(* carries no fence, all three under a1.  The window of b1 closes when the *)
(* clock first moves, the others' later.                                   *)
(***************************************************************************)
EXTENDS TaskUnit, TLC

CONSTANTS a1, a2, b1, b1x, b2, bc, br, bu, d1, d2, d3

MCAttemptOf == [b \in Body |-> IF b = b2 THEN a2 ELSE a1]
MCExpiresAt == [b \in Body |-> IF b = b1 THEN 1 ELSE 2]
MCFlawOf == [b \in Body |-> CASE b = bc -> "contract"
                              [] b = br -> "release"
                              [] b = bu -> "unfenced"
                              [] OTHER -> "none"]

Sent(b) == [shaped |-> TRUE, key |-> AttemptOf[b], body |-> b, credential |-> "bound"]

\* Only requests that can be admitted: whole races fit in the bounds.
WellFormed == {Sent(b) : b \in Body}

\* Every way a request can be turned away, beside those that can be admitted.
Everything ==
    WellFormed
        \cup {[Sent(b1) EXCEPT !.credential = c] : c \in {"foreign", "invalid"}}
        \cup {[Sent(b1) EXCEPT !.shaped = FALSE], [Sent(b1) EXCEPT !.key = a2]}

Symmetry == Permutations(Delivery)
=============================================================================
