----------------------------- MODULE MCReplicas -----------------------------
(***************************************************************************)
(* Two replicas for TLC, and two deliveries of one attempt, whose task may *)
(* be any of the turns the two Agents take.                                *)
(***************************************************************************)
EXTENDS Replicas, TLC

CONSTANTS a1, e1, e2, r1, r2, page, junk, refuses

Twice == (e1 :> a1) @@ (e2 :> a1)

Asks(t, b, d, paths) == [turn |-> t, brief |-> b, delegation |-> d, released |-> paths]
Roles ==
    {Asks("compose", "complete", "none", paths) : paths \in {{"model", "artifact"}, {"model"}, {}}}
        \cup {Asks("compose", b, "none", {"model", "artifact"}) : b \in {"incomplete", "forbidden"}}
        \cup {Asks("plan", b, "none", {"model"}) : b \in {"complete", "incomplete", "forbidden"}}
        \cup {Asks("conclude", "complete", d, {"model"}) :
                 d \in {"pending", "refused", "failed", "completed", "foreign", "unknown"}}
        \cup {Asks("conclude", b, "completed", {"model"}) : b \in {"incomplete", "forbidden"}}

Meanings == [o \in Output |->
    CASE o = page      -> "page"
      [] o = junk      -> "unusable"
      [] o = refuses   -> "refuse"]
=============================================================================
