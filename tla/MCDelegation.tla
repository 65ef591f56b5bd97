---------------------------- MODULE MCDelegation ----------------------------
(***************************************************************************)
(* Runs of three turns for TLC, with plans of up to three steps where two  *)
(* are allowed, and texts of up to seven runes where a value holds two.      *)
(***************************************************************************)
EXTENDS Delegation

CONSTANTS x, y

\* Nothing, one value's worth, a value and a rune, two and three chunks, and more
\* chunks than a payload with two members beside them can hold.
MCText == {<<>>, <<x>>, <<x, y>>, <<x, y, x>>, <<x, x, y, y>>, <<x, y, x, y, x>>,
           <<x, y, x, y, x, y, x>>}

A(action, text) == [action |-> action, permitted |-> TRUE, tool |-> <<x>>, text |-> text]

Steps ==
    {A("delegate", t) : t \in MCText}
        \cup {A(a, t) : a \in {"continue", "tool_call", "need_input"}, t \in {<<>>, <<x, y>>, <<x, y, x>>}}
        \cup {A("refuse", <<x>>), A("final", <<>>), A("other", <<>>),
              [A("delegate", <<x>>) EXCEPT !.permitted = FALSE],
              [A("tool_call", <<x>>) EXCEPT !.tool = <<>>]}

Later == {A("continue", <<x>>), A("delegate", <<x, y>>)}

Of(steps) == [present |-> TRUE, strict |-> TRUE, plan |-> TRUE, steps |-> steps]

MCPlan ==
    {Of(<<>>)} \cup {Of(<<s>>) : s \in Steps}
        \cup {Of(<<s, t>>) : s \in Steps, t \in Later}
        \cup {Of(<<s, t, u>>) : s, t, u \in Later}
        \cup {[Of(<<A("continue", <<x>>)>>) EXCEPT !.present = FALSE],
              [Of(<<A("continue", <<x>>)>>) EXCEPT !.strict = FALSE],
              [Of(<<A("continue", <<x>>)>>) EXCEPT !.plan = FALSE]}

Made(id, content) == [id |-> id, content |-> content]
MCArtifact == {Made(x, x), Made(x, y), Made(y, x)}

MCStray == {Padded(1), Unreadable}
=============================================================================
