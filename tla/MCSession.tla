----------------------------- MODULE MCSession -----------------------------
(***************************************************************************)
(* Sessions of three model calls for TLC, with amounts of every spelling   *)
(* the accumulator tells apart, two of which the contract does not admit.  *)
(***************************************************************************)
EXTENDS Session

Amount(negative, whole, fraction) ==
    [negative |-> negative, whole |-> whole, point |-> fraction # <<>>, fraction |-> fraction]

Amounts ==
    {Amount(FALSE, <<0>>, <<>>), Amount(TRUE, <<0>>, <<0>>),
     Amount(FALSE, <<9>>, <<9, 5>>), Amount(FALSE, <<0>>, <<0, 5>>),
     Amount(FALSE, <<0>>, <<5, 0>>), Amount(TRUE, <<1>>, <<5>>),
     Amount(FALSE, <<1, 0>>, <<>>),
     Amount(FALSE, <<0, 1>>, <<>>), [Amount(FALSE, <<1>>, <<>>) EXCEPT !.point = TRUE]}
=============================================================================
