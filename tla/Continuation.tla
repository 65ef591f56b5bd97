---------------------------- MODULE Continuation ----------------------------
(***************************************************************************)
(* A text too long for one value of a bounded map travels as key.0, key.1  *)
(* and so on.  chunkedPayloadValue of the Page Change Manager's turn.go    *)
(* writes that form, Brief.Joined of runtime/brief.go reads it.            *)
(*                                                                         *)
(* A map is a function from the members of one key to texts, and a text is *)
(* a sequence of runes.  What follows key. is read with strconv.Atoi, which *)
(* takes 01 and +1 for 1; a member is therefore the index it spells and    *)
(* how it spells it, and only the plain spelling is ever looked up.        *)
(***************************************************************************)
EXTENDS Naturals, SequencesExt

CONSTANTS
    ValueBound,   \* maximumPayloadValueRunes
    MemberBound   \* maximumPayloadMembers

ASSUME BoundAssumption == ValueBound \in Nat \ {0} /\ MemberBound \in Nat \ {0}

Alone       == [spelling |-> "none", index |-> 0]
Chunk(i)    == [spelling |-> "plain", index |-> i]
Padded(i)   == [spelling |-> "padded", index |-> i]
Unreadable  == [spelling |-> "text", index |-> 0]

\* chunkedPayloadValue: the text alone, or its chunks in order, each as long as
\* a value may be and the last one as long as what is left.
Chunked(text) ==
    IF Len(text) <= ValueBound THEN [m \in {Alone} |-> text]
    ELSE [m \in {Chunk(i) : i \in 0..((Len(text) - 1) \div ValueBound)} |->
             LET end == (m.index + 1) * ValueBound IN
             SubSeq(text, m.index * ValueBound + 1, IF end > Len(text) THEN Len(text) ELSE end)]

\* decision: a value too long for a member, or more members than the contract
\* admits, and nothing is sent; an empty value is left out.
NotEmpty(values) == [m \in {n \in DOMAIN values : values[n] # <<>>} |-> values[m]]
FitsEachAlone(values) == \A m \in DOMAIN values : Len(values[m]) <= ValueBound
Fits(values) == FitsEachAlone(values) /\ Cardinality(DOMAIN NotEmpty(values)) <= MemberBound

\* The indexes the members spell, in order; two spellings of one are two.
Indexes(map) ==
    LET spelled == {m \in DOMAIN map : m.spelling \in {"plain", "padded"}}
        sorted == CHOOSE s \in [1..Cardinality(spelled) -> spelled] :
                     \A p, q \in DOMAIN s : p < q => s[p] # s[q] /\ s[p].index <= s[q].index
    IN  [p \in DOMAIN sorted |-> sorted[p].index]

\* The positions before the first at which the index is another one.
Unbroken(map) ==
    LET indexes == Indexes(map) IN
    {p \in DOMAIN indexes : \A q \in 1..p : indexes[q] = q - 1}

\* values[key.i]: a member that is missing reads as the empty text.
Looked(map, i) == IF Chunk(i) \in DOMAIN map THEN map[Chunk(i)] ELSE <<>>

\* A slip: the chunks that are there, joined across the ones that are not.
JoinedAcross(map) ==
    IF Alone \in DOMAIN map THEN map[Alone]
    ELSE LET indexes == Indexes(map) IN
         FlattenSeq([p \in DOMAIN indexes |-> Looked(map, indexes[p])])

\* Joined: the key alone wins; the empty text stands for none.
Joined(map) ==
    IF Alone \in DOMAIN map THEN map[Alone]
    ELSE FlattenSeq([p \in 1..Cardinality(Unbroken(map)) |-> Looked(map, p - 1)])
=============================================================================
