------------------------- MODULE MCPageComposition -------------------------
(***************************************************************************)
(* Two components and four names for TLC: defaults that fit, overlap, are  *)
(* null, out of bounds or undeclared, and pages of up to three sections    *)
(* where two are allowed.                                                  *)
(***************************************************************************)
EXTENDS PageComposition, TLC

V(kind, measure) == [kind |-> kind, measure |-> measure]
D(type) == [type |-> type, values |-> {}, maxLength |-> 0, minimum |-> None, maximum |-> None,
            required |-> FALSE]

Title == [D("string") EXCEPT !.maxLength = 2, !.required = TRUE]
Size == [D("number") EXCEPT !.minimum = 1, !.maximum = 2]
Tone == [D("enum") EXCEPT !.values = {1}]

Hero == [name |-> "Hero", properties |-> [title |-> Title, size |-> Size, open |-> D("boolean")]]
Note == [name |-> "Note", properties |-> [title |-> Tone]]

\* The defaults a component may be given.
DefaultData ==
    {[n \in {} |-> None],
     "Hero" :> [title |-> V("text", 1), size |-> V("number", 1)],
     "Hero" :> [size |-> V("number", 3)],
     "Note" :> [title |-> V("text", 1)]}
DefaultProperties ==
    {[n \in {} |-> None],
     "Hero" :> [title |-> V("text", 2), open |-> V("truth", 0)],
     "Hero" :> [title |-> V("null", 0)],
     "Hero" :> [extra |-> V("text", 1)]}

Chosen == [theme |-> 1, spacing |-> 1]
Brief(data, properties, reduced) ==
    [readable |-> TRUE, components |-> <<Hero, Note>>, data |-> data, properties |-> properties,
     allowed |-> [theme |-> {1, 2}, spacing |-> {1}], chosen |-> Chosen, maximumSections |-> 2,
     effects |-> {"fade"}, maximumDuration |-> 1, reduced |-> reduced]
Plain == Brief([n \in {} |-> None], [n \in {} |-> None], FALSE)

MCSupply ==
    {Brief(data, properties, reduced) :
        data \in DefaultData, properties \in DefaultProperties, reduced \in BOOLEAN}
    \cup {[Plain EXCEPT !.readable = FALSE], [Plain EXCEPT !.components = <<>>],
          [Plain EXCEPT !.components[2].properties.title.values = {}],
          [Plain EXCEPT !.components[1].properties.open.type = "unknown"],
          [Plain EXCEPT !.chosen.theme = 3], [Plain EXCEPT !.maximumSections = 0],
          [Plain EXCEPT !.effects = {}], [Plain EXCEPT !.maximumDuration = -1]}

Proposed ==
    {[n \in {} |-> None],
     [title |-> V("text", 2)],
     [title |-> V("text", 1), size |-> V("number", 2), open |-> V("truth", 1)],
     [title |-> V("text", 3)], [title |-> V("null", 0)], [size |-> V("number", 0)],
     [title |-> V("number", 1)], [extra |-> V("truth", 0)]}
Motions == {None, [effect |-> "fade", duration |-> 1], [effect |-> "fade", duration |-> 2],
            [effect |-> "none", duration |-> 1], [effect |-> "fade", duration |-> 0]}

S(component, properties, animation) ==
    [component |-> component, properties |-> properties, animation |-> animation]
Sections ==
    {S("Hero", properties, None) : properties \in Proposed}
        \cup {S("Hero", [title |-> V("text", 2)], animation) : animation \in Motions}
        \cup {S("Note", [title |-> V("text", 1)], None), S("Note", [n \in {} |-> None], None),
              S("Ghost", [n \in {} |-> None], None)}
Of(sections) == [present |-> TRUE, strict |-> TRUE, blank |-> FALSE, sections |-> sections]
First == S("Note", [title |-> V("text", 1)], None)

MCProposal ==
    {Of(<<s>>) : s \in Sections} \cup {Of(<<s, t>>) : s, t \in Sections}
    \cup {Of(<<>>), Of(<<First, First, First>>), [Of(<<First>>) EXCEPT !.present = FALSE],
          [Of(<<First>>) EXCEPT !.strict = FALSE], [Of(<<First>>) EXCEPT !.blank = TRUE]}

MCName == {"title", "size", "open", "extra"}
=============================================================================
