-------------------------- MODULE PageComposition --------------------------
(***************************************************************************)
(* How the Page Candidate Specialist composes a page out of the brief it   *)
(* is supplied and the composition the governed model proposes:            *)
(* readConstraints, readComposition and composePage of                     *)
(* agents/page-candidate-specialist/page.go.                               *)
(*                                                                         *)
(* The maps of a section are ranged over in any order, so one property is  *)
(* one step and the order a choice; what comes out must not depend on it.  *)
(* A value is its JSON kind and its measure: the length of a text or the   *)
(* size of a number.  The names "animation" and "id", which composePage    *)
(* writes itself, are fields of a block apart from its properties.         *)
(***************************************************************************)
EXTENDS Integers, Sequences, FiniteSets

CONSTANTS
    Supply,    \* the briefs that may be supplied
    Proposal,  \* what the governed model may propose
    Name,      \* names of properties
    None

Kind == {"text", "number", "truth", "null"}
Value == [kind : Kind, measure : Int]
Aspect == {"theme", "spacing"}

ASSUME SupplyAssumption == \A s \in Supply :
    /\ \A i \in DOMAIN s.components : DOMAIN s.components[i].properties \subseteq Name
    /\ DOMAIN s.allowed = Aspect /\ DOMAIN s.chosen = Aspect
ASSUME ProposalAssumption ==
    /\ None \notin Proposal
    /\ \A p \in Proposal : p.sections \in Seq({p.sections[i] : i \in DOMAIN p.sections})

VARIABLES
    supplied,    \* the brief of the turn
    proposed,    \* what the model proposed, None before it is asked
    stage,       \* which part of the turn is next
    at,          \* the section that is composed
    left,        \* the names of the stage's map still to be read
    props,       \* the properties of the section so far
    blocks,      \* the blocks of the sections before it
    defaulted,   \* whether a default was applied anywhere
    suppressed,  \* whether motion was suppressed anywhere
    outcome      \* the page, or why there is none; None until then

brief == <<supplied, proposed>>
page == <<blocks, defaulted, suppressed>>
vars == <<brief, stage, at, left, props, page, outcome>>

Init ==
    /\ supplied \in Supply /\ proposed = None
    /\ stage = "read" /\ at = 0 /\ left = {}
    /\ props = <<>> /\ blocks = <<>>
    /\ defaulted = FALSE /\ suppressed = FALSE
    /\ outcome = None

-----------------------------------------------------------------------------
(***************************************************************************)
(* What is declared, and what it admits.                                   *)
(***************************************************************************)

Checkable(definition) ==
    /\ definition.type # "unknown"
    /\ definition.type = "enum" => definition.values # {}

\* readConstraints: the brief is one a page can be composed against.
Sound(s) ==
    /\ s.readable /\ s.components # <<>>
    /\ \A i \in DOMAIN s.components :
          LET properties == s.components[i].properties IN
          s.components[i].name # "" /\ DOMAIN properties # {} /\ \A n \in DOMAIN properties : Checkable(properties[n])
    /\ s.maximumSections >= 1
    /\ \A aspect \in Aspect : s.chosen[aspect] \in s.allowed[aspect]
    /\ s.effects # {} /\ s.maximumDuration >= 0

\* The first component declared under a name, and what it declares.
Declared(s, component) == {s.components[i].name : i \in DOMAIN s.components}
DefinitionOf(s, component) ==
    LET i == CHOOSE j \in DOMAIN s.components :
                 /\ s.components[j].name = component
                 /\ \A k \in 1..(j - 1) : s.components[k].name # component
    IN s.components[i].properties

\* readProperty: a value is read as its declared type or refused.
Admits(d, value) ==
    CASE d.type = "string"  -> value.kind = "text"
                                 /\ (d.maxLength > 0 => value.measure <= d.maxLength)
      [] d.type = "enum"    -> value.kind = "text" /\ value.measure \in d.values
      [] d.type = "number"  -> /\ value.kind = "number"
                               /\ d.minimum # None => value.measure >= d.minimum
                               /\ d.maximum # None => value.measure <= d.maximum
      [] d.type = "boolean" -> value.kind = "truth"

Still == [effect |-> "none", duration |-> 0]

\* A slip: only an effect with a duration taken for motion.
MovesForAWhile(animation) == animation # None /\ animation.duration > 0

\* What reduced motion takes away: an effect other than none.
Moves(animation) == animation # None /\ animation.effect \notin {"", "none"}

\* resolveAnimation's refusal.
MotionRefused(s, animation) ==
    /\ ~s.reduced /\ animation # None
    /\ \/ animation.effect \notin s.effects
       \/ animation.duration < 0 \/ animation.duration > s.maximumDuration

\* resolveAnimation: the motion of a section.
Motion(s, animation) == IF s.reduced \/ animation = None THEN Still ELSE animation

-----------------------------------------------------------------------------
(***************************************************************************)
(* The turn.                                                               *)
(***************************************************************************)
Stop(error) ==
    /\ outcome' = [error |-> error, blocks |-> <<>>, warnings |-> {}]
    /\ stage' = "over"
    /\ UNCHANGED <<brief, at, left, props, page>>

\* A stage that ranges over a map starts with every name of it.
Enter(next, map) ==
    /\ stage' = next /\ left' = DOMAIN map
    /\ UNCHANGED <<brief, at, props, page, outcome>>

\* Everything supplied is read before the model is asked.
Read ==
    /\ stage = "read"
    /\ \/ ~Sound(supplied) /\ Stop("context")
       \/ /\ Sound(supplied)
          /\ stage' = "hear"
          /\ UNCHANGED <<brief, at, left, props, page, outcome>>

\* readComposition, and the bound composePage looks at first.
Objection(s, p) ==
    IF ~p.present THEN "output"
    ELSE IF ~p.strict THEN "ExpandsAuthority"
    ELSE IF p.sections = <<>> \/ p.blank THEN "Incomplete"
    ELSE IF Len(p.sections) > s.maximumSections THEN "OutsideConstraints"
    ELSE "none"

Hear ==
    /\ stage = "hear" /\ proposed = None
    /\ proposed' \in Proposal
    /\ IF Objection(supplied, proposed') = "none"
       THEN stage' = "section" /\ at' = 1 /\ UNCHANGED outcome
       ELSE /\ outcome' = [error |-> Objection(supplied, proposed'), blocks |-> <<>>,
                           warnings |-> {}]
            /\ stage' = "over" /\ UNCHANGED at
    /\ UNCHANGED <<supplied, left, props, page>>

Section == proposed.sections[at]
Here == DefinitionOf(supplied, Section.component)
Absent == [n \in {} |-> None]
DefaultsOf(s, part, component) ==
    IF component \in DOMAIN s[part] THEN s[part][component] ELSE Absent

\* The section's component is resolved, and its default data come first.
BeginSection ==
    /\ stage = "section"
    /\ IF Section.component \in Declared(supplied, Section.component)
       THEN /\ stage' = "data" /\ props' = Absent
            /\ left' = DOMAIN DefaultsOf(supplied, "data", Section.component)
            /\ UNCHANGED <<brief, at, page, outcome>>
       ELSE Stop("OutsideSchema")

\* One name of the map that is ranged over: its value is written, over what an
\* earlier map wrote, or the turn ends with an error that names its author.
Write(map, author, isDefault) ==
    \E n \in left :
        IF n \in DOMAIN Here /\ Admits(Here[n], map[n])
        THEN /\ props' = [m \in DOMAIN props \cup {n} |-> IF m = n THEN map[n] ELSE props[m]]
             /\ left' = left \ {n}
             /\ defaulted' = (defaulted \/ isDefault)
             /\ UNCHANGED <<brief, stage, at, blocks, suppressed, outcome>>
        ELSE Stop(author)

\* applyDefaults, for the default data and then for the default properties.
ApplyData ==
    /\ stage = "data"
    /\ \/ Write(DefaultsOf(supplied, "data", Section.component), "context", TRUE)
       \/ left = {} /\ Enter("properties", DefaultsOf(supplied, "properties", Section.component))

ApplyProperties ==
    /\ stage = "properties"
    /\ \/ Write(DefaultsOf(supplied, "properties", Section.component), "context", TRUE)
       \/ left = {} /\ Enter("proposed", Section.properties)

\* A slip: what the defaults already filled left as it is.
ApplyWhereOpen ==
    /\ stage = "proposed"
    /\ \/ /\ left \cap DOMAIN props # {}
          /\ left' = left \ DOMAIN props
          /\ UNCHANGED <<brief, stage, at, props, page, outcome>>
       \/ left \cap DOMAIN props = {} /\ Write(Section.properties, "OutsideSchema", FALSE)
       \/ left = {} /\ Enter("finish", Absent)

\* applyProposed: what the model proposed comes last.
ApplyProposed ==
    /\ stage = "proposed"
    /\ \/ Write(Section.properties, "OutsideSchema", FALSE)
       \/ left = {} /\ Enter("finish", Absent)

\* A slip: what the defaults fill demanded of the model.
MissingFromProposal ==
    {n \in DOMAIN Here : Here[n].required /\ n \notin DOMAIN Section.properties}

Missing == {n \in DOMAIN Here : Here[n].required /\ n \notin DOMAIN props}

\* The block is identified by what it is and where it sits.
Identity(component, index) == <<component, index>>

FinishSection ==
    /\ stage = "finish"
    /\ \/ Missing # {} /\ Stop("Incomplete")
       \/ /\ Missing = {} /\ MotionRefused(supplied, Section.animation)
          /\ Stop("OutsideConstraints")
       \/ /\ Missing = {} /\ ~MotionRefused(supplied, Section.animation)
          /\ suppressed' = (suppressed \/ (supplied.reduced /\ Moves(Section.animation)))
          /\ blocks' = Append(blocks, [type |-> Section.component, props |-> props,
                                       motion |-> Motion(supplied, Section.animation),
                                       id |-> Identity(Section.component, at)])
          /\ stage' = IF at = Len(proposed.sections) THEN "deliver" ELSE "section"
          /\ at' = IF at = Len(proposed.sections) THEN at ELSE at + 1
          /\ UNCHANGED <<brief, left, props, defaulted, outcome>>

Deliver ==
    /\ stage = "deliver"
    /\ outcome' = [error |-> "none", blocks |-> blocks,
                   warnings |-> (IF defaulted THEN {"DEFAULTS_APPLIED"} ELSE {})
                                   \cup (IF suppressed THEN {"REDUCED_MOTION_APPLIED"} ELSE {})]
    /\ stage' = "over"
    /\ UNCHANGED <<brief, at, left, props, page>>

Over == stage = "over" /\ UNCHANGED vars

Next ==
    \/ Read \/ Hear \/ BeginSection \/ ApplyData \/ ApplyProperties \/ ApplyProposed
    \/ FinishSection \/ Deliver \/ Over

Spec == Init /\ [][Next]_vars
-----------------------------------------------------------------------------
(***************************************************************************)
(* The page, and who is at fault when there is none, said of the brief and *)
(* the proposal as a whole: without an order, and without stopping early.  *)
(***************************************************************************)
SectionsOf(p) == {p.sections[i] : i \in DOMAIN p.sections}
Fits(s, component, map) ==
    LET declared == DefinitionOf(s, component) IN
    \A n \in DOMAIN map : n \in DOMAIN declared /\ Admits(declared[n], map[n])

\* The brief is unsound, or a default of a proposed section does not fit.
BriefAtFault(s, p) ==
    \/ ~Sound(s)
    \/ p # None /\ \E section \in SectionsOf(p), part \in {"data", "properties"} :
          /\ section.component \in Declared(s, section.component)
          /\ ~Fits(s, section.component, DefaultsOf(s, part, section.component))

\* What a section is left with: proposed over properties over data.
Merged(s, section) ==
    LET data == DefaultsOf(s, "data", section.component)
        properties == DefaultsOf(s, "properties", section.component)
        own == section.properties
    IN [n \in DOMAIN data \cup DOMAIN properties \cup DOMAIN own |->
           CASE n \in DOMAIN own -> own[n]
             [] n \in DOMAIN properties \ DOMAIN own -> properties[n]
             [] OTHER -> data[n]]

ProposalAtFault(s, p) ==
    \/ Objection(s, p) # "none"
    \/ \E section \in SectionsOf(p) :
          \/ section.component \notin Declared(s, section.component)
          \/ ~Fits(s, section.component, section.properties)
          \/ \E n \in DOMAIN DefinitionOf(s, section.component) :
                /\ DefinitionOf(s, section.component)[n].required
                /\ n \notin DOMAIN Merged(s, section)
          \/ MotionRefused(s, section.animation)

Delivered == outcome # None /\ outcome.error = "none"

\* The order the maps are ranged over in does not show: the page is the one the
\* brief and the proposal determine, with what was proposed over the default
\* properties and those over the default data (page.go:235-252, 416-421).
PageAsDetermined ==
    Delivered =>
        /\ Len(outcome.blocks) = Len(proposed.sections)
        /\ \A i \in DOMAIN proposed.sections :
              /\ outcome.blocks[i].type = proposed.sections[i].component
              /\ outcome.blocks[i].props = Merged(supplied, proposed.sections[i])
        /\ \A i, j \in DOMAIN outcome.blocks :
              outcome.blocks[i].id = outcome.blocks[j].id => i = j

\* The operator is sent to the brief only when the brief is at fault, the model
\* is refused only for what it proposed, and a page is delivered only when both
\* are in order (page.go:90-92, 297-301).
BlameFallsOnItsAuthor ==
    outcome # None =>
        /\ outcome.error = "context" => BriefAtFault(supplied, proposed)
        /\ outcome.error \notin {"context", "none"} => ProposalAtFault(supplied, proposed)
        /\ Delivered =>
              ~BriefAtFault(supplied, proposed) /\ ~ProposalAtFault(supplied, proposed)

\* Under reduced motion nothing on the page moves, and the reviewer is told when
\* that changed what was proposed; otherwise the page moves as proposed
\* (page.go:70-72, 216-221, 396-399).
MotionIsSuppressedLoudly ==
    Delivered =>
        /\ \A i \in DOMAIN outcome.blocks :
              outcome.blocks[i].motion =
                  IF supplied.reduced \/ proposed.sections[i].animation = None
                  THEN Still ELSE proposed.sections[i].animation
        /\ "REDUCED_MOTION_APPLIED" \in outcome.warnings <=>
              /\ supplied.reduced
              /\ \E section \in SectionsOf(proposed) :
                    section.animation # None /\ section.animation.effect \notin {"", "none"}

=============================================================================
