----------------------- MODULE PageCompositionProofs -----------------------
(***************************************************************************)
(* Theorems about PageComposition, for every brief, every proposal and     *)
(* every order in which the maps are ranged over.  The invariant says, for *)
(* the stage a turn is in, what it has made of the sections before this    *)
(* one and of the names of this one it has read, as a function of the      *)
(* brief and the proposal: no order is left in it.                         *)
(***************************************************************************)
EXTENDS PageComposition, SequenceTheorems, TLAPS

\* One map over another, and a map without the names that are still to be read.
Onto(map, base) ==
    [n \in DOMAIN map \cup DOMAIN base |-> IF n \in DOMAIN map THEN map[n] ELSE base[n]]
Part(map, unread) == [n \in DOMAIN map \ unread |-> map[n]]

Data(s, section) == DefaultsOf(s, "data", section.component)
Properties(s, section) == DefaultsOf(s, "properties", section.component)

\* A section that is composed without an objection.
InOrder(s, section) ==
    /\ section.component \in Declared(s, section.component)
    /\ Fits(s, section.component, Data(s, section))
    /\ Fits(s, section.component, Properties(s, section))
    /\ Fits(s, section.component, section.properties)
    /\ \A n \in DOMAIN DefinitionOf(s, section.component) :
          DefinitionOf(s, section.component)[n].required => n \in DOMAIN Merged(s, section)
    /\ ~MotionRefused(s, section.animation)

\* The block the brief and the proposal determine.
BlockOf(s, p, i) ==
    [type |-> p.sections[i].component, props |-> Merged(s, p.sections[i]),
     motion |-> Motion(s, p.sections[i].animation),
     id |-> Identity(p.sections[i].component, i)]

Mapping == {"data", "properties", "proposed"}
Composing == stage \in {"section", "finish", "deliver"} \cup Mapping
Finished == IF stage = "deliver" THEN Len(proposed.sections) ELSE at - 1

StagesInOrder ==
    /\ supplied \in Supply
    /\ stage \in {"read", "hear", "over"} \/ Composing
    /\ stage # "over" => outcome = None
    /\ stage \notin {"read", "over"} => Sound(supplied)
    /\ stage \in {"read", "hear"} => proposed = None /\ blocks = <<>> /\ ~suppressed
    /\ Composing => /\ proposed \in Proposal /\ Objection(supplied, proposed) = "none"
                    /\ at \in 1..Len(proposed.sections)

\* What was made of the sections before this one.
SectionsAreMade ==
    Composing =>
        /\ \A i \in 1..Finished : InOrder(supplied, proposed.sections[i])
        /\ blocks = [i \in 1..Finished |-> BlockOf(supplied, proposed, i)]
        /\ suppressed <=>
              supplied.reduced /\ \E i \in 1..Finished : Moves(proposed.sections[i].animation)

\* A map is read but for some of its names, each of the others over the maps before.
IsRead(s, component, map, base, unread, made) ==
    /\ unread \subseteq DOMAIN map
    /\ Fits(s, component, Part(map, unread))
    /\ made = Onto(Part(map, unread), base)

\* What was made of this one, stage by stage.
DataIsRead(s, section, unread, made) ==
    /\ section.component \in Declared(s, section.component)
    /\ IsRead(s, section.component, Data(s, section), Absent, unread, made)

PropertiesAreRead(s, section, unread, made) ==
    /\ section.component \in Declared(s, section.component)
    /\ Fits(s, section.component, Data(s, section))
    /\ IsRead(s, section.component, Properties(s, section), Onto(Data(s, section), Absent),
              unread, made)

ProposedIsRead(s, section, unread, made) ==
    /\ section.component \in Declared(s, section.component)
    /\ Fits(s, section.component, Data(s, section))
    /\ Fits(s, section.component, Properties(s, section))
    /\ IsRead(s, section.component, section.properties,
              Onto(Properties(s, section), Onto(Data(s, section), Absent)), unread, made)

AllIsRead(s, section, made) ==
    /\ section.component \in Declared(s, section.component)
    /\ Fits(s, section.component, Data(s, section))
    /\ Fits(s, section.component, Properties(s, section))
    /\ Fits(s, section.component, section.properties)
    /\ made = Merged(s, section)

SectionIsBegun ==
    /\ stage = "data" => DataIsRead(supplied, Section, left, props)
    /\ stage = "properties" => PropertiesAreRead(supplied, Section, left, props)
    /\ stage = "proposed" => ProposedIsRead(supplied, Section, left, props)
    /\ stage = "finish" => AllIsRead(supplied, Section, props)

\* What the turn came to is what the properties say of it.
TurnIsOver ==
    stage = "over" => PageAsDetermined /\ BlameFallsOnItsAuthor /\ MotionIsSuppressedLoudly

\* What the proofs show to be inductive.
IInv == StagesInOrder /\ SectionsAreMade /\ SectionIsBegun /\ TurnIsOver
-----------------------------------------------------------------------------
(***************************************************************************)
(* Maps over maps.                                                         *)
(***************************************************************************)

\* The name that is read is written over what an earlier map wrote.
LEMMA WriteOne ==
    ASSUME NEW map, NEW base, NEW unread \in SUBSET DOMAIN map, NEW n \in unread
    PROVE  LET f == Onto(Part(map, unread), base) IN
           Onto(Part(map, unread \ {n}), base)
              = [m \in DOMAIN f \cup {n} |-> IF m = n THEN map[n] ELSE f[m]]
  <1> DEFINE f == Onto(Part(map, unread), base)
             g == Onto(Part(map, unread \ {n}), base)
  <1>1. DOMAIN f = (DOMAIN map \ unread) \cup DOMAIN base
    BY DEF Onto, Part
  <1>2. DOMAIN g = (DOMAIN map \ (unread \ {n})) \cup DOMAIN base
    BY DEF Onto, Part
  <1>3. DOMAIN g = DOMAIN f \cup {n}
    BY <1>1, <1>2
  <1>4. ASSUME NEW m \in DOMAIN g PROVE g[m] = IF m = n THEN map[n] ELSE f[m]
    BY DEF Onto, Part
  <1>5. g = [m \in DOMAIN g |-> g[m]]
    BY DEF Onto
  <1> HIDE DEF f, g
  <1>6. g = [m \in DOMAIN f \cup {n} |-> IF m = n THEN map[n] ELSE f[m]]
    BY <1>3, <1>4, <1>5
  <1> QED
    BY <1>6 DEF f, g

\* Before a name is read the base shows; when all are the map does.
LEMMA PartOfNothing ==
    ASSUME NEW map, NEW base, base = [n \in DOMAIN base |-> base[n]]
    PROVE  Onto(Part(map, DOMAIN map), base) = base
  BY DEF Onto, Part

LEMMA PartOfAll ==
    ASSUME NEW map, NEW base
    PROVE  Onto(Part(map, {}), base) = Onto(map, base)
  BY DEF Onto, Part

LEMMA FitsPart ==
    ASSUME NEW s, NEW c, NEW map
    PROVE  /\ Fits(s, c, Part(map, DOMAIN map))
           /\ Fits(s, c, Part(map, {})) <=> Fits(s, c, map)
           /\ \A unread \in SUBSET DOMAIN map : \A n \in unread :
                 /\ Fits(s, c, Part(map, unread))
                 /\ n \in DOMAIN DefinitionOf(s, c)
                 /\ Admits(DefinitionOf(s, c)[n], map[n])
                 => Fits(s, c, Part(map, unread \ {n}))
           /\ \A n \in DOMAIN map :
                 ~(n \in DOMAIN DefinitionOf(s, c) /\ Admits(DefinitionOf(s, c)[n], map[n]))
                 => ~Fits(s, c, map)
  BY DEF Fits, Part

LEMMA OntoIsAMap ==
    ASSUME NEW map, NEW base
    PROVE  Onto(map, base) = [n \in DOMAIN Onto(map, base) |-> Onto(map, base)[n]]
  BY DEF Onto

LEMMA AbsentIsAMap == Absent = [n \in DOMAIN Absent |-> Absent[n]]
  BY DEF Absent

LEMMA MergedIsOnto ==
    ASSUME NEW s, NEW section
    PROVE  Merged(s, section) =
              Onto(section.properties, Onto(Properties(s, section), Onto(Data(s, section), Absent)))
  BY DEF Merged, Onto, Absent, Data, Properties

\* A map is entered with all its names unread, and is left with none.
LEMMA ReadingStarts ==
    ASSUME NEW s, NEW c, NEW map, NEW base, base = [n \in DOMAIN base |-> base[n]]
    PROVE  IsRead(s, c, map, base, DOMAIN map, base)
  BY PartOfNothing, FitsPart DEF IsRead

LEMMA ReadingEnds ==
    ASSUME NEW s, NEW c, NEW map, NEW base, NEW made, IsRead(s, c, map, base, {}, made)
    PROVE  Fits(s, c, map) /\ made = Onto(map, base)
  BY PartOfAll, FitsPart DEF IsRead

LEMMA ReadingGoesOn ==
    ASSUME NEW s, NEW c, NEW map, NEW base, NEW unread, NEW made,
           IsRead(s, c, map, base, unread, made), NEW n \in unread,
           n \in DOMAIN DefinitionOf(s, c), Admits(DefinitionOf(s, c)[n], map[n])
    PROVE  IsRead(s, c, map, base, unread \ {n},
                  [m \in DOMAIN made \cup {n} |-> IF m = n THEN map[n] ELSE made[m]])
  <1>1. unread \in SUBSET DOMAIN map /\ Fits(s, c, Part(map, unread))
        /\ made = Onto(Part(map, unread), base)
    BY DEF IsRead
  <1>2. Fits(s, c, Part(map, unread \ {n}))
    BY <1>1, FitsPart
  <1>3. Onto(Part(map, unread \ {n}), base)
           = [m \in DOMAIN made \cup {n} |-> IF m = n THEN map[n] ELSE made[m]]
    BY <1>1, WriteOne
  <1> QED
    BY <1>1, <1>2, <1>3 DEF IsRead

\* What cannot be written is at fault.
LEMMA ReadingStops ==
    ASSUME NEW s, NEW c, NEW map, NEW base, NEW unread, NEW made,
           IsRead(s, c, map, base, unread, made), NEW n \in unread,
           ~(n \in DOMAIN DefinitionOf(s, c) /\ Admits(DefinitionOf(s, c)[n], map[n]))
    PROVE  ~Fits(s, c, map)
  BY FitsPart DEF IsRead
-----------------------------------------------------------------------------
(***************************************************************************)
(* The invariant.                                                          *)
(***************************************************************************)
LEMMA InitIInv == Init => IInv
  BY DEF Init, IInv, StagesInOrder, SectionsAreMade, SectionIsBegun, TurnIsOver, Composing, Mapping

\* Once the turn is over only what it came to matters.
LEMMA OverIInv ==
    ASSUME IInv, UNCHANGED supplied, stage' = "over", TurnIsOver'
    PROVE  IInv'
  BY DEF IInv, StagesInOrder, SectionsAreMade, SectionIsBegun, Composing, Mapping

\* A turn that stops must only have named the right author.
LEMMA StopIInv ==
    ASSUME IInv, NEW error, error # "none", stage' = "over", UNCHANGED supplied,
           outcome' = [error |-> error, blocks |-> <<>>, warnings |-> {}],
           error = "context" => BriefAtFault(supplied, proposed'),
           error # "context" => ProposalAtFault(supplied, proposed')
    PROVE  IInv'
  <1>1. ~Delivered'
    BY DEF Delivered
  <1>2. BlameFallsOnItsAuthor'
    BY <1>1 DEF BlameFallsOnItsAuthor
  <1>3. TurnIsOver'
    BY <1>1, <1>2 DEF TurnIsOver, PageAsDetermined, MotionIsSuppressedLoudly
  <1> QED
    BY <1>3, OverIInv

\* Within a section nothing is made of another one.
LEMMA WithinASection ==
    ASSUME IInv, stage \in {"section", "finish"} \cup Mapping, stage' \in {"finish"} \cup Mapping,
           UNCHANGED <<brief, at, blocks, suppressed, outcome>>, SectionIsBegun'
    PROVE  IInv'
  <1>1. Composing /\ Composing' /\ stage # "deliver" /\ stage' # "deliver" /\ stage' # "over"
        /\ stage # "over" /\ stage' # "read" /\ stage' # "hear" /\ stage # "read"
    BY DEF Composing, Mapping
  <1>2. supplied' = supplied /\ proposed' = proposed /\ at' = at /\ blocks' = blocks
        /\ suppressed' = suppressed /\ outcome' = outcome
    BY DEF brief
  <1>3. StagesInOrder'
    BY <1>1, <1>2 DEF IInv, StagesInOrder
  <1>4. Finished' = Finished
    BY <1>1, <1>2 DEF Finished
  <1>5. SectionsAreMade'
    BY <1>1, <1>2, <1>4 DEF IInv, SectionsAreMade
  <1>6. TurnIsOver'
    BY <1>1 DEF TurnIsOver
  <1> QED
    BY <1>3, <1>5, <1>6 DEF IInv

LEMMA ReadIInv == IInv /\ Read => IInv'
  <1> SUFFICES ASSUME IInv, Read PROVE IInv'
    OBVIOUS
  <1>1. CASE ~Sound(supplied) /\ Stop("context")
    <2>1. BriefAtFault(supplied, proposed')
      BY <1>1 DEF BriefAtFault
    <2> QED
      BY <1>1, <2>1, StopIInv DEF Stop, brief
  <1>2. CASE Sound(supplied) /\ stage' = "hear"
             /\ UNCHANGED <<brief, at, left, props, page, outcome>>
    BY <1>2 DEF Read, IInv, StagesInOrder, SectionsAreMade, SectionIsBegun, TurnIsOver,
                Composing, Mapping, brief, page
  <1> QED
    BY <1>1, <1>2 DEF Read

LEMMA HearIInv == IInv /\ Hear => IInv'
  <1> SUFFICES ASSUME IInv, Hear PROVE IInv'
    OBVIOUS
  <1>1. proposed' \in Proposal /\ supplied' = supplied /\ UNCHANGED page
    BY DEF Hear
  <1>2. CASE Objection(supplied, proposed') # "none"
    <2>1. ProposalAtFault(supplied, proposed')
      BY <1>2 DEF ProposalAtFault
    <2>2. Objection(supplied, proposed') # "context"
      BY DEF Objection
    <2> QED
      BY <1>1, <1>2, <2>1, <2>2, StopIInv DEF Hear
  <1>3. CASE Objection(supplied, proposed') = "none"
    <2>1. stage = "hear" /\ stage' = "section" /\ at' = 1 /\ outcome' = outcome
      BY <1>3 DEF Hear
    <2>2. proposed'.sections # <<>>
      BY <1>3 DEF Objection
    <2>3. Len(proposed'.sections) \in Nat \ {0}
      BY <1>1, <2>2, ProposalAssumption, EmptySeq
    <2>4. StagesInOrder'
      BY <1>1, <1>3, <2>1, <2>3 DEF IInv, StagesInOrder, Composing
    <2>5. Finished' = 0
      BY <2>1 DEF Finished
    <2>6. blocks' = <<>> /\ ~suppressed'
      BY <1>1, <2>1 DEF IInv, StagesInOrder, page
    <2>7. <<>> = [i \in 1..0 |-> BlockOf(supplied', proposed', i)]
      OBVIOUS
    <2>8. SectionsAreMade'
      BY <2>5, <2>6, <2>7 DEF SectionsAreMade
    <2> QED
      BY <2>1, <2>4, <2>8 DEF IInv, SectionIsBegun, TurnIsOver
  <1> QED
    BY <1>2, <1>3

\* The section a turn is at is one that was proposed.
LEMMA SectionIsProposed ==
    ASSUME IInv, Composing
    PROVE  /\ proposed # None /\ Section \in SectionsOf(proposed)
           /\ Len(proposed.sections) \in Nat
           /\ proposed.sections \in Seq({proposed.sections[i] : i \in DOMAIN proposed.sections})
           /\ DOMAIN proposed.sections = 1..Len(proposed.sections)
  <1> DEFINE All == {proposed.sections[i] : i \in DOMAIN proposed.sections}
  <1>1. proposed \in Proposal /\ at \in 1..Len(proposed.sections)
    BY DEF IInv, StagesInOrder
  <1>2. proposed.sections \in Seq(All) /\ proposed # None
    BY <1>1, ProposalAssumption
  <1> HIDE DEF All
  <1>3. Len(proposed.sections) \in Nat /\ DOMAIN proposed.sections = 1..Len(proposed.sections)
    BY <1>2, LenProperties
  <1> QED
    BY <1>1, <1>2, <1>3 DEF Section, SectionsOf, All

LEMMA BeginSectionIInv == IInv /\ BeginSection => IInv'
  <1> SUFFICES ASSUME IInv, BeginSection PROVE IInv'
    OBVIOUS
  <1>1. Composing /\ stage = "section"
    BY DEF BeginSection, Composing
  <1>2. CASE Section.component \in Declared(supplied, Section.component)
    <2>1. /\ stage' = "data" /\ props' = Absent /\ left' = DOMAIN Data(supplied, Section)
          /\ UNCHANGED <<brief, at, page, outcome>>
      BY <1>2 DEF BeginSection, Data
    <2>2. Section' = Section /\ supplied' = supplied
      BY <2>1 DEF Section, brief
    <2>3. DataIsRead(supplied, Section, DOMAIN Data(supplied, Section), Absent)
      BY <1>2, ReadingStarts, AbsentIsAMap DEF DataIsRead
    <2>4. SectionIsBegun'
      BY <2>1, <2>2, <2>3 DEF SectionIsBegun
    <2> QED
      BY <1>1, <2>1, <2>4, WithinASection DEF Mapping, page
  <1>3. CASE Section.component \notin Declared(supplied, Section.component)
    <2>1. Stop("OutsideSchema")
      BY <1>3 DEF BeginSection
    <2>2. ProposalAtFault(supplied, proposed)
      BY <1>1, <1>3, SectionIsProposed DEF ProposalAtFault
    <2> QED
      BY <2>1, <2>2, StopIInv DEF Stop, brief
  <1> QED
    BY <1>2, <1>3

LEMMA ApplyDataIInv == IInv /\ ApplyData => IInv'
  <1> SUFFICES ASSUME IInv, ApplyData PROVE IInv'
    OBVIOUS
  <1> DEFINE data == Data(supplied, Section)
             c == Section.component
  <1>1. stage = "data" /\ Composing /\ DataIsRead(supplied, Section, left, props)
    BY DEF ApplyData, Composing, Mapping, IInv, SectionIsBegun
  <1>2. CASE Write(data, "context", TRUE)
    <2>1. PICK n \in left :
              IF n \in DOMAIN Here /\ Admits(Here[n], data[n])
              THEN /\ props' = [m \in DOMAIN props \cup {n} |-> IF m = n THEN data[n] ELSE props[m]]
                   /\ left' = left \ {n}
                   /\ UNCHANGED <<brief, stage, at, blocks, suppressed, outcome>>
              ELSE Stop("context")
      BY <1>2 DEF Write
    <2>2. CASE n \in DOMAIN Here /\ Admits(Here[n], data[n])
      <3>1. Section' = Section /\ supplied' = supplied /\ stage' = stage
        BY <2>1, <2>2 DEF Section, brief
      <3>2. DataIsRead(supplied, Section, left', props')
        BY <1>1, <2>1, <2>2, ReadingGoesOn DEF DataIsRead, Here
      <3>3. SectionIsBegun'
        BY <1>1, <3>1, <3>2 DEF SectionIsBegun
      <3> QED
        BY <1>1, <2>1, <2>2, <3>3, WithinASection DEF Mapping
    <2>3. CASE ~(n \in DOMAIN Here /\ Admits(Here[n], data[n]))
      <3>1. ~Fits(supplied, c, data)
        BY <1>1, <2>3, ReadingStops DEF DataIsRead, Here
      <3>2. BriefAtFault(supplied, proposed)
        BY <1>1, <3>1, SectionIsProposed DEF BriefAtFault, DataIsRead, Data
      <3> QED
        BY <2>1, <2>3, <3>2, StopIInv DEF Stop, brief
    <2> QED
      BY <2>2, <2>3
  <1>3. CASE left = {} /\ Enter("properties", Properties(supplied, Section))
    <2>1. /\ stage' = "properties" /\ left' = DOMAIN Properties(supplied, Section)
          /\ UNCHANGED <<brief, at, props, page, outcome>>
      BY <1>3 DEF Enter
    <2>2. Section' = Section /\ supplied' = supplied
      BY <2>1 DEF Section, brief
    <2>3. Fits(supplied, c, data) /\ props = Onto(data, Absent)
      BY <1>1, <1>3, ReadingEnds DEF DataIsRead
    <2>4. PropertiesAreRead(supplied, Section, left', props)
      BY <1>1, <2>1, <2>3, OntoIsAMap, ReadingStarts DEF PropertiesAreRead, DataIsRead
    <2>5. SectionIsBegun'
      BY <2>1, <2>2, <2>4 DEF SectionIsBegun
    <2> QED
      BY <1>1, <2>1, <2>5, WithinASection DEF Mapping, page
  <1> QED
    BY <1>2, <1>3 DEF ApplyData, Data, Properties

LEMMA ApplyPropertiesIInv == IInv /\ ApplyProperties => IInv'
  <1> SUFFICES ASSUME IInv, ApplyProperties PROVE IInv'
    OBVIOUS
  <1> DEFINE properties == Properties(supplied, Section)
             c == Section.component
  <1>1. stage = "properties" /\ Composing /\ PropertiesAreRead(supplied, Section, left, props)
    BY DEF ApplyProperties, Composing, Mapping, IInv, SectionIsBegun
  <1>2. CASE Write(properties, "context", TRUE)
    <2>1. PICK n \in left :
              IF n \in DOMAIN Here /\ Admits(Here[n], properties[n])
              THEN /\ props' = [m \in DOMAIN props \cup {n} |->
                                   IF m = n THEN properties[n] ELSE props[m]]
                   /\ left' = left \ {n}
                   /\ UNCHANGED <<brief, stage, at, blocks, suppressed, outcome>>
              ELSE Stop("context")
      BY <1>2 DEF Write
    <2>2. CASE n \in DOMAIN Here /\ Admits(Here[n], properties[n])
      <3>1. Section' = Section /\ supplied' = supplied /\ stage' = stage
        BY <2>1, <2>2 DEF Section, brief
      <3>2. PropertiesAreRead(supplied, Section, left', props')
        BY <1>1, <2>1, <2>2, ReadingGoesOn DEF PropertiesAreRead, Here
      <3>3. SectionIsBegun'
        BY <1>1, <3>1, <3>2 DEF SectionIsBegun
      <3> QED
        BY <1>1, <2>1, <2>2, <3>3, WithinASection DEF Mapping
    <2>3. CASE ~(n \in DOMAIN Here /\ Admits(Here[n], properties[n]))
      <3>1. ~Fits(supplied, c, properties)
        BY <1>1, <2>3, ReadingStops DEF PropertiesAreRead, Here
      <3>2. BriefAtFault(supplied, proposed)
        BY <1>1, <3>1, SectionIsProposed DEF BriefAtFault, PropertiesAreRead, Properties
      <3> QED
        BY <2>1, <2>3, <3>2, StopIInv DEF Stop, brief
    <2> QED
      BY <2>2, <2>3
  <1>3. CASE left = {} /\ Enter("proposed", Section.properties)
    <2>1. /\ stage' = "proposed" /\ left' = DOMAIN Section.properties
          /\ UNCHANGED <<brief, at, props, page, outcome>>
      BY <1>3 DEF Enter
    <2>2. Section' = Section /\ supplied' = supplied
      BY <2>1 DEF Section, brief
    <2>3. Fits(supplied, c, properties)
          /\ props = Onto(properties, Onto(Data(supplied, Section), Absent))
      BY <1>1, <1>3, ReadingEnds DEF PropertiesAreRead
    <2>4. ProposedIsRead(supplied, Section, left', props)
      BY <1>1, <2>1, <2>3, OntoIsAMap, ReadingStarts DEF PropertiesAreRead, ProposedIsRead
    <2>5. SectionIsBegun'
      BY <2>1, <2>2, <2>4 DEF SectionIsBegun
    <2> QED
      BY <1>1, <2>1, <2>5, WithinASection DEF Mapping, page
  <1> QED
    BY <1>2, <1>3 DEF ApplyProperties, Properties

LEMMA ApplyProposedIInv == IInv /\ ApplyProposed => IInv'
  <1> SUFFICES ASSUME IInv, ApplyProposed PROVE IInv'
    OBVIOUS
  <1> DEFINE own == Section.properties
             c == Section.component
  <1>1. stage = "proposed" /\ Composing /\ ProposedIsRead(supplied, Section, left, props)
    BY DEF ApplyProposed, Composing, Mapping, IInv, SectionIsBegun
  <1>2. CASE Write(own, "OutsideSchema", FALSE)
    <2>1. PICK n \in left :
              IF n \in DOMAIN Here /\ Admits(Here[n], own[n])
              THEN /\ props' = [m \in DOMAIN props \cup {n} |-> IF m = n THEN own[n] ELSE props[m]]
                   /\ left' = left \ {n}
                   /\ UNCHANGED <<brief, stage, at, blocks, suppressed, outcome>>
              ELSE Stop("OutsideSchema")
      BY <1>2 DEF Write
    <2>2. CASE n \in DOMAIN Here /\ Admits(Here[n], own[n])
      <3>1. Section' = Section /\ supplied' = supplied /\ stage' = stage
        BY <2>1, <2>2 DEF Section, brief
      <3>2. ProposedIsRead(supplied, Section, left', props')
        BY <1>1, <2>1, <2>2, ReadingGoesOn DEF ProposedIsRead, Here
      <3>3. SectionIsBegun'
        BY <1>1, <3>1, <3>2 DEF SectionIsBegun
      <3> QED
        BY <1>1, <2>1, <2>2, <3>3, WithinASection DEF Mapping
    <2>3. CASE ~(n \in DOMAIN Here /\ Admits(Here[n], own[n]))
      <3>1. ~Fits(supplied, c, own)
        BY <1>1, <2>3, ReadingStops DEF ProposedIsRead, Here
      <3>2. ProposalAtFault(supplied, proposed)
        BY <1>1, <3>1, SectionIsProposed DEF ProposalAtFault
      <3> QED
        BY <2>1, <2>3, <3>2, StopIInv DEF Stop, brief
    <2> QED
      BY <2>2, <2>3
  <1>3. CASE left = {} /\ Enter("finish", Absent)
    <2>1. stage' = "finish" /\ UNCHANGED <<brief, at, props, page, outcome>>
      BY <1>3 DEF Enter
    <2>2. Section' = Section /\ supplied' = supplied
      BY <2>1 DEF Section, brief
    <2>3. Fits(supplied, c, own)
          /\ props = Onto(own, Onto(Properties(supplied, Section),
                                    Onto(Data(supplied, Section), Absent)))
      BY <1>1, <1>3, ReadingEnds DEF ProposedIsRead
    <2>4. AllIsRead(supplied, Section, props)
      BY <1>1, <2>3, MergedIsOnto DEF ProposedIsRead, AllIsRead
    <2>5. SectionIsBegun'
      BY <2>1, <2>2, <2>4 DEF SectionIsBegun
    <2> QED
      BY <1>1, <2>1, <2>5, WithinASection DEF Mapping, page
  <1> QED
    BY <1>2, <1>3 DEF ApplyProposed

LEMMA FinishSectionIInv == IInv /\ FinishSection => IInv'
  <1> SUFFICES ASSUME IInv, FinishSection PROVE IInv'
    OBVIOUS
  <1>1. stage = "finish" /\ Composing /\ AllIsRead(supplied, Section, props)
    BY DEF FinishSection, Composing, Mapping, IInv, SectionIsBegun
  <1>2. CASE Missing # {} /\ Stop("Incomplete")
    <2>1. ProposalAtFault(supplied, proposed)
      BY <1>1, <1>2, SectionIsProposed DEF ProposalAtFault, Missing, Here, AllIsRead
    <2> QED
      BY <1>2, <2>1, StopIInv DEF Stop, brief
  <1>3. CASE MotionRefused(supplied, Section.animation) /\ Stop("OutsideConstraints")
    <2>1. ProposalAtFault(supplied, proposed)
      BY <1>1, <1>3, SectionIsProposed DEF ProposalAtFault
    <2> QED
      BY <1>3, <2>1, StopIInv DEF Stop, brief
  <1>4. CASE /\ Missing = {} /\ ~MotionRefused(supplied, Section.animation)
             /\ suppressed' = (suppressed \/ (supplied.reduced /\ Moves(Section.animation)))
             /\ blocks' = Append(blocks, [type |-> Section.component, props |-> props,
                                          motion |-> Motion(supplied, Section.animation),
                                          id |-> Identity(Section.component, at)])
             /\ stage' = IF at = Len(proposed.sections) THEN "deliver" ELSE "section"
             /\ at' = IF at = Len(proposed.sections) THEN at ELSE at + 1
             /\ UNCHANGED <<brief, left, props, defaulted, outcome>>
    <2>1. supplied' = supplied /\ proposed' = proposed /\ outcome' = outcome
      BY <1>4 DEF brief
    <2>2. at \in 1..Len(proposed.sections) /\ Len(proposed.sections) \in Nat
      BY <1>1, SectionIsProposed DEF IInv, StagesInOrder
    <2>3. stage' \in {"deliver", "section"} /\ Composing' /\ at' \in 1..Len(proposed.sections)
      BY <1>4, <2>2 DEF Composing
    <2>4. StagesInOrder'
      BY <1>1, <2>1, <2>3 DEF IInv, StagesInOrder
    <2>5. Finished = at - 1 /\ Finished' = at
      BY <1>1, <1>4, <2>1, <2>2 DEF Finished
    <2>6. InOrder(supplied, Section)
      BY <1>1, <1>4 DEF InOrder, AllIsRead, Missing, Here
    <2>7. \A i \in 1..at : InOrder(supplied, proposed.sections[i])
      <3> SUFFICES ASSUME NEW i \in 1..at PROVE InOrder(supplied, proposed.sections[i])
        OBVIOUS
      <3>1. i \in 1..(at - 1) \/ i = at
        BY <2>2
      <3> QED
        BY <1>1, <2>5, <2>6, <3>1 DEF IInv, SectionsAreMade, Section
    <2>8. [type |-> Section.component, props |-> props,
           motion |-> Motion(supplied, Section.animation), id |-> Identity(Section.component, at)]
             = BlockOf(supplied, proposed, at)
      BY <1>1 DEF BlockOf, Section, AllIsRead
    <2>9. blocks' = [i \in 1..at |-> BlockOf(supplied, proposed, i)]
      <3> DEFINE Made == {BlockOf(supplied, proposed, i) : i \in 1..at}
                 block(i) == BlockOf(supplied, proposed, i)
                 whole == [i \in 1..at |-> block(i)]
      <3>1. blocks = [i \in 1..(at - 1) |-> block(i)]
        BY <1>1, <2>5 DEF IInv, SectionsAreMade
      <3>2. \A i \in 1..at : block(i) \in Made
        OBVIOUS
      <3>3. at \in Nat /\ at - 1 \in Nat /\ at \in 1..at /\ (at - 1) + 1 = at
            /\ \A i \in 1..(at - 1) : i \in 1..at
        BY <2>2
      <3>4. blocks' = Append(blocks, block(at))
        BY <1>4, <2>8
      <3> HIDE DEF Made, block
      <3>5. blocks \in Seq(Made) /\ Len(blocks) = at - 1
        BY <3>1, <3>2, <3>3
      <3>6. whole \in Seq(Made) /\ Len(whole) = at
        BY <3>2, <3>3
      <3>7. block(at) \in Made
        BY <3>2, <3>3
      <3>8. /\ blocks' \in Seq(Made) /\ Len(blocks') = at
            /\ \A i \in 1..(at - 1) : blocks'[i] = blocks[i]
            /\ blocks'[at] = block(at)
        BY <3>3, <3>4, <3>5, <3>7, AppendProperties
      <3>9. \A i \in 1..at : blocks'[i] = whole[i]
        <4> SUFFICES ASSUME NEW i \in 1..at PROVE blocks'[i] = whole[i]
          OBVIOUS
        <4>1. i \in 1..(at - 1) \/ i = at
          BY <2>2
        <4> QED
          BY <3>1, <3>8, <4>1
      <3>10. blocks' = whole
        BY <3>6, <3>8, <3>9, SeqEqual
      <3> QED
        BY <3>10 DEF block
    <2>10. suppressed' <=> supplied.reduced /\ \E i \in 1..at : Moves(proposed.sections[i].animation)
      <3>1. suppressed <=> supplied.reduced
                              /\ \E i \in 1..(at - 1) : Moves(proposed.sections[i].animation)
        BY <1>1, <2>5 DEF IInv, SectionsAreMade
      <3>2. \A i : i \in 1..at <=> i \in 1..(at - 1) \/ i = at
        BY <2>2
      <3> QED
        BY <1>4, <3>1, <3>2 DEF Section
    <2>11. SectionsAreMade'
      BY <2>1, <2>5, <2>7, <2>9, <2>10 DEF SectionsAreMade
    <2> QED
      BY <2>3, <2>4, <2>11 DEF IInv, SectionIsBegun, TurnIsOver
  <1> QED
    BY <1>2, <1>3, <1>4 DEF FinishSection

LEMMA DeliverIInv == IInv /\ Deliver => IInv'
  <1> SUFFICES ASSUME IInv, Deliver PROVE IInv'
    OBVIOUS
  <1> DEFINE N == Len(proposed.sections)
  <1>1. stage = "deliver" /\ Composing /\ Finished = N
    BY DEF Deliver, Composing, Finished
  <1>2. supplied' = supplied /\ proposed' = proposed /\ stage' = "over"
        /\ outcome'.error = "none" /\ outcome'.blocks = blocks
        /\ ("REDUCED_MOTION_APPLIED" \in outcome'.warnings <=> suppressed)
    BY DEF Deliver, brief
  <1>3. N \in Nat /\ DOMAIN proposed.sections = 1..N /\ proposed # None
        /\ Sound(supplied) /\ Objection(supplied, proposed) = "none"
    BY <1>1, SectionIsProposed DEF IInv, StagesInOrder
  <1>4. /\ \A i \in 1..N : InOrder(supplied, proposed.sections[i])
        /\ blocks = [i \in 1..N |-> BlockOf(supplied, proposed, i)]
        /\ suppressed <=> supplied.reduced /\ \E i \in 1..N : Moves(proposed.sections[i].animation)
    BY <1>1 DEF IInv, SectionsAreMade
  <1>5. DOMAIN blocks = 1..N /\ Len(blocks) = N
    BY <1>3, <1>4
  <1>6. ASSUME NEW i \in 1..N
         PROVE  /\ outcome'.blocks[i].type = proposed.sections[i].component
                /\ outcome'.blocks[i].props = Merged(supplied, proposed.sections[i])
                /\ outcome'.blocks[i].motion = Motion(supplied, proposed.sections[i].animation)
                /\ outcome'.blocks[i].id = <<proposed.sections[i].component, i>>
    <2>1. outcome'.blocks[i] = BlockOf(supplied, proposed, i)
      BY <1>2, <1>4
    <2> QED
      BY <2>1 DEF BlockOf, Identity
  <1>7. PageAsDetermined'
    <2>1. Len(outcome'.blocks) = Len(proposed'.sections)
      BY <1>2, <1>5
    <2>2. ASSUME NEW i \in DOMAIN proposed'.sections
          PROVE  /\ outcome'.blocks[i].type = proposed'.sections[i].component
                 /\ outcome'.blocks[i].props = Merged(supplied', proposed'.sections[i])
      BY <1>2, <1>3, <1>6
    <2>3. ASSUME NEW i \in DOMAIN outcome'.blocks, NEW j \in DOMAIN outcome'.blocks,
                 outcome'.blocks[i].id = outcome'.blocks[j].id
          PROVE  i = j
      <3>1. i \in 1..N /\ j \in 1..N
        BY <1>2, <1>5
      <3>2. <<proposed.sections[i].component, i>> = <<proposed.sections[j].component, j>>
        BY <1>6, <2>3, <3>1
      <3> QED
        BY <3>2
    <2> QED
      BY <2>1, <2>2, <2>3 DEF PageAsDetermined
  <1>8. ~BriefAtFault(supplied, proposed) /\ ~ProposalAtFault(supplied, proposed)
    <2>1. \A section \in SectionsOf(proposed) : InOrder(supplied, section)
      BY <1>3, <1>4 DEF SectionsOf
    <2>2. ~BriefAtFault(supplied, proposed)
      BY <1>3, <2>1 DEF BriefAtFault, InOrder, Data, Properties
    <2>3. ~ProposalAtFault(supplied, proposed)
      BY <1>3, <2>1 DEF ProposalAtFault, InOrder
    <2> QED
      BY <2>2, <2>3
  <1>9. BlameFallsOnItsAuthor'
    BY <1>2, <1>8 DEF BlameFallsOnItsAuthor
  <1>10. MotionIsSuppressedLoudly'
    <2>1. ASSUME NEW i \in DOMAIN outcome'.blocks
          PROVE  outcome'.blocks[i].motion =
                    IF supplied'.reduced \/ proposed'.sections[i].animation = None
                    THEN Still ELSE proposed'.sections[i].animation
      BY <1>2, <1>5, <1>6 DEF Motion
    <2>2. "REDUCED_MOTION_APPLIED" \in outcome'.warnings <=>
             /\ supplied'.reduced
             /\ \E section \in SectionsOf(proposed') :
                   section.animation # None /\ section.animation.effect \notin {"", "none"}
      BY <1>2, <1>3, <1>4 DEF SectionsOf, Moves
    <2> QED
      BY <2>1, <2>2 DEF MotionIsSuppressedLoudly
  <1>11. TurnIsOver'
    BY <1>7, <1>9, <1>10 DEF TurnIsOver
  <1> QED
    BY <1>2, <1>11, OverIInv

LEMMA StepIInv == IInv /\ [Next]_vars => IInv'
  <1> SUFFICES ASSUME IInv, [Next]_vars PROVE IInv'
    OBVIOUS
  <1>1. CASE UNCHANGED vars
    <2>1. /\ supplied' = supplied /\ proposed' = proposed /\ stage' = stage /\ at' = at
          /\ left' = left /\ props' = props /\ blocks' = blocks /\ suppressed' = suppressed
          /\ outcome' = outcome
      BY <1>1 DEF vars, brief, page
    <2>2. StagesInOrder'
      BY <2>1 DEF IInv, StagesInOrder, Composing
    <2>3. SectionsAreMade'
      BY <2>1 DEF IInv, SectionsAreMade, Composing, Finished
    <2>4. SectionIsBegun'
      BY <2>1 DEF IInv, SectionIsBegun, Section
    <2>5. PageAsDetermined' <=> PageAsDetermined
      BY <2>1 DEF PageAsDetermined, Delivered
    <2>6. BlameFallsOnItsAuthor' <=> BlameFallsOnItsAuthor
      BY <2>1 DEF BlameFallsOnItsAuthor, Delivered
    <2>7. MotionIsSuppressedLoudly' <=> MotionIsSuppressedLoudly
      BY <2>1 DEF MotionIsSuppressedLoudly, Delivered
    <2> QED
      BY <2>1, <2>2, <2>3, <2>4, <2>5, <2>6, <2>7 DEF IInv, TurnIsOver
  <1> QED
    BY <1>1, ReadIInv, HearIInv, BeginSectionIInv, ApplyDataIInv, ApplyPropertiesIInv,
       ApplyProposedIInv, FinishSectionIInv, DeliverIInv DEF Next, Over

\* The stage a turn is in and what it has made of the page agree with the brief
\* and the proposal in every reachable state.
THEOREM CompositionInvariance == Spec => []IInv
  BY InitIInv, StepIInv, PTL DEF Spec
-----------------------------------------------------------------------------
(***************************************************************************)
(* What it implies.                                                        *)
(***************************************************************************)
LEMMA OnlyOverDecides == IInv /\ stage # "over" => outcome = None
  BY DEF IInv, StagesInOrder

\* The order the maps are ranged over in does not show: the page is the one the
\* brief and the proposal determine (page.go:235-252, 416-421).
THEOREM PagesAreDetermined == Spec => []PageAsDetermined
  <1>1. IInv => PageAsDetermined
    BY OnlyOverDecides DEF IInv, TurnIsOver, PageAsDetermined, Delivered
  <1> QED
    BY <1>1, CompositionInvariance, PTL

\* The operator is sent to the brief, and the model refused, only when theirs is
\* the fault, and a page is delivered only when both are in order
\* (page.go:90-92, 297-301).
THEOREM BlameIsFair == Spec => []BlameFallsOnItsAuthor
  <1>1. IInv => BlameFallsOnItsAuthor
    BY OnlyOverDecides DEF IInv, TurnIsOver, BlameFallsOnItsAuthor, Delivered
  <1> QED
    BY <1>1, CompositionInvariance, PTL

\* Under reduced motion nothing on the page moves, and the reviewer is told
\* (page.go:70-72, 216-221, 396-399).
THEOREM MotionIsTold == Spec => []MotionIsSuppressedLoudly
  <1>1. IInv => MotionIsSuppressedLoudly
    BY OnlyOverDecides DEF IInv, TurnIsOver, MotionIsSuppressedLoudly, Delivered
  <1> QED
    BY <1>1, CompositionInvariance, PTL
=============================================================================
