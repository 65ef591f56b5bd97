-------------------------- MODULE DelegationProofs --------------------------
(***************************************************************************)
(* Theorems about Delegation, for every plan, every text and artifact,     *)
(* every bound and every number of turns.  A turn remembers nothing, so    *)
(* what holds of a run is carried by what its turns are given: the state   *)
(* of the delegated work is what ties one turn to the turns before it.     *)
(***************************************************************************)
EXTENDS Delegation, FiniteSetTheorems, SequenceTheorems, WellFoundedInduction, TLAPS

IsText(t) == \E S : t \in Seq(S)
OfTexts(map) == \A m \in DOMAIN map : IsText(map[m])

Decisions == {"delegate_agent", "tool_call", "need_input", "continue", "refuse", "final"}

\* What any turn may come to: an error that sends nothing, or a decision whose
\* payload is in the bounds of its contract.
WellFormed(o) ==
    /\ o.kind \in Decisions \cup {"error"}
    /\ o.kind = "error" <=> o.error # "none"
    /\ o.outputs \subseteq Artifact
    /\ \A m \in DOMAIN o.payload : Len(o.payload[m]) \in 1..ValueBound
    /\ Cardinality(DOMAIN o.payload) <= MemberBound

\* What a task supplies, whatever became of the work.
Supplies ==
    [forbidden : BOOLEAN, prompt : BOOLEAN, reason : Reason,
     delegate : {"missing", "permitted", "other"},
     state : {"absent", "pending", "other"} \cup Settled,
     candidate : Artifact \cup {None}, inputs : SUBSET Artifact]

\* A task that says nothing of a delegation was dispatched before there was
\* one, and one that says it completed pins what it produced.
TasksFollowTheWork ==
    task # None =>
        /\ task \in Supplies
        /\ turns >= 1
        /\ task.state = "absent" => work.state = "none"
        /\ task.state = "completed" =>
              work.state = "completed" /\ task.inputs \subseteq {work.artifact}

\* A turn concludes, fails, or carries out what the model answered it.
OutcomesFollowTheTask ==
    /\ outcome = None => answer = None
    /\ outcome # None =>
          /\ task # None
          /\ \/ answer = None /\ Concludes(task) /\ outcome = Conclude(task)
             \/ /\ answer = None
                /\ \E error \in {"boundary", "context", "unavailable"} : outcome = Refused(error)
             \/ answer \in Plan /\ ~Concludes(task) /\ outcome = Propose(answer)

\* What was delegated is at most one input.
DelegatedOnce == delegated = <<>> \/ \E input : delegated = <<input>>

\* What the proofs show to be inductive.
IInv == TypeOK /\ DelegatedOnce /\ TasksFollowTheWork /\ OutcomesFollowTheTask
-----------------------------------------------------------------------------
(***************************************************************************)
(* Payloads.                                                               *)
(***************************************************************************)

\* A text that is not empty has a rune.
LEMMA TextLength ==
    ASSUME NEW t, IsText(t)
    PROVE  Len(t) \in Nat /\ (t # <<>> => Len(t) >= 1)
  <1>1. PICK S : t \in Seq(S)
    BY DEF IsText
  <1> QED
    BY <1>1, EmptySeq

\* A part of a text is a text.
LEMMA PartIsText ==
    ASSUME NEW t, NEW first \in Int, NEW last \in Int
    PROVE  IsText(SubSeq(t, first, last))
  <1> DEFINE S == {t[i] : i \in first..last}
  <1>1. \A i \in first..last : t[i] \in S
    OBVIOUS
  <1> HIDE DEF S
  <1>2. SubSeq(t, first, last) \in Seq(S)
    BY <1>1, SubSeqProperties
  <1> QED
    BY <1>2 DEF IsText

\* However long a text is, its continuation is made of texts.
LEMMA ChunksAreTexts ==
    ASSUME NEW t, IsText(t)
    PROVE  OfTexts(Chunked(t))
  <1>1. CASE Len(t) <= ValueBound
    BY <1>1 DEF OfTexts, Chunked
  <1>2. CASE ~(Len(t) <= ValueBound)
    <2> DEFINE N == (Len(t) - 1) \div ValueBound
               Chunks == {Chunk(i) : i \in 0..N}
               end(m) == (m.index + 1) * ValueBound
               last(m) == IF end(m) > Len(t) THEN Len(t) ELSE end(m)
               first(m) == m.index * ValueBound + 1
    <2>1. Chunked(t) = [m \in Chunks |-> SubSeq(t, first(m), last(m))]
      BY <1>2 DEF Chunked
    <2>2. Len(t) \in Nat /\ ValueBound \in Nat
      BY TextLength, BoundAssumption
    <2>3. ASSUME NEW m \in Chunks PROVE first(m) \in Int /\ last(m) \in Int
      <3>1. PICK i \in 0..N : m = Chunk(i)
        OBVIOUS
      <3>2. m.index = i /\ i \in Int
        BY <3>1 DEF Chunk
      <3>3. i * ValueBound \in Int /\ (i + 1) * ValueBound \in Int
        BY <3>2, <2>2
      <3> QED
        BY <3>2, <3>3, <2>2
    <2>4. ASSUME NEW m \in Chunks PROVE IsText(SubSeq(t, first(m), last(m)))
      BY <2>3, PartIsText
    <2> HIDE DEF Chunks, first, last
    <2> QED
      BY <2>1, <2>4 DEF OfTexts
  <1> QED
    BY <1>1, <1>2

LEMMA UnderIsOfTexts ==
    ASSUME NEW key, NEW map, OfTexts(map)
    PROVE  OfTexts(Under(key, map))
  BY DEF OfTexts, Under

LEMMA OneIsOfTexts ==
    ASSUME NEW key, NEW t, IsText(t)
    PROVE  OfTexts(One(key, t))
  BY DEF OfTexts, Under, One

LEMMA BesideIsOfTexts ==
    ASSUME NEW f, NEW g, OfTexts(f), OfTexts(g)
    PROVE  OfTexts(Beside(f, g))
  BY DEF OfTexts, Beside

\* What a decision comes to is in its contract, whatever texts it carries.
LEMMA DecidedIsWellFormed ==
    ASSUME NEW kind \in Decisions, NEW payload, OfTexts(payload), NEW outputs \in SUBSET Artifact
    PROVE  /\ WellFormed(Decided(kind, payload, outputs))
           /\ Decided(kind, payload, outputs).kind \in {kind, "error"}
           /\ Decided(kind, payload, outputs).kind = kind =>
                 Decided(kind, payload, outputs).outputs = outputs
  <1>1. CASE Fits(payload)
    <2> DEFINE o == Decided(kind, payload, outputs)
    <2>1. o = [kind |-> kind, error |-> "none", payload |-> NotEmpty(payload), outputs |-> outputs]
      BY <1>1 DEF Decided
    <2>2. o.kind = kind /\ o.error = "none" /\ o.payload = NotEmpty(payload) /\ o.outputs = outputs
      BY <2>1
    <2> HIDE DEF o
    <2>3. ASSUME NEW m \in DOMAIN NotEmpty(payload)
          PROVE  Len(NotEmpty(payload)[m]) \in 1..ValueBound
      <3>1. m \in DOMAIN payload /\ payload[m] # <<>> /\ NotEmpty(payload)[m] = payload[m]
        BY DEF NotEmpty
      <3>2. Len(payload[m]) <= ValueBound
        BY <1>1, <3>1 DEF Fits, FitsEachAlone
      <3>3. Len(payload[m]) \in Nat /\ Len(payload[m]) >= 1
        BY <3>1, TextLength DEF OfTexts
      <3> QED
        BY <3>1, <3>2, <3>3, BoundAssumption
    <2>4. Cardinality(DOMAIN NotEmpty(payload)) <= MemberBound
      BY <1>1 DEF Fits
    <2>5. WellFormed(o)
      BY <2>2, <2>3, <2>4 DEF WellFormed, Decisions
    <2> QED
      BY <2>2, <2>5 DEF o
  <1>2. CASE ~Fits(payload)
    <2>1. Decided(kind, payload, outputs) = Refused("OutsideBounds")
      BY <1>2 DEF Decided
    <2>2. WellFormed(Refused("OutsideBounds"))
      BY FS_EmptySet, BoundAssumption DEF WellFormed, Refused
    <2> QED
      BY <2>1, <2>2 DEF Refused, Decisions
  <1> QED
    BY <1>1, <1>2

LEMMA RefusedIsWellFormed ==
    ASSUME NEW error, error # "none"
    PROVE  WellFormed(Refused(error)) /\ Refused(error).kind = "error"
  BY FS_EmptySet, BoundAssumption DEF WellFormed, Refused
-----------------------------------------------------------------------------
(***************************************************************************)
(* What a turn may come to.                                                *)
(***************************************************************************)
LEMMA FixedTexts == IsText(Fixed) /\ IsText(EmptyObject)
  <1>1. <<"fixed">> \in Seq({"fixed"}) /\ <<"{}">> \in Seq({"{}"})
    OBVIOUS
  <1> QED
    BY <1>1 DEF IsText, Fixed, EmptyObject

LEMMA ReasonsAreTexts == \A r \in Reason : IsText(r)
  <1>1. <<>> \in Seq({"rune"}) /\ Overlong \in Seq({"rune"})
    <2>1. ValueBound + 1 \in Nat
      BY BoundAssumption
    <2> QED
      BY <2>1 DEF Overlong, Seq
  <1> QED
    BY <1>1, FixedTexts DEF Reason, IsText

LEMMA StepsAreOfTexts ==
    ASSUME NEW step \in PlanStep
    PROVE  IsText(step.text) /\ IsText(step.tool) /\ step.action \in Action
  BY TextAssumption DEF PlanStep, IsText

\* A step is carried out as what it is, or refused; none is ever final.
LEMMA ResolveIsWellFormed ==
    ASSUME NEW step \in PlanStep
    PROVE  /\ WellFormed(Resolve(step))
           /\ Resolve(step).kind # "final"
           /\ Resolve(step).kind = "delegate_agent" => step.action = "delegate"
           /\ step.action = "delegate" => Resolve(step).kind \in {"delegate_agent", "error"}
  <1>1. IsText(step.text) /\ IsText(step.tool) /\ step.action \in Action
    BY StepsAreOfTexts
  <1>2. CASE step.action = "delegate"
    <2> DEFINE input == IF step.text = <<>> THEN EmptyObject ELSE step.text
               payload == Beside(Beside(One("delegate", Fixed), One("reason", Fixed)),
                                 Under("input", Chunked(input)))
    <2>1. IsText(input)
      BY <1>1, FixedTexts
    <2> HIDE DEF input
    <2>2. OfTexts(payload)
      BY <2>1, FixedTexts, ChunksAreTexts, UnderIsOfTexts, OneIsOfTexts, BesideIsOfTexts
    <2> HIDE DEF payload
    <2>3. Resolve(step) = IF ~step.permitted THEN Refused("DelegateNotPermitted")
                          ELSE Decided("delegate_agent", payload, {})
      BY <1>2 DEF Resolve, payload, input
    <2>4. CASE step.permitted
      <3>1. "delegate_agent" \in Decisions /\ {} \in SUBSET Artifact
        BY DEF Decisions
      <3> QED
        BY <1>2, <2>2, <2>3, <2>4, <3>1, DecidedIsWellFormed
    <2> QED
      BY <1>2, <2>3, <2>4, RefusedIsWellFormed
  <1>3. CASE step.action = "tool_call"
    <2> DEFINE payload == Beside(One("tool", step.tool), One("arguments", step.text))
    <2>1. OfTexts(payload)
      BY <1>1, OneIsOfTexts, BesideIsOfTexts
    <2> HIDE DEF payload
    <2>2. Resolve(step) = IF step.tool = <<>> \/ step.text = <<>> THEN Refused("Incomplete")
                          ELSE Decided("tool_call", payload, {})
      BY <1>3 DEF Resolve, payload
    <2>3. "tool_call" \in Decisions /\ {} \in SUBSET Artifact
      BY DEF Decisions
    <2>4. WellFormed(Decided("tool_call", payload, {}))
          /\ Decided("tool_call", payload, {}).kind \in {"tool_call", "error"}
      BY <2>1, <2>3, DecidedIsWellFormed
    <2> QED
      BY <1>3, <2>2, <2>4, RefusedIsWellFormed
  <1>4. CASE step.action \in {"need_input", "refuse"}
    <2> DEFINE payload == One("text", step.text)
    <2>1. OfTexts(payload)
      BY <1>1, OneIsOfTexts
    <2> HIDE DEF payload
    <2>2. Resolve(step) = IF step.text = <<>> THEN Refused("Incomplete")
                          ELSE Decided(step.action, payload, {})
      BY <1>4 DEF Resolve, payload
    <2>3. step.action \in Decisions /\ {} \in SUBSET Artifact
      BY <1>4 DEF Decisions
    <2>4. WellFormed(Decided(step.action, payload, {}))
          /\ Decided(step.action, payload, {}).kind \in {step.action, "error"}
      BY <2>1, <2>3, DecidedIsWellFormed
    <2> QED
      BY <1>4, <2>2, <2>4, RefusedIsWellFormed
  <1>5. CASE step.action = "continue"
    <2>1. Resolve(step) = Decided("continue", One("note", step.text), {})
      BY <1>5 DEF Resolve
    <2>2. OfTexts(One("note", step.text))
      BY <1>1, OneIsOfTexts
    <2>3. "continue" \in Decisions /\ {} \in SUBSET Artifact
      BY DEF Decisions
    <2>4. WellFormed(Resolve(step)) /\ Resolve(step).kind \in {"continue", "error"}
      BY <2>1, <2>2, <2>3, DecidedIsWellFormed
    <2> QED
      BY <1>5, <2>4
  <1>6. CASE step.action \in {"final", "other"}
    <2>1. Resolve(step) \in {Refused("Incomplete"), Refused("OutsideVocabulary")}
      BY <1>6 DEF Resolve
    <2> QED
      BY <1>6, <2>1, RefusedIsWellFormed
  <1> QED
    BY <1>1, <1>2, <1>3, <1>4, <1>5, <1>6 DEF Action

\* What a plan comes to: its first step carried out, when nothing is objected.
LEMMA ProposeIsWellFormed ==
    ASSUME NEW p \in Plan
    PROVE  /\ WellFormed(Propose(p))
           /\ Propose(p).kind # "final"
           /\ Propose(p).kind # "error" =>
                 /\ p.steps \in Seq(PlanStep) /\ p.steps # <<>> /\ p.steps[1] \in PlanStep
                 /\ Delegates(p) \in {{}, {1}}
                 /\ Propose(p) = Resolve(p.steps[1])
  <1>1. p.steps \in Seq(PlanStep)
    BY PlanAssumption
  <1>2. CASE Objection(p) = "none"
    <2>1. p.steps # <<>> /\ Delegates(p) \in {{}, {1}}
      BY <1>2 DEF Objection
    <2>2. Len(p.steps) \in Nat \ {0}
      BY <1>1, <2>1, EmptySeq
    <2>3. p.steps[1] \in PlanStep
      BY <1>1, <2>2, ElementOfSeq
    <2>4. Propose(p) = Resolve(p.steps[1])
      BY <1>2 DEF Propose
    <2> QED
      BY <1>1, <2>1, <2>3, <2>4, ResolveIsWellFormed
  <1>3. CASE Objection(p) # "none"
    <2>1. Propose(p) = Refused(Objection(p))
      BY <1>3 DEF Propose
    <2> QED
      BY <1>3, <2>1, RefusedIsWellFormed
  <1> QED
    BY <1>2, <1>3

\* What a supplied delegation comes to: never another one, and a final only of
\* a completed one, with what the candidate it names is pinned as.
LEMMA ConcludeIsWellFormed ==
    ASSUME NEW t \in Supplies, Concludes(t)
    PROVE  /\ WellFormed(Conclude(t))
           /\ Conclude(t).kind # "delegate_agent"
           /\ Conclude(t).kind = "final" =>
                 /\ t.state = "completed" /\ PinnedAs(t) # {}
                 /\ Conclude(t).outputs = PinnedAs(t)
  <1>1. OfTexts(One("note", Fixed)) /\ OfTexts(One("reason", t.reason))
        /\ OfTexts(Beside(One("summary", Fixed), One("delegate", Fixed)))
    <2>1. IsText(t.reason)
      BY ReasonsAreTexts DEF Supplies
    <2> QED
      BY <2>1, FixedTexts, OneIsOfTexts, BesideIsOfTexts
  <1>2. {} \in SUBSET Artifact /\ PinnedAs(t) \in SUBSET Artifact
    BY DEF PinnedAs, Supplies
  <1>3. "continue" \in Decisions /\ "refuse" \in Decisions /\ "final" \in Decisions
    BY DEF Decisions
  <1>4. CASE t.state = "pending"
    <2>1. Conclude(t) = Decided("continue", One("note", Fixed), {})
      BY <1>4 DEF Conclude
    <2>2. WellFormed(Conclude(t)) /\ Conclude(t).kind \in {"continue", "error"}
      BY <2>1, <1>1, <1>2, <1>3, DecidedIsWellFormed
    <2> QED
      BY <2>2
  <1>5. CASE t.state \in {"refused", "failed"}
    <2>1. Conclude(t) \in {Refused("context"), Refused("delegation"),
                           Decided("refuse", One("reason", t.reason), {})}
      BY <1>5 DEF Conclude
    <2>2. WellFormed(Decided("refuse", One("reason", t.reason), {}))
          /\ Decided("refuse", One("reason", t.reason), {}).kind \in {"refuse", "error"}
      BY <1>1, <1>2, <1>3, DecidedIsWellFormed
    <2> QED
      BY <2>1, <2>2, RefusedIsWellFormed
  <1>6. CASE t.state = "other"
    <2>1. Conclude(t) = Refused("context")
      BY <1>6 DEF Conclude
    <2> QED
      BY <2>1, RefusedIsWellFormed
  <1>7. CASE t.state = "completed"
    <2> DEFINE payload == Beside(One("summary", Fixed), One("delegate", Fixed))
    <2>1. OfTexts(payload)
      BY <1>1
    <2> HIDE DEF payload
    <2>2. \/ Conclude(t) \in {Refused("context"), Refused("DelegateNotPermitted")}
          \/ PinnedAs(t) # {} /\ Conclude(t) = Decided("final", payload, PinnedAs(t))
      BY <1>7 DEF Conclude, payload
    <2>3. LET d == Decided("final", payload, PinnedAs(t)) IN
          WellFormed(d) /\ d.kind \in {"final", "error"}
          /\ (d.kind = "final" => d.outputs = PinnedAs(t))
      BY <2>1, <1>2, <1>3, DecidedIsWellFormed
    <2> QED
      BY <1>7, <2>2, <2>3, RefusedIsWellFormed
  <1> QED
    BY <1>4, <1>5, <1>6, <1>7 DEF Supplies, Concludes, Settled
-----------------------------------------------------------------------------
(***************************************************************************)
(* The invariant.                                                          *)
(***************************************************************************)
LEMMA OutcomesAreWellFormed ==
    ASSUME NEW t \in Supplies, NEW a, NEW o,
           \/ Concludes(t) /\ o = Conclude(t)
           \/ \E error \in {"boundary", "context", "unavailable"} : o = Refused(error)
           \/ a \in Plan /\ o = Propose(a)
    PROVE  WellFormed(o)
  <1>1. ASSUME Concludes(t), o = Conclude(t) PROVE WellFormed(o)
    BY <1>1, ConcludeIsWellFormed
  <1>2. ASSUME NEW error \in {"boundary", "context", "unavailable"}, o = Refused(error)
        PROVE  WellFormed(o)
    BY <1>2, RefusedIsWellFormed
  <1>3. ASSUME a \in Plan, o = Propose(a) PROVE WellFormed(o)
    BY <1>3, ProposeIsWellFormed
  <1> QED
    BY <1>1, <1>2, <1>3

\* Whatever is routed, the turn was not given a delegation, so there was none.
LEMMA RoutesAreFirst ==
    ASSUME IInv, outcome # None, outcome.kind = "delegate_agent"
    PROVE  work.state = "none" /\ delegated = <<>> /\ turns >= 1
  <1>1. task # None /\ task \in Supplies /\ turns >= 1
    BY DEF IInv, OutcomesFollowTheTask, TasksFollowTheWork
  <1>2. ~(Concludes(task) /\ outcome = Conclude(task))
    BY <1>1, ConcludeIsWellFormed
  <1>3. ~(\E error \in {"boundary", "context", "unavailable"} : outcome = Refused(error))
    BY DEF Refused
  <1>4. ~Concludes(task)
    BY <1>2, <1>3 DEF IInv, OutcomesFollowTheTask
  <1>5. work.state = "none"
    BY <1>1, <1>4 DEF IInv, TasksFollowTheWork, Concludes
  <1> QED
    BY <1>1, <1>5 DEF IInv, TypeOK

LEMMA WorkSupplied ==
    ASSUME IInv, NEW t \in Supplied
    PROVE  /\ t \in Supplies
           /\ t.state = "absent" => work.state = "none"
           /\ t.state = "completed" =>
                 work.state = "completed" /\ t.inputs \subseteq {work.artifact}
  <1>1. /\ work.state \in {"none", "running"} \cup Settled
        /\ work.artifact \in Artifact \cup {None}
    BY DEF IInv, TypeOK
  <1>2. t.inputs = {} \/ (work.artifact # None /\ t.inputs = {work.artifact})
    BY DEF Supplied
  <1>3. t.state \in {"absent", "pending", "other"} \cup Settled
    BY <1>1 DEF Supplied, Settled
  <1>4. t \in Supplies
    BY <1>1, <1>2, <1>3 DEF Supplied, Supplies
  <1>5. t.state = "absent" => work.state = "none"
    BY <1>1 DEF Supplied, Settled
  <1>6. t.state = "completed" => work.state = "completed"
    BY <1>1 DEF Supplied, Settled
  <1> QED
    BY <1>2, <1>4, <1>5, <1>6

LEMMA InitIInv == Init => IInv
  <1> SUFFICES ASSUME Init PROVE IInv
    OBVIOUS
  <1>1. TypeOK
    BY TurnAssumption DEF Init, TypeOK
  <1>2. DelegatedOnce /\ TasksFollowTheWork /\ OutcomesFollowTheTask
    BY DEF Init, DelegatedOnce, TasksFollowTheWork, OutcomesFollowTheTask
  <1> QED
    BY <1>1, <1>2 DEF IInv

LEMMA DispatchIInv == IInv /\ Dispatch => IInv'
  <1> SUFFICES ASSUME IInv, Dispatch PROVE IInv'
    OBVIOUS
  <1> USE DEF IInv, Dispatch
  <1>1. turns' = turns + 1 /\ turns' \in 0..MaxTurns /\ turns' >= 1
    BY TurnAssumption DEF TypeOK
  <1>2. UNCHANGED <<answer, outcome, work, carried, document, delegated>>
    OBVIOUS
  <1>3. outcome = None /\ answer = None
    BY DEF OutcomesFollowTheTask
  <1>4. task' \in Supplied
    OBVIOUS
  <1>5. Len(delegated) <= turns => Len(delegated) <= turns'
    <2>1. Len(delegated) \in Nat
      BY DEF DelegatedOnce
    <2> QED
      BY <2>1, <1>1, TurnAssumption DEF TypeOK
  <1>6. TypeOK'
    BY <1>1, <1>2, <1>3, <1>5 DEF TypeOK
  <1>7. TasksFollowTheWork'
    BY <1>1, <1>2, <1>4, WorkSupplied DEF TasksFollowTheWork
  <1>8. DelegatedOnce' /\ OutcomesFollowTheTask'
    BY <1>2, <1>3 DEF DelegatedOnce, OutcomesFollowTheTask
  <1> QED
    BY <1>6, <1>7, <1>8

LEMMA DecideIInv == IInv /\ Decide => IInv'
  <1> SUFFICES ASSUME IInv, Decide PROVE IInv'
    OBVIOUS
  <1>1. UNCHANGED <<turns, task, work, carried, document, delegated>> /\ task # None
    BY DEF Decide
  <1>2. answer = None
    BY DEF IInv, Decide, OutcomesFollowTheTask
  <1>3. TasksFollowTheWork' /\ DelegatedOnce'
    BY <1>1 DEF IInv, TasksFollowTheWork, DelegatedOnce
  <1>4. OutcomesFollowTheTask'
    <2>1. CASE task.forbidden
      BY <2>1, <1>1, <1>2 DEF Decide, OutcomesFollowTheTask
    <2>2. CASE ~task.forbidden /\ Concludes(task)
      BY <2>2, <1>1, <1>2 DEF Decide, OutcomesFollowTheTask
    <2>3. CASE ~task.forbidden /\ ~Concludes(task) /\ ~task.prompt
      BY <2>3, <1>1, <1>2 DEF Decide, OutcomesFollowTheTask
    <2>4. CASE ~task.forbidden /\ ~Concludes(task) /\ task.prompt
      <3>1. CASE outcome' = Refused("unavailable") /\ UNCHANGED answer
        BY <3>1, <1>1, <1>2 DEF OutcomesFollowTheTask
      <3>2. CASE \E p \in Plan : outcome' = Propose(p) /\ answer' = p
        <4>1. answer' \in Plan /\ outcome' = Propose(answer')
          BY <3>2
        <4>2. outcome' # None
          BY <4>1, OutcomeAssumption
        <4>3. ~Concludes(task') /\ task' # None
          BY <2>4, <1>1
        <4> QED
          BY <4>1, <4>2, <4>3 DEF OutcomesFollowTheTask
      <3> QED
        BY <2>4, <3>1, <3>2 DEF Decide
    <2> QED
      BY <2>1, <2>2, <2>3, <2>4
  <1>5. outcome' # None => WellFormed(outcome')
    BY <1>3, <1>4, OutcomesAreWellFormed DEF TasksFollowTheWork, OutcomesFollowTheTask
  <1>6. TypeOK'
    BY <1>1, <1>4, <1>5 DEF IInv, TypeOK, OutcomesFollowTheTask, WellFormed, Decisions
  <1> QED
    BY <1>3, <1>4, <1>6 DEF IInv

LEMMA RouteIInv == IInv /\ Route => IInv'
  <1> SUFFICES ASSUME IInv, Route PROVE IInv'
    OBVIOUS
  <1>1. work.state = "none" /\ delegated = <<>> /\ turns >= 1
    BY RoutesAreFirst DEF Route
  <1>2. PICK input : delegated' = Append(delegated, input)
    BY DEF Route
  <1>3. delegated' = <<input>> /\ Len(delegated') = 1 /\ delegated' # <<>>
    BY <1>1, <1>2
  <1>4. /\ work' = [state |-> "running", artifact |-> None]
        /\ task' = None /\ answer' = None /\ outcome' = None /\ turns' = turns
    BY DEF Route
  <1>5. TypeOK'
    BY <1>1, <1>3, <1>4 DEF IInv, TypeOK
  <1> QED
    BY <1>3, <1>4, <1>5 DEF IInv, DelegatedOnce, TasksFollowTheWork, OutcomesFollowTheTask

LEMMA GoOnIInv == IInv /\ GoOn => IInv'
  BY DEF GoOn, IInv, TypeOK, DelegatedOnce, TasksFollowTheWork, OutcomesFollowTheTask

LEMMA ReadIInv == IInv /\ Read => IInv'
  <1> SUFFICES ASSUME IInv, Read PROVE IInv'
    OBVIOUS
  <1>1. UNCHANGED <<turns, task, answer, outcome, work, delegated>>
    BY DEF Read
  <1> QED
    BY <1>1 DEF IInv, TypeOK, DelegatedOnce, TasksFollowTheWork, OutcomesFollowTheTask

LEMMA FinishIInv == IInv /\ Finish => IInv'
  <1> SUFFICES ASSUME IInv, Finish PROVE IInv'
    OBVIOUS
  <1>1. UNCHANGED <<turns, task, answer, outcome, delegated>> /\ work.state = "running"
    BY DEF Finish
  <1>2. /\ work'.state \in Settled /\ work'.artifact \in Artifact \cup {None}
        /\ work'.artifact # None <=> work'.state = "completed"
    BY ApartAssumption DEF Finish, Settled
  <1>3. TypeOK'
    BY <1>1, <1>2 DEF IInv, TypeOK, Settled
  <1>4. TasksFollowTheWork'
    BY <1>1, <1>2 DEF IInv, TasksFollowTheWork
  <1>5. DelegatedOnce' /\ OutcomesFollowTheTask'
    BY <1>1 DEF IInv, DelegatedOnce, OutcomesFollowTheTask
  <1> QED
    BY <1>3, <1>4, <1>5 DEF IInv

LEMMA StepIInv == IInv /\ [Next]_vars => IInv'
  <1> SUFFICES ASSUME IInv, [Next]_vars PROVE IInv'
    OBVIOUS
  <1>1. CASE UNCHANGED vars
    BY <1>1 DEF vars, IInv, TypeOK, DelegatedOnce, TasksFollowTheWork, OutcomesFollowTheTask
  <1> QED
    BY <1>1, DispatchIInv, DecideIInv, RouteIInv, GoOnIInv, ReadIInv, FinishIInv DEF Next, Ended

\* The state of the delegated work, what the tasks say of it, and what the turns
\* came to agree in every reachable state.
THEOREM DelegationInvariance == Spec => []IInv
  BY InitIInv, StepIInv, PTL DEF Spec
-----------------------------------------------------------------------------
(***************************************************************************)
(* What it implies.                                                        *)
(***************************************************************************)

\* Every variable keeps its type (turn.go:38-64).
THEOREM TypeCorrect == Spec => []TypeOK
  BY DelegationInvariance, PTL DEF IInv

\* A run delegates once, whatever its plans propose, whatever its tasks lose of
\* what was supplied and however its delegation ends (turn.go:25-27, 68-70).
THEOREM DelegatesOnce == Spec => []OneDelegation
  <1>1. IInv => OneDelegation
    <2> SUFFICES ASSUME DelegatedOnce PROVE Len(delegated) <= 1
      BY DEF IInv, OneDelegation
    <2>1. ASSUME NEW input, delegated = <<input>> PROVE Len(delegated) = 1
      BY <2>1
    <2>2. Len(<<>>) = 0
      OBVIOUS
    <2> QED
      BY <2>1, <2>2 DEF DelegatedOnce
  <1> QED
    BY <1>1, DelegationInvariance, PTL

\* A plan that asks for a delegation is delegated or refused (plan.go:104-118).
THEOREM DelegationsAreCarriedOut == Spec => []NoDelegationIsPassedOver
  <1>1. IInv => NoDelegationIsPassedOver
    <2> SUFFICES ASSUME IInv, outcome # None, answer # None, outcome.kind # "error",
                        Delegates(answer) # {}
                 PROVE  outcome.kind = "delegate_agent" /\ Cardinality(Delegates(answer)) = 1
      BY DEF NoDelegationIsPassedOver
    <2>1. answer \in Plan /\ outcome = Propose(answer)
      BY DEF IInv, OutcomesFollowTheTask
    <2>2. Delegates(answer) = {1} /\ outcome = Resolve(answer.steps[1])
          /\ answer.steps[1] \in PlanStep
      BY <2>1, ProposeIsWellFormed
    <2>3. answer.steps[1].action = "delegate"
      BY <2>2 DEF Delegates
    <2> QED
      BY <2>2, <2>3, ResolveIsWellFormed, FS_Singleton
  <1> QED
    BY <1>1, DelegationInvariance, PTL

\* A run ends on the artifact its delegated work produced (turn.go:167-171,
\* 212-221).
THEOREM FinalsAreDelegated == Spec => []FinalIsTheDelegatedWork
  <1>1. IInv => FinalIsTheDelegatedWork
    <2> SUFFICES ASSUME IInv, outcome # None, outcome.kind = "final"
                 PROVE  /\ work.state = "completed"
                        /\ outcome.outputs = {work.artifact} /\ task.candidate = work.artifact
      BY DEF FinalIsTheDelegatedWork
    <2>1. task # None /\ task \in Supplies
      BY DEF IInv, OutcomesFollowTheTask, TasksFollowTheWork
    <2>2. Concludes(task) /\ outcome = Conclude(task)
      BY ProposeIsWellFormed DEF IInv, OutcomesFollowTheTask, Refused
    <2>3. task.state = "completed" /\ PinnedAs(task) # {} /\ outcome.outputs = PinnedAs(task)
      BY <2>1, <2>2, ConcludeIsWellFormed
    <2>4. work.state = "completed" /\ task.inputs \subseteq {work.artifact}
      BY <2>1, <2>3 DEF IInv, TasksFollowTheWork
    <2>5. PICK a \in task.inputs : task.candidate # None /\ a.id = task.candidate.id
                                   /\ a.content = task.candidate.content
      BY <2>3 DEF PinnedAs
    <2>6. a \in Artifact /\ task.candidate \in Artifact
      BY <2>1, <2>5 DEF Supplies
    <2>7. a = work.artifact /\ task.candidate = a
      BY <2>4, <2>5, <2>6, ArtifactAssumption
    <2>8. PinnedAs(task) = {work.artifact}
      BY <2>3, <2>4 DEF PinnedAs
    <2> QED
      BY <2>3, <2>4, <2>7, <2>8
  <1> QED
    BY <1>1, DelegationInvariance, PTL

\* Nothing the model wrote makes the unit sign a payload its contract refuses
\* (turn.go:234-262).
THEOREM PayloadsFitTheContract == Spec => []DecisionsFitTheContract
  <1>1. IInv => DecisionsFitTheContract
    <2> SUFFICES ASSUME IInv, outcome # None
                 PROVE  WellFormed(outcome)
      BY DEF WellFormed, DecisionsFitTheContract
    <2> QED
      BY OutcomesAreWellFormed DEF IInv, TasksFollowTheWork, OutcomesFollowTheTask
  <1> QED
    BY <1>1, DelegationInvariance, PTL
-----------------------------------------------------------------------------
(***************************************************************************)
(* Continuations.  A set of naturals has a least element, which stands in  *)
(* for an induction over the positions of a text.                          *)
(***************************************************************************)

\* A set of natural numbers has a least one, and one that is closed under
\* successor has them all.
LEMMA LeastNatural ==
    ASSUME NEW T \in SUBSET Nat, T # {}
    PROVE  \E x \in T : \A y \in T : x <= y
  <1> DEFINE R == OpToRel(<, Nat)
  <1>1. \E x \in T : \A y \in T : ~(<<y, x>> \in R)
    BY NatLessThanWellFounded, WFMin
  <1>2. \A x, y \in T : <<y, x>> \in R <=> y < x
    BY DEF OpToRel
  <1>3. \A x, y \in T : ~(y < x) => x <= y
    OBVIOUS
  <1> HIDE DEF R
  <1> QED
    BY <1>1, <1>2, <1>3

\* A set that has 1 and is closed under successor reaches as far as one likes.
LEMMA UpToIt ==
    ASSUME NEW n \in Nat, NEW S, 1 \in S, \A i \in 1..(n - 1) : i \in S => i + 1 \in S
    PROVE  1..n \subseteq S
  <1> SUFFICES ASSUME (1..n) \ S # {} PROVE FALSE
    OBVIOUS
  <1>1. (1..n) \ S \in SUBSET Nat
    OBVIOUS
  <1>2. PICK x \in (1..n) \ S : \A y \in (1..n) \ S : x <= y
    BY <1>1, LeastNatural
  <1>3. x # 1 /\ x - 1 \in 1..(n - 1) /\ ~(x <= x - 1)
    BY <1>2
  <1>4. x - 1 \in S
    BY <1>2, <1>3
  <1>5. (x - 1) + 1 = x
    BY <1>2
  <1> QED
    BY <1>2, <1>3, <1>4, <1>5

\* Members of different indexes can be put in order.
LEMMA MembersHaveAnOrder ==
    ASSUME NEW C, IsFiniteSet(C), \A m \in C : m.index \in Nat,
           \A m, n \in C : m.index = n.index => m = n
    PROVE  \E s \in [1..Cardinality(C) -> C] :
              \A p, q \in DOMAIN s : p < q => s[p] # s[q] /\ s[p].index <= s[q].index
  <1> DEFINE N == Cardinality(C)
             Below(m) == {n \in C : n.index < m.index}
             rank == [m \in C |-> Cardinality(Below(m)) + 1]
  <1>1. N \in Nat /\ Cardinality(1..N) = N /\ IsFiniteSet(1..N)
    BY FS_CardinalityType, FS_Interval
  <1>2. ASSUME NEW m \in C
        PROVE  IsFiniteSet(Below(m)) /\ Cardinality(Below(m)) \in Nat /\ Cardinality(Below(m)) < N
    <2>1. Below(m) \in SUBSET C /\ m \notin Below(m)
      OBVIOUS
    <2>2. /\ IsFiniteSet(Below(m)) /\ Cardinality(Below(m)) <= N
          /\ N = Cardinality(Below(m)) => C = Below(m)
      BY <2>1, FS_Subset
    <2>3. Cardinality(Below(m)) \in Nat
      BY <2>2, FS_CardinalityType
    <2> QED
      BY <1>1, <2>1, <2>2, <2>3
  <1>3. ASSUME NEW m \in C, NEW n \in C, m.index < n.index
        PROVE  rank[m] < rank[n]
    <2>1. Below(m) \in SUBSET Below(n) /\ m \in Below(n) /\ m \notin Below(m)
      BY <1>3
    <2>2. /\ Cardinality(Below(m)) <= Cardinality(Below(n))
          /\ Cardinality(Below(n)) = Cardinality(Below(m)) => Below(n) = Below(m)
      BY <1>2, <2>1, FS_Subset
    <2>3. Cardinality(Below(m)) # Cardinality(Below(n))
      BY <2>1, <2>2
    <2>4. rank[m] = Cardinality(Below(m)) + 1 /\ rank[n] = Cardinality(Below(n)) + 1
      OBVIOUS
    <2>5. Cardinality(Below(m)) \in Nat /\ Cardinality(Below(n)) \in Nat
      BY <1>2
    <2> HIDE DEF Below, rank
    <2> QED
      BY <2>2, <2>3, <2>4, <2>5
  <1>4. rank \in [C -> 1..N]
    <2>1. \A m \in C : Cardinality(Below(m)) + 1 \in 1..N
      <3> TAKE m \in C
      <3> HIDE DEF Below, N
      <3> QED
        BY <1>1, <1>2
    <2> HIDE DEF Below, N
    <2> QED
      BY <2>1
  <1> HIDE DEF rank
  <1>5. ASSUME NEW m \in C, NEW n \in C, rank[m] = rank[n] PROVE m = n
    <2>1. rank[m] \in Int
      BY <1>1, <1>4
    <2>2. ~(m.index < n.index) /\ ~(n.index < m.index)
      BY <1>3, <1>5, <2>1
    <2>3. m.index \in Nat /\ n.index \in Nat
      OBVIOUS
    <2> QED
      BY <2>2, <2>3
  <1> HIDE DEF N
  <1>6. rank \in Injection(C, 1..N)
    BY <1>4, <1>5 DEF Injection, IsInjective
  <1>7. rank \in Surjection(C, 1..N)
    BY <1>1, <1>6, FS_Injection DEF N
  <1>8. \A i \in 1..N : \E m \in C : rank[m] = i
    BY <1>7 DEF Surjection
  <1> DEFINE s == [i \in 1..N |-> CHOOSE m \in C : rank[m] = i]
  <1>9. \A i \in 1..N : s[i] \in C /\ rank[s[i]] = i
    BY <1>8
  <1>10. s \in [1..N -> C]
    BY <1>9
  <1>11. ASSUME NEW p \in 1..N, NEW q \in 1..N, p < q
         PROVE  s[p] # s[q] /\ s[p].index <= s[q].index
    <2>1. rank[s[p]] = p /\ rank[s[q]] = q /\ s[p] \in C /\ s[q] \in C
      BY <1>9
    <2> HIDE DEF s
    <2>2. p # q /\ ~(q < p)
      BY <1>1, <1>11
    <2>3. ~(s[q].index < s[p].index)
      BY <1>3, <2>1, <2>2
    <2>4. s[p].index \in Nat /\ s[q].index \in Nat
      BY <2>1
    <2> QED
      BY <2>1, <2>2, <2>3, <2>4
  <1> QED
    BY <1>10, <1>11 DEF N

\* The members that spell an index, and a sequence of n of them in its order.
Spells(map) == {m \in DOMAIN map : m.spelling \in {"plain", "padded"}}

InOrderOf(s, C, n) ==
    /\ s \in [1..n -> C]
    /\ \A p, q \in 1..n : p < q => s[p] # s[q] /\ s[p].index <= s[q].index

\* Indexes chooses such a sequence, and there is one.
LEMMA IndexesAreInOrder ==
    ASSUME NEW map, IsFiniteSet(Spells(map)), \A m \in Spells(map) : m.index \in Nat,
           \A m, n \in Spells(map) : m.index = n.index => m = n
    PROVE  \E s : /\ InOrderOf(s, Spells(map), Cardinality(Spells(map)))
                  /\ Indexes(map) = [p \in 1..Cardinality(Spells(map)) |-> s[p].index]
  <1> DEFINE C == Spells(map)
             InOrder(s) == \A p, q \in DOMAIN s : p < q => s[p] # s[q] /\ s[p].index <= s[q].index
             chosen == CHOOSE s \in [1..Cardinality(C) -> C] : InOrder(s)
  <1>1. \E s \in [1..Cardinality(C) -> C] : InOrder(s)
    <2> HIDE DEF C
    <2>1. IsFiniteSet(C) /\ (\A m \in C : m.index \in Nat)
          /\ \A m, n \in C : m.index = n.index => m = n
      BY DEF C
    <2> QED
      BY <2>1, MembersHaveAnOrder
  <1>2. Indexes(map) = [p \in DOMAIN chosen |-> chosen[p].index]
    BY DEF Indexes, Spells
  <1> HIDE DEF InOrder
  <1>3. chosen \in [1..Cardinality(C) -> C] /\ InOrder(chosen)
    BY <1>1
  <1> HIDE DEF chosen
  <1> QED
    BY <1>2, <1>3 DEF InOrder, InOrderOf

\* What is unbroken is so from the first position on.
LEMMA UnbrokenFromTheFirst ==
    ASSUME NEW map, NEW n \in Nat, DOMAIN Indexes(map) = 1..n
    PROVE  \E c \in 0..n : Cardinality(Unbroken(map)) = c /\ Unbroken(map) = 1..c
  <1> DEFINE U == Unbroken(map)
  <1>1. U \subseteq 1..n /\ \A p \in U : \A q \in 1..p : q \in U
    BY DEF Unbroken
  <1> HIDE DEF U
  <1>2. CASE U = 1..n
    BY <1>2, FS_Interval DEF U
  <1>3. CASE U # 1..n
    <2>1. (1..n) \ U \in SUBSET Nat
      OBVIOUS
    <2>6. (1..n) \ U # {}
      BY <1>1, <1>3, Zenon
    <2>2. PICK x \in (1..n) \ U : \A y \in (1..n) \ U : x <= y
      BY <2>1, <2>6, LeastNatural
    <2>3. \A y \in 1..(x - 1) : y \in U
      BY <2>2
    <2>4. \A y \in U : ~(x <= y)
      BY <1>1, <2>2
    <2>5. \A y \in U : y \in 1..(x - 1)
      BY <1>1, <2>2, <2>4
    <2>8. U = 1..(x - 1)
      BY <2>3, <2>5
    <2>9. x - 1 \in 0..n
      BY <2>2
    <2>7. Cardinality(1..(x - 1)) = x - 1
      BY <2>2, FS_Interval
    <2> QED
      BY <2>7, <2>8, <2>9 DEF U
  <1> QED
    BY <1>2, <1>3

\* Texts that are flattened are joined one after the other.
JoinsUp(g, seqs, c) ==
    g[1] = seqs[1] /\ \A i \in 2..c : g[i] = g[i - 1] \o seqs[i]

\* Joining so is what FlattenSeq does, for its recursion has one solution.
LEMMA FlattenedIsJoined ==
    ASSUME NEW seqs, NEW c \in Nat \ {0}, Len(seqs) = c, NEW g, JoinsUp(g, seqs, c)
    PROVE  FlattenSeq(seqs) = g[c]
  <1> DEFINE Joins(f) == f = [i \in 1..c |-> IF i = 1 THEN seqs[i] ELSE f[i - 1] \o seqs[i]]
             chosen == CHOOSE f : Joins(f)
             g0 == [i \in 1..c |-> g[i]]
  <1>1. Joins(g0)
    <2>1. ASSUME NEW i \in 1..c
          PROVE  g0[i] = IF i = 1 THEN seqs[i] ELSE g0[i - 1] \o seqs[i]
      <3>1. i # 1 => i \in 2..c /\ i - 1 \in 1..c
        OBVIOUS
      <3> QED
        BY <3>1 DEF JoinsUp
    <2> QED
      BY <2>1
  <1>2. Joins(chosen)
    BY <1>1
  <1>3. FlattenSeq(seqs) = chosen[c]
    BY DEF FlattenSeq
  <1> HIDE DEF chosen
  <1>4. ASSUME NEW i \in 1..c
        PROVE  chosen[i] = IF i = 1 THEN seqs[i] ELSE chosen[i - 1] \o seqs[i]
    BY <1>2
  <1> HIDE DEF Joins
  <1> DEFINE S == {i \in 1..c : chosen[i] = g[i]}
  <1>5. 1 \in S
    BY <1>4 DEF JoinsUp
  <1>6. ASSUME NEW i \in 1..(c - 1), i \in S PROVE i + 1 \in S
    <2>1. i + 1 \in 2..c /\ i + 1 \in 1..c /\ (i + 1) - 1 = i /\ i + 1 # 1
      OBVIOUS
    <2>2. chosen[i + 1] = chosen[(i + 1) - 1] \o seqs[i + 1]
      BY <1>4, <2>1
    <2>3. g[i + 1] = g[(i + 1) - 1] \o seqs[i + 1]
      BY <2>1 DEF JoinsUp
    <2>4. chosen[i] = g[i]
      BY <1>6
    <2> QED
      BY <2>1, <2>2, <2>3, <2>4
  <1> HIDE DEF S
  <1>7. 1..c \subseteq S
    BY <1>5, <1>6, UpToIt
  <1>8. c \in 1..c
    OBVIOUS
  <1> QED
    BY <1>3, <1>7, <1>8 DEF S

\* The chunks of a text are those that begin in it.
LEMMA ChunksBeginInside ==
    ASSUME NEW L \in Nat \ {0}, NEW i \in Nat
    PROVE  /\ i * ValueBound \in Nat
           /\ (i + 1) * ValueBound = i * ValueBound + ValueBound
           /\ i \in 0..((L - 1) \div ValueBound) <=> i * ValueBound < L
  <1> DEFINE q == (L - 1) \div ValueBound
             r == (L - 1) % ValueBound
  <1>1. ValueBound \in Nat /\ ValueBound > 0
    BY BoundAssumption
  <1>2. q \in Nat /\ r \in Nat /\ r < ValueBound /\ L - 1 = ValueBound * q + r
    BY <1>1
  <1>3. i * ValueBound \in Nat /\ (i + 1) * ValueBound = i * ValueBound + ValueBound
    BY <1>1
  <1> HIDE DEF q, r
  <1>4. CASE i <= q
    <2>1. ValueBound * i <= ValueBound * q
      BY <1>1, <1>2, <1>4
    <2> QED
      BY <1>1, <1>2, <1>3, <1>4, <2>1 DEF q
  <1>5. CASE i >= q + 1
    <2>1. ValueBound * i >= ValueBound * (q + 1)
      BY <1>1, <1>2, <1>5
    <2>2. ValueBound * (q + 1) = ValueBound * q + ValueBound
      BY <1>1, <1>2
    <2> QED
      BY <1>1, <1>2, <1>3, <1>5, <2>1, <2>2 DEF q
  <1> QED
    BY <1>2, <1>4, <1>5

\* The chunks 0 to q, and how many they are.
ChunksUpTo(q) == {Chunk(i) : i \in 0..q}

LEMMA ChunksAreCounted ==
    ASSUME NEW q \in Nat
    PROVE  IsFiniteSet(ChunksUpTo(q)) /\ Cardinality(ChunksUpTo(q)) = q + 1
  <1> DEFINE f == [i \in 0..q |-> Chunk(i)]
  <1>1. f \in Injection(0..q, ChunksUpTo(q))
    BY DEF Injection, IsInjective, ChunksUpTo, Chunk
  <1>2. f \in Surjection(0..q, ChunksUpTo(q))
    BY DEF Surjection, ChunksUpTo
  <1>3. ExistsBijection(0..q, ChunksUpTo(q))
    BY <1>1, <1>2 DEF ExistsBijection, Bijection
  <1>4. IsFiniteSet(0..q) /\ Cardinality(0..q) = q + 1
    BY FS_Interval
  <1> QED
    BY <1>3, <1>4, FS_Bijection

\* When no chunk is missing the chunks in order are 0, 1 and so on.
LEMMA AllChunksInOrder ==
    ASSUME NEW q \in Nat, NEW s \in [1..(q + 1) -> ChunksUpTo(q)],
           \A i, j \in 1..(q + 1) : i < j => s[i] # s[j] /\ s[i].index <= s[j].index
    PROVE  \A p \in 1..(q + 1) : s[p].index = p - 1
  <1> DEFINE Odd == {p \in 1..(q + 1) : s[p].index # p - 1}
  <1> SUFFICES ASSUME Odd # {} PROVE FALSE
    OBVIOUS
  <1>1. Odd \in SUBSET Nat
    OBVIOUS
  <1>2. PICK p \in Odd : \A y \in Odd : p <= y
    BY <1>1, LeastNatural
  <1>3. \A y \in 1..(p - 1) : s[y].index = y - 1
    BY <1>2
  <1>4. \A i \in 1..(q + 1) : s[i].index \in 0..q /\ s[i] = Chunk(s[i].index)
    BY DEF ChunksUpTo, Chunk
  <1>5. s \in Surjection(1..(q + 1), ChunksUpTo(q))
    <2>1. \A i, j \in 1..(q + 1) : s[i] = s[j] => i = j
      OBVIOUS
    <2>2. s \in Injection(1..(q + 1), ChunksUpTo(q))
      BY <2>1 DEF Injection, IsInjective
    <2>3. Cardinality(1..(q + 1)) = q + 1
      BY FS_Interval
    <2> QED
      BY <2>2, <2>3, ChunksAreCounted, FS_Injection
  <1>6. p \in 1..(q + 1) /\ p - 1 \in 0..q /\ s[p].index # p - 1
    BY <1>2
  <1>7. Chunk(p - 1) \in ChunksUpTo(q)
    BY <1>6 DEF ChunksUpTo
  <1>8. PICK r \in 1..(q + 1) : s[r] = Chunk(p - 1)
    BY <1>5, <1>7 DEF Surjection
  <1>9. s[r].index = p - 1
    BY <1>8 DEF Chunk
  <1> HIDE DEF Odd
  <1>10. r # p /\ ~(r < p)
    BY <1>3, <1>6, <1>9
  <1>11. p < r
    BY <1>6, <1>10
  <1>12. s[p].index <= p - 1
    BY <1>6, <1>9, <1>11
  <1> DEFINE u == s[p].index + 1
  <1>13. u \in 1..(p - 1) /\ u \in 1..(q + 1)
    BY <1>4, <1>6, <1>12
  <1>14. s[u].index = u - 1 /\ u - 1 = s[p].index
    BY <1>3, <1>4, <1>6, <1>13
  <1>15. s[u] = s[p]
    BY <1>4, <1>6, <1>13, <1>14
  <1> HIDE DEF u
  <1> QED
    BY <1>6, <1>13, <1>15

\* The chunk after a beginning makes the next beginning.
LEMMA BeginningsGrow ==
    ASSUME NEW S, NEW t \in Seq(S), NEW i \in Nat \ {0},
           (i - 1) * ValueBound < Len(t), NEW end,
           end = IF i * ValueBound > Len(t) THEN Len(t) ELSE i * ValueBound
    PROVE  /\ end \in 1..Len(t)
           /\ SubSeq(t, 1, (i - 1) * ValueBound)
                 \o SubSeq(t, (i - 1) * ValueBound + 1, end) = SubSeq(t, 1, end)
  <1> DEFINE k == (i - 1) * ValueBound
  <1>1. Len(t) \in Nat /\ ValueBound \in Nat /\ ValueBound > 0 /\ i - 1 \in Nat /\ (i - 1) + 1 = i
    BY LenProperties, BoundAssumption
  <1>2. k \in Nat /\ i * ValueBound = k + ValueBound /\ k < Len(t)
    BY <1>1
  <1> HIDE DEF k
  <1>3. end \in k..Len(t) /\ end \in 1..Len(t)
    BY <1>1, <1>2
  <1>4. 1 \in 1..(Len(t) + 1) /\ k \in (1 - 1)..Len(t)
    BY <1>1, <1>2
  <1>5. SubSeq(t, 1, k) \o SubSeq(t, k + 1, end) = SubSeq(t, 1, end)
    BY <1>3, <1>4, ConcatAdjacentSubSeq
  <1> QED
    BY <1>3, <1>5 DEF k

\* What is left of a continuation, whatever it gained, and with no spelling of an
\* index but the plain one.
IsLeftOf(map, t) ==
    /\ DOMAIN map \subseteq DOMAIN Chunked(t) \cup Stray
    /\ \A m \in DOMAIN map \cap DOMAIN Chunked(t) : map[m] = Chunked(t)[m]
Plain(map) == \A m \in DOMAIN map : m.spelling # "padded"

\* A beginning is a prefix.
LEMMA BeginningIsAPrefix ==
    ASSUME NEW S, NEW t \in Seq(S), NEW end \in 0..Len(t)
    PROVE  IsPrefix(SubSeq(t, 1, end), t)
  <1> DEFINE b == SubSeq(t, 1, end)
  <1>1. \A i \in 1..end : t[i] \in S
    BY LenProperties, ElementOfSeq
  <1>2. b \in Seq(S) /\ Len(b) = IF 1 <= end THEN end - 1 + 1 ELSE 0
    BY <1>1, LenProperties, SubSeqProperties
  <1>3. Len(b) = end
    BY <1>2, LenProperties
  <1>4. SubSeq(b, 1, Len(b)) = b
    BY <1>2, SubSeqFull
  <1> HIDE DEF b
  <1>5. SubSeq(b, 1, Len(b)) = SubSeq(t, 1, Len(b))
    BY <1>3, <1>4 DEF b
  <1>6. Len(b) <= Len(t)
    BY <1>3, LenProperties
  <1>7. IsPrefix(b, t)
    BY <1>5, <1>6 DEF IsPrefix
  <1> QED
    BY <1>7 DEF b

\* A text that one value holds is read as it is, or, when it was lost, not at all.
LEMMA ShortTexts ==
    ASSUME NEW S, NEW t \in Seq(S), t # <<>>, Len(t) <= ValueBound,
           NEW map, IsLeftOf(map, t), Plain(map)
    PROVE  /\ IsPrefix(Joined(map), t)
           /\ Len(t) <= ValueBound * Cardinality(DOMAIN map \ Stray) => Joined(map) = t
  <1>1. Chunked(t) = [m \in {Alone} |-> t]
    BY DEF Chunked
  <1>2. DOMAIN Chunked(t) = {Alone} /\ Chunked(t)[Alone] = t
    BY <1>1
  <1>3. CASE Alone \in DOMAIN map
    <2>1. Joined(map) = t
      BY <1>2, <1>3 DEF Joined, IsLeftOf
    <2>2. SubSeq(t, 1, Len(t)) = t /\ Len(t) \in 0..Len(t)
      BY SubSeqFull, LenProperties
    <2> QED
      BY <2>1, <2>2, BeginningIsAPrefix
  <1>4. CASE Alone \notin DOMAIN map
    <2>1. DOMAIN map \subseteq Stray
      BY <1>2, <1>4 DEF IsLeftOf
    <2>2. Spells(map) = {} /\ DOMAIN map \ Stray = {}
      BY <2>1, StrayAssumption DEF Plain, Spells
    <2>3. Cardinality(Spells(map)) = 0 /\ IsFiniteSet(Spells(map))
      BY <2>2, FS_EmptySet
    <2>4. \E s : Indexes(map) = [p \in 1..Cardinality(Spells(map)) |-> s[p].index]
      <3>1. (\A m \in Spells(map) : m.index \in Nat)
            /\ \A m, n \in Spells(map) : m.index = n.index => m = n
        BY <2>2
      <3>2. \E s : /\ InOrderOf(s, Spells(map), Cardinality(Spells(map)))
                   /\ Indexes(map) = [p \in 1..Cardinality(Spells(map)) |-> s[p].index]
        BY <2>3, <3>1, IndexesAreInOrder
      <3> QED
        BY <3>2
    <2>5. DOMAIN Indexes(map) = 1..0
      BY <2>3, <2>4
    <2>6. Cardinality(Unbroken(map)) = 0
      BY <2>5, UnbrokenFromTheFirst
    <2>7. Joined(map) = FlattenSeq([p \in 1..0 |-> Looked(map, p - 1)])
      BY <1>4, <2>6 DEF Joined
    <2>8. [p \in 1..0 |-> Looked(map, p - 1)] = <<>>
      OBVIOUS
    <2>9. Joined(map) = <<>>
      BY <2>7, <2>8 DEF FlattenSeq
    <2>10. SubSeq(t, 1, 0) = <<>> /\ 0 \in 0..Len(t)
      BY SubSeqEmpty, LenProperties
    <2>11. IsPrefix(Joined(map), t)
      BY <2>9, <2>10, BeginningIsAPrefix
    <2>12. Cardinality(DOMAIN map \ Stray) = 0
      BY <2>2, FS_EmptySet
    <2>13. ~(Len(t) <= ValueBound * 0)
      BY BoundAssumption, EmptySeq
    <2> QED
      BY <2>11, <2>12, <2>13
  <1> QED
    BY <1>3, <1>4

\* A longer one is read as the chunks before the first that was lost.
LEMMA LongTexts ==
    ASSUME NEW S, NEW t \in Seq(S), ~(Len(t) <= ValueBound),
           NEW map, IsLeftOf(map, t), Plain(map)
    PROVE  /\ IsPrefix(Joined(map), t)
           /\ Len(t) <= ValueBound * Cardinality(DOMAIN map \ Stray) => Joined(map) = t
  <1> DEFINE C == Spells(map)
             L == Len(t)
             q == (L - 1) \div ValueBound
             End(i) == IF i * ValueBound > L THEN L ELSE i * ValueBound
             n == Cardinality(C)
  <1>1. L \in Nat \ {0} /\ ValueBound \in Nat /\ ValueBound > 0
    BY LenProperties, BoundAssumption
  <1>2. q \in Nat
    BY <1>1
  <1>3. DOMAIN Chunked(t) = ChunksUpTo(q)
        /\ \A i \in 0..q : Chunked(t)[Chunk(i)] = SubSeq(t, i * ValueBound + 1, End(i + 1))
    BY DEF Chunked, ChunksUpTo, Chunk
  <1> HIDE DEF q
  <1>4. \A m \in ChunksUpTo(q) : m.spelling = "plain" /\ m.index \in 0..q /\ m = Chunk(m.index)
    BY DEF ChunksUpTo, Chunk
  <1>5. C \subseteq ChunksUpTo(q) /\ C = DOMAIN map \ Stray /\ Alone \notin DOMAIN map
    <2>1. \A m \in Stray : m.spelling \in {"padded", "text"}
      BY StrayAssumption
    <2>2. DOMAIN map \subseteq ChunksUpTo(q) \cup Stray
      BY <1>3 DEF IsLeftOf
    <2>3. Alone.spelling = "none"
      BY DEF Alone
    <2> QED
      BY <1>4, <2>1, <2>2, <2>3 DEF Plain, Spells
  <1>6. IsFiniteSet(C) /\ n \in Nat /\ n <= q + 1 /\ (n = q + 1 => C = ChunksUpTo(q))
    <2>1. IsFiniteSet(ChunksUpTo(q)) /\ Cardinality(ChunksUpTo(q)) = q + 1
      BY <1>2, ChunksAreCounted
    <2>2. /\ IsFiniteSet(C) /\ n <= Cardinality(ChunksUpTo(q))
          /\ Cardinality(ChunksUpTo(q)) = n => ChunksUpTo(q) = C
      BY <1>5, <2>1, FS_Subset
    <2>3. n \in Nat
      BY <2>2, FS_CardinalityType
    <2> HIDE DEF n
    <2> QED
      BY <2>1, <2>2, <2>3
  <1>7. PICK s : InOrderOf(s, C, n) /\ Indexes(map) = [p \in 1..n |-> s[p].index]
    <2>1. \A m \in C : m.index \in Nat
      BY <1>4, <1>5
    <2>2. \A m, k \in C : m.index = k.index => m = k
      BY <1>4, <1>5
    <2> QED
      BY <1>6, <2>1, <2>2, IndexesAreInOrder
  <1> HIDE DEF C, n
  <1>8. PICK c \in 0..n : Cardinality(Unbroken(map)) = c /\ Unbroken(map) = 1..c
    BY <1>6, <1>7, UnbrokenFromTheFirst
  <1>9. \A p \in 1..c : p - 1 \in 0..q /\ Chunk(p - 1) \in C
    <2> TAKE p \in 1..c
    <2>1. p \in 1..n /\ Indexes(map)[p] = p - 1
      <3>1. p \in Unbroken(map) /\ p \in 1..p /\ p \in 1..n
        BY <1>6, <1>8
      <3>2. \A k \in 1..p : Indexes(map)[k] = k - 1
        BY <3>1 DEF Unbroken
      <3> QED
        BY <3>1, <3>2
    <2>2. s[p].index = p - 1 /\ s[p] \in C
      BY <1>7, <2>1 DEF InOrderOf
    <2> QED
      BY <1>4, <1>5, <2>2
  <1> DEFINE seqs == [p \in 1..c |-> Looked(map, p - 1)]
             g == [i \in 1..c |-> SubSeq(t, 1, End(i))]
  <1>10. Joined(map) = FlattenSeq(seqs)
    BY <1>5, <1>8 DEF Joined
  <1>11. \A p \in 1..c : /\ seqs[p] = SubSeq(t, (p - 1) * ValueBound + 1, End(p))
                         /\ (p - 1) * ValueBound < L /\ p \in Nat \ {0}
    <2> TAKE p \in 1..c
    <2>1. Chunk(p - 1) \in DOMAIN map \cap DOMAIN Chunked(t)
      BY <1>3, <1>5, <1>9
    <2>2. seqs[p] = Chunked(t)[Chunk(p - 1)]
      BY <2>1 DEF Looked, IsLeftOf
    <2>3. p - 1 \in Nat /\ (p - 1) + 1 = p /\ p - 1 \in 0..q
      BY <1>8, <1>9
    <2>4. (p - 1) * ValueBound < L
      BY <1>1, <2>3, ChunksBeginInside DEF q
    <2> QED
      BY <1>3, <2>2, <2>3, <2>4
  <1>12. ASSUME c # 0 PROVE Joined(map) = SubSeq(t, 1, End(c)) /\ End(c) \in 0..L
    <2>1. Len(seqs) = c /\ c \in Nat \ {0} /\ c \in 1..c /\ 1 \in 1..c
      BY <1>6, <1>8, <1>12
    <2>2. \A i \in 1..c : /\ End(i) \in 1..L
                          /\ SubSeq(t, 1, (i - 1) * ValueBound) \o seqs[i] = g[i]
      BY <1>11, BeginningsGrow
    <2>3. g[1] = seqs[1]
      <3>1. SubSeq(t, (1 - 1) * ValueBound + 1, End(1)) = SubSeq(t, 1, End(1))
        <4>1. (1 - 1) * ValueBound + 1 = 1
          BY <1>1
        <4> QED
          BY <4>1
      <3> QED
        BY <1>11, <2>1, <3>1
    <2>4. ASSUME NEW i \in 2..c PROVE g[i] = g[i - 1] \o seqs[i]
      <3>1. i \in 1..c /\ i - 1 \in 1..c
        BY <2>1
      <3>2. End(i - 1) = (i - 1) * ValueBound
        <4>1. (i - 1) * ValueBound < L /\ i - 1 \in Nat
          BY <1>11, <3>1
        <4>2. (i - 1) * ValueBound \in Nat
          BY <4>1, ChunksBeginInside, <1>1
        <4>3. ~((i - 1) * ValueBound > L)
          BY <1>1, <4>1, <4>2
        <4> QED
          BY <4>3
      <3> QED
        BY <2>2, <3>1, <3>2
    <2> HIDE DEF seqs, g
    <2>5. FlattenSeq(seqs) = g[c]
      <3>1. JoinsUp(g, seqs, c)
        BY <2>3, <2>4 DEF JoinsUp
      <3> QED
        BY <2>1, <3>1, FlattenedIsJoined
    <2>6. End(c) \in 0..L
      BY <1>1, <2>1, <2>2
    <2> QED
      BY <1>10, <2>1, <2>5, <2>6 DEF g
  <1>13. IsPrefix(Joined(map), t)
    <2>1. CASE c = 0
      <3>1. seqs = <<>>
        BY <2>1
      <3>2. Joined(map) = <<>>
        BY <1>10, <3>1 DEF FlattenSeq
      <3>3. SubSeq(t, 1, 0) = <<>> /\ 0 \in 0..Len(t)
        BY <1>1, SubSeqEmpty
      <3> QED
        BY <3>2, <3>3, BeginningIsAPrefix
    <2>2. CASE c # 0
      BY <1>12, <2>2, BeginningIsAPrefix
    <2> QED
      BY <2>1, <2>2
  <1>14. ASSUME L <= ValueBound * Cardinality(DOMAIN map \ Stray) PROVE Joined(map) = t
    <2>1. n = q + 1 /\ C = ChunksUpTo(q)
      <3>1. L <= n * ValueBound
        BY <1>1, <1>5, <1>6, <1>14 DEF n
      <3>2. ~(n \in 0..q)
        BY <1>1, <1>6, <3>1, ChunksBeginInside DEF q
      <3> QED
        BY <1>2, <1>6, <3>2
    <2>2. \A p \in 1..n : Indexes(map)[p] = p - 1
      BY <1>2, <1>7, <2>1, AllChunksInOrder DEF InOrderOf
    <2>3. n \in Unbroken(map)
      BY <1>2, <1>7, <2>1, <2>2 DEF Unbroken
    <2>4. c = n /\ c # 0
      BY <1>2, <1>6, <1>8, <2>1, <2>3
    <2>5. ~(c * ValueBound < L)
      BY <1>1, <1>2, <2>1, <2>4, ChunksBeginInside DEF q
    <2>6. End(c) = L
      BY <1>1, <1>2, <2>1, <2>4, <2>5
    <2> QED
      BY <1>12, <2>4, <2>6, SubSeqFull
  <1> QED
    BY <1>13, <1>14
-----------------------------------------------------------------------------
(***************************************************************************)
(* The delegated input, where it is read.                                  *)
(***************************************************************************)

\* What travels is what is left of the continuation of the one delegated input.
InputIsOnItsWay ==
    delegated # <<>> =>
        \E t : delegated = <<t>> /\ IsText(t) /\ t # <<>> /\ IsLeftOf(carried, t)

\* What was read is what travelled.
InputIsReadAsItCame ==
    document # None => delegated # <<>> /\ document = Joined(carried)

\* A payload that delegates carries the continuation of its input, less its empty
\* members, of which it has none.
LEMMA RoutedAsWritten ==
    ASSUME IInv, outcome # None, outcome.kind = "delegate_agent", NEW input,
           input = IF answer.steps[1].text = <<>> THEN EmptyObject ELSE answer.steps[1].text
    PROVE  /\ IsText(input) /\ input # <<>>
           /\ DOMAIN InputOf(outcome.payload) \subseteq DOMAIN Chunked(input)
           /\ \A m \in DOMAIN InputOf(outcome.payload) :
                 InputOf(outcome.payload)[m] = Chunked(input)[m]
  <1>1. task # None /\ task \in Supplies
    BY DEF IInv, OutcomesFollowTheTask, TasksFollowTheWork
  <1>2. ~(Concludes(task) /\ outcome = Conclude(task))
    BY <1>1, ConcludeIsWellFormed
  <1>3. answer \in Plan /\ outcome = Propose(answer)
    BY <1>2 DEF IInv, OutcomesFollowTheTask, Refused
  <1> DEFINE step == answer.steps[1]
             fixed == Beside(One("delegate", Fixed), One("reason", Fixed))
             payload == Beside(fixed, Under("input", Chunked(input)))
  <1>4. step \in PlanStep /\ outcome = Resolve(step)
    BY <1>3, ProposeIsWellFormed
  <1>5. step.action = "delegate" /\ IsText(step.text)
    BY <1>4, ResolveIsWellFormed, StepsAreOfTexts
  <1>6. IsText(input) /\ input # <<>>
    <2>1. <<"{}">> # <<>>
      OBVIOUS
    <2> QED
      BY <1>5, <2>1, FixedTexts DEF EmptyObject
  <1>7. outcome = Decided("delegate_agent", payload, {})
    BY <1>4, <1>5 DEF Resolve, Refused
  <1>8. outcome.payload = NotEmpty(payload)
    BY <1>7 DEF Decided, Refused
  <1>9. \A n : <<"input", n>> \notin DOMAIN fixed
    BY DEF Beside, One, Under
  <1>10. \A n : <<"input", n>> \in DOMAIN Under("input", Chunked(input)) =>
            n \in DOMAIN Chunked(input)
            /\ Under("input", Chunked(input))[<<"input", n>>] = Chunked(input)[n]
    BY DEF Under
  <1>11. \A n : <<"input", n>> \in DOMAIN payload =>
            n \in DOMAIN Chunked(input) /\ payload[<<"input", n>>] = Chunked(input)[n]
    BY <1>9, <1>10 DEF Beside
  <1>14. \A x \in DOMAIN payload : x = <<x[1], x[2]>>
    BY DEF Beside, One, Under
  <1> HIDE DEF payload
  <1>12. \A n : <<"input", n>> \in DOMAIN outcome.payload =>
            n \in DOMAIN Chunked(input) /\ outcome.payload[<<"input", n>>] = Chunked(input)[n]
    BY <1>8, <1>11 DEF NotEmpty
  <1>13. \A m \in DOMAIN InputOf(outcome.payload) :
            /\ <<"input", m>> \in DOMAIN outcome.payload
            /\ InputOf(outcome.payload)[m] = outcome.payload[<<"input", m>>]
    <2>1. \A x \in DOMAIN outcome.payload : x = <<x[1], x[2]>>
      BY <1>8, <1>14 DEF NotEmpty
    <2> TAKE m \in DOMAIN InputOf(outcome.payload)
    <2>2. PICK x \in DOMAIN outcome.payload : x[1] = "input" /\ m = x[2]
      BY DEF InputOf
    <2>3. <<"input", m>> \in DOMAIN outcome.payload
      BY <2>1, <2>2
    <2> QED
      BY <2>3 DEF InputOf
  <1> QED
    BY <1>6, <1>12, <1>13

\* What is routed is the continuation of the one input, whatever of it is lost.
LEMMA RouteKeepsTheInput ==
    ASSUME IInv, Route
    PROVE  InputIsOnItsWay' /\ InputIsReadAsItCame'
  <1> DEFINE input == IF answer.steps[1].text = <<>> THEN EmptyObject ELSE answer.steps[1].text
             sent == InputOf(outcome.payload)
  <1>1. outcome # None /\ outcome.kind = "delegate_agent" /\ document' = None
    BY DEF Route
  <1>2. /\ IsText(input) /\ input # <<>>
        /\ DOMAIN sent \subseteq DOMAIN Chunked(input)
        /\ \A m \in DOMAIN sent : sent[m] = Chunked(input)[m]
    BY <1>1, RoutedAsWritten
  <1>3. delegated' = <<input>>
    <2>1. delegated = <<>> /\ delegated' = Append(delegated, input)
      BY <1>1, RoutesAreFirst DEF Route
    <2> HIDE DEF input
    <2> QED
      BY <2>1
  <1>4. PICK lost \in SUBSET DOMAIN sent, gained \in SUBSET Stray :
           carried' = [m \in (DOMAIN sent \ lost) \cup gained |->
                          IF m \in DOMAIN sent THEN sent[m] ELSE Fixed]
    BY DEF Route
  <1> HIDE DEF input, sent
  <1>5. \A m \in DOMAIN Chunked(input) : m \notin Stray
    <2>1. \A m \in DOMAIN Chunked(input) : m.spelling \in {"none", "plain"}
      BY DEF Chunked, Chunk, Alone
    <2>2. \A m \in Stray : m.spelling \in {"padded", "text"}
      BY StrayAssumption
    <2> QED
      BY <2>1, <2>2
  <1>6. IsLeftOf(carried', input)
    BY <1>2, <1>4, <1>5 DEF IsLeftOf
  <1>7. InputIsOnItsWay'
    BY <1>2, <1>3, <1>6 DEF InputIsOnItsWay
  <1> QED
    BY <1>1, <1>7 DEF InputIsReadAsItCame

\* Only Route changes what travels, and Read what was read.
LEMMA StepKeepsTheInput ==
    IInv /\ InputIsOnItsWay /\ InputIsReadAsItCame /\ [Next]_vars
        => InputIsOnItsWay' /\ InputIsReadAsItCame'
  <1> SUFFICES ASSUME IInv, InputIsOnItsWay, InputIsReadAsItCame, [Next]_vars
               PROVE  InputIsOnItsWay' /\ InputIsReadAsItCame'
    OBVIOUS
  <1>1. CASE Route
    BY <1>1, RouteKeepsTheInput
  <1>2. CASE Read
    <2>1. delegated # <<>> /\ document' = Joined(carried) /\ UNCHANGED <<carried, delegated>>
      BY <1>2 DEF Read, IInv, TypeOK
    <2> QED
      BY <2>1 DEF InputIsOnItsWay, InputIsReadAsItCame
  <1>3. CASE UNCHANGED <<carried, delegated, document>>
    BY <1>3 DEF InputIsOnItsWay, InputIsReadAsItCame
  <1> QED
    BY <1>1, <1>2, <1>3 DEF Next, Dispatch, Decide, GoOn, Finish, Ended, vars

\* The delegated input is read whole or, when chunks were lost, as its beginning:
\* never with a hole in it (brief.go:57-60, turn.go:112-118).
THEOREM InputsAreReadFromTheirBeginning == Spec => []LossesShortenTheInput
  <1>1. Init => InputIsOnItsWay /\ InputIsReadAsItCame
    BY DEF Init, InputIsOnItsWay, InputIsReadAsItCame
  <1>2. InputIsOnItsWay /\ InputIsReadAsItCame => LossesShortenTheInput
    <2> SUFFICES ASSUME InputIsOnItsWay, document # None, document = Joined(carried),
                        delegated # <<>>, Plain(carried)
                 PROVE  /\ IsPrefix(document, Last(delegated))
                        /\ Len(Last(delegated)) <= ValueBound * Cardinality(DOMAIN carried \ Stray)
                              => document = Last(delegated)
      BY DEF InputIsReadAsItCame, LossesShortenTheInput, Plain
    <2>1. PICK t : delegated = <<t>> /\ IsText(t) /\ t # <<>> /\ IsLeftOf(carried, t)
      BY DEF InputIsOnItsWay
    <2>2. Last(delegated) = t
      BY <2>1 DEF Last
    <2>3. PICK S : t \in Seq(S)
      BY <2>1 DEF IsText
    <2>4. CASE Len(t) <= ValueBound
      BY <2>1, <2>2, <2>3, <2>4, ShortTexts
    <2>5. CASE ~(Len(t) <= ValueBound)
      BY <2>1, <2>2, <2>3, <2>5, LongTexts
    <2> QED
      BY <2>4, <2>5
  <1> QED
    BY <1>1, <1>2, StepKeepsTheInput, DelegationInvariance, PTL DEF Spec
=============================================================================
