----------------------------- MODULE Delegation -----------------------------
(***************************************************************************)
(* A run of the Page Change Manager: the turns Agent Service dispatches to *)
(* it, what each comes to, and the work one of them may delegate.          *)
(*                                                                         *)
(* A turn is managerTurn.Decide of agents/page-change-manager/turn.go: it  *)
(* concludes when its task carries the state of a delegation, and asks the *)
(* governed model for a plan otherwise (plan.go).  It remembers nothing:   *)
(* that a run delegates once has to follow from what each turn is given.   *)
(*                                                                         *)
(* Agent Service and the Specialist are external.  A run that delegated    *)
(* supplies the delegation's state from then on; everything else supplied  *)
(* with it may be missing or wrong, and the input may lose chunks on its   *)
(* way, or gain members the Manager did not write.                         *)
(***************************************************************************)
EXTENDS Continuation

CONSTANTS
    Plan,        \* what the governed model may answer
    Text,        \* the texts a plan's steps may carry
    Artifact,    \* what the Specialist may produce
    Stray,       \* members the input may gain on its way
    StepBound,   \* maximumPlanSteps
    MaxTurns,    \* bound on the turns of the run
    None

Action == {"continue", "need_input", "delegate", "final", "refuse", "tool_call", "other"}
PlanStep == [action : Action, permitted : BOOLEAN, tool : Text, text : Text]

ASSUME PlanAssumption ==
    \A p \in Plan : p \in [present : BOOLEAN, strict : BOOLEAN, plan : BOOLEAN,
                           steps : Seq(PlanStep)]
ASSUME TextAssumption == \A t \in Text : t \in Seq({t[i] : i \in DOMAIN t})
ASSUME ArtifactAssumption ==
    \A a, b \in Artifact : a.id = b.id /\ a.content = b.content => a = b
ASSUME ApartAssumption ==
    None \notin Plan \cup Artifact

\* A stray is no chunk: its key is one the Manager writes for no text.
ASSUME StrayAssumption ==
    IsFiniteSet(Stray) /\ \A m \in Stray : m.spelling \in {"padded", "text"}
ASSUME TurnAssumption == StepBound \in Nat \ {0} /\ MaxTurns \in Nat

VARIABLES
    turns,     \* how many turns were dispatched
    task,      \* what the task of the turn supplies, None between turns
    answer,    \* the plan the model answered this turn, None when there is none
    outcome,   \* what the turn came to, None until it has
    work,      \* the delegated work: none, running, or how it ended
    carried,   \* the delegated input as it travels
    document,  \* and as it is read where it arrives, None before
    delegated  \* history: the input of every delegation, oldest first

vars == <<turns, task, answer, outcome, work, carried, document, delegated>>

Init ==
    /\ turns = 0 /\ task = None /\ answer = None /\ outcome = None
    /\ work = [state |-> "none", artifact |-> None]
    /\ carried = <<>> /\ document = None
    /\ delegated = <<>>

-----------------------------------------------------------------------------
(***************************************************************************)
(* The Manager's turn.                                                     *)
(***************************************************************************)

Delegates(p) == {i \in DOMAIN p.steps : p.steps[i].action = "delegate"}

\* A slip: a delegation looked for among the steps after the first one only
\* when the first one delegates.
ObjectionToFirst(p) ==
    IF ~p.present THEN "output"
    ELSE IF ~p.strict THEN "ExpandsAuthority"
    ELSE IF ~p.plan THEN "output"
    ELSE IF p.steps = <<>> THEN "Incomplete"
    ELSE IF Len(p.steps) > StepBound THEN "UnboundedPlan"
    ELSE IF 1 \in Delegates(p) /\ Delegates(p) # {1} THEN "DelegationExhausted"
    ELSE "none"

\* readPlan: why a plan is not carried out, "none" when its first step is.
Objection(p) ==
    IF ~p.present THEN "output"
    ELSE IF ~p.strict THEN "ExpandsAuthority"
    ELSE IF ~p.plan THEN "output"
    ELSE IF p.steps = <<>> THEN "Incomplete"
    ELSE IF Len(p.steps) > StepBound THEN "UnboundedPlan"
    ELSE IF Delegates(p) # {} /\ 1 \notin Delegates(p) THEN "UnboundedPlan"
    ELSE IF Delegates(p) \ {1} # {} THEN "DelegationExhausted"
    ELSE "none"

Refused(error) == [kind |-> "error", error |-> error, payload |-> <<>>, outputs |-> {}]

\* A slip: what does not fit reported, and sent all the same.
DecidedRegardless(kind, payload, outputs) ==
    [kind |-> kind, error |-> IF Fits(payload) THEN "none" ELSE "OutsideBounds",
     payload |-> NotEmpty(payload), outputs |-> outputs]

\* decision: what fits the payload's bounds, its empty members left out.
Decided(kind, payload, outputs) ==
    IF Fits(payload)
    THEN [kind |-> kind, error |-> "none", payload |-> NotEmpty(payload), outputs |-> outputs]
    ELSE Refused("OutsideBounds")

\* The members of one key, and those of several.
Under(key, map) == [m \in {key} \X DOMAIN map |-> map[m[2]]]
One(key, text) == Under(key, [m \in {Alone} |-> text])
Beside(f, g) == [m \in DOMAIN f \cup DOMAIN g |-> IF m \in DOMAIN f THEN f[m] ELSE g[m]]

Fixed == <<"fixed">>    \* a text the release itself fixes
EmptyObject == <<"{}">> \* the input of a step that has none

\* The reason supplied of a delegation that did not complete: none, one a value
\* holds, or one joined from chunks into more than that.
Overlong == [i \in 1..(ValueBound + 1) |-> "rune"]
Reason == {<<>>, Fixed, Overlong}

Resolve(step) ==
    CASE step.action = "delegate" ->
           IF ~step.permitted THEN Refused("DelegateNotPermitted")
           ELSE LET input == IF step.text = <<>> THEN EmptyObject ELSE step.text IN
                Decided("delegate_agent",
                        Beside(Beside(One("delegate", Fixed), One("reason", Fixed)),
                               Under("input", Chunked(input))), {})
      [] step.action = "tool_call" ->
           IF step.tool = <<>> \/ step.text = <<>> THEN Refused("Incomplete")
           ELSE Decided("tool_call", Beside(One("tool", step.tool), One("arguments", step.text)), {})
      [] step.action \in {"need_input", "refuse"} ->
           IF step.text = <<>> THEN Refused("Incomplete")
           ELSE Decided(step.action, One("text", step.text), {})
      [] step.action = "continue" -> Decided("continue", One("note", step.text), {})
      [] step.action = "final" -> Refused("Incomplete")
      [] step.action = "other" -> Refused("OutsideVocabulary")

Propose(p) == IF Objection(p) = "none" THEN Resolve(p.steps[1]) ELSE Refused(Objection(p))

ASSUME OutcomeAssumption == \A p \in Plan : Propose(p) # None

\* A slip: the candidate looked up by its identity alone.
PinnedByIdentity(t) ==
    {a \in t.inputs : t.candidate # None /\ a.id = t.candidate.id}

\* The pinned input a supplied candidate names: its identity, digest and size.
PinnedAs(t) ==
    {a \in t.inputs : t.candidate # None /\ a.id = t.candidate.id
                          /\ a.content = t.candidate.content}

\* conclude: nothing is asked of the model.
Conclude(t) ==
    CASE t.state = "pending" -> Decided("continue", One("note", Fixed), {})
      [] t.state \in {"refused", "failed"} ->
           IF t.reason = <<>> THEN Refused("context")
           ELSE IF t.state = "refused" THEN Decided("refuse", One("reason", t.reason), {})
           ELSE Refused("delegation")
      [] t.state = "other" -> Refused("context")
      [] t.state = "completed" ->
           IF t.delegate = "missing" THEN Refused("context")
           ELSE IF t.delegate = "other" THEN Refused("DelegateNotPermitted")
           ELSE IF PinnedAs(t) = {} THEN Refused("context")
           ELSE Decided("final", Beside(One("summary", Fixed), One("delegate", Fixed)), PinnedAs(t))

\* A slip: a delegation that is still pending left for the model to judge.
ConcludesWhenSettled(t) == t.state \notin {"absent", "pending"}

\* A turn whose task carries the state of a delegation concludes.
Concludes(t) == t.state # "absent"

Decide ==
    /\ task # None /\ outcome = None
    /\ \/ /\ task.forbidden
          /\ outcome' = Refused("boundary") /\ UNCHANGED answer
       \/ /\ ~task.forbidden /\ Concludes(task)
          /\ outcome' = Conclude(task) /\ UNCHANGED answer
       \/ /\ ~task.forbidden /\ ~Concludes(task) /\ ~task.prompt
          /\ outcome' = Refused("context") /\ UNCHANGED answer
       \/ /\ ~task.forbidden /\ ~Concludes(task) /\ task.prompt
          /\ \/ outcome' = Refused("unavailable") /\ UNCHANGED answer
             \/ \E p \in Plan : outcome' = Propose(p) /\ answer' = p
    /\ UNCHANGED <<turns, task, work, carried, document, delegated>>

-----------------------------------------------------------------------------
(***************************************************************************)
(* Agent Service and the Specialist.                                       *)
(***************************************************************************)
Settled == {"completed", "refused", "failed"}

\* What the task of a turn supplies of the work that was delegated, if any was.
Supplied ==
    [forbidden : BOOLEAN, prompt : BOOLEAN, reason : Reason,
     delegate : {"missing", "permitted", "other"},
     state : IF work.state = "none" THEN {"absent"}
             ELSE IF work.state = "running" THEN {"pending", "other"}
             ELSE {work.state},
     candidate : Artifact \cup {None},
     inputs : IF work.artifact = None THEN {{}} ELSE {{}, {work.artifact}}]

Dispatch ==
    /\ task = None /\ turns < MaxTurns
    /\ turns' = turns + 1
    /\ \E t \in Supplied : task' = t
    /\ UNCHANGED <<answer, outcome, work, carried, document, delegated>>

\* The members of the input, as a payload carries them.
InputOf(payload) ==
    LET members == {m \in DOMAIN payload : m[1] = "input"} IN
    [n \in {m[2] : m \in members} |-> payload[<<"input", n>>]]

\* A delegation is routed: the input goes on without the members it lost.
Route ==
    /\ outcome # None /\ outcome.kind = "delegate_agent"
    /\ delegated' = Append(delegated, IF answer.steps[1].text = <<>> THEN EmptyObject
                                      ELSE answer.steps[1].text)
    /\ work' = [state |-> "running", artifact |-> None]
    /\ \E lost \in SUBSET DOMAIN InputOf(outcome.payload), gained \in SUBSET Stray :
          carried' = [m \in (DOMAIN InputOf(outcome.payload) \ lost) \cup gained |->
                         IF m \in DOMAIN InputOf(outcome.payload)
                         THEN InputOf(outcome.payload)[m] ELSE Fixed]
    /\ document' = None
    /\ task' = None /\ answer' = None /\ outcome' = None
    /\ UNCHANGED turns

\* The run goes on from whatever the turn came to, a delegation included when
\* its result was lost or was not accepted.
GoOn ==
    /\ outcome # None
    /\ task' = None /\ answer' = None /\ outcome' = None
    /\ UNCHANGED <<turns, work, carried, document, delegated>>

\* The delegated input is read where it arrives.
Read ==
    /\ work.state = "running" /\ document = None
    /\ document' = Joined(carried)
    /\ UNCHANGED <<turns, task, answer, outcome, work, carried, delegated>>

Finish ==
    /\ work.state = "running" /\ document # None
    /\ \/ \E a \in Artifact : work' = [state |-> "completed", artifact |-> a]
       \/ \E s \in {"refused", "failed"} : work' = [state |-> s, artifact |-> None]
    /\ UNCHANGED <<turns, task, answer, outcome, carried, document, delegated>>

\* No further turn is dispatched, and no work is left.
Ended ==
    /\ turns = MaxTurns /\ task = None /\ work.state # "running"
    /\ UNCHANGED vars

Next == Dispatch \/ Decide \/ Route \/ GoOn \/ Read \/ Finish \/ Ended

Spec == Init /\ [][Next]_vars
-----------------------------------------------------------------------------
TypeOK ==
    /\ turns \in 0..MaxTurns
    /\ work.state \in {"none", "running"} \cup Settled
    /\ work.artifact \in Artifact \cup {None}
    /\ work.artifact # None <=> work.state = "completed"
    /\ answer \in Plan \cup {None}
    /\ outcome # None =>
          /\ outcome.kind \in {"error", "delegate_agent", "tool_call", "need_input",
                              "continue", "refuse", "final"}
          /\ outcome.outputs \subseteq Artifact
          /\ outcome.kind = "error" <=> outcome.error # "none"
    /\ Len(delegated) <= turns
    /\ work.state = "none" <=> delegated = <<>>

\* A run delegates once, whatever its plans propose and however its delegation
\* ends (turn.go:25-27, 68-70).
OneDelegation == Len(delegated) <= 1

\* A plan that asks for a delegation is delegated or refused: its delegation is
\* not passed over for another of its steps, nor one of several picked
\* (plan.go:104-118).
NoDelegationIsPassedOver ==
    outcome # None /\ answer # None /\ outcome.kind # "error" /\ Delegates(answer) # {}
        => outcome.kind = "delegate_agent" /\ Cardinality(Delegates(answer)) = 1

\* A run ends on one artifact: the one its delegated work produced, its task
\* pins and its context names
\* (turn.go:167-171, 212-221).
FinalIsTheDelegatedWork ==
    outcome # None /\ outcome.kind = "final" =>
        /\ work.state = "completed"
        /\ outcome.outputs = {work.artifact} /\ task.candidate = work.artifact

\* Nothing the model wrote, nor a reason that was supplied, makes the unit sign a
\* payload its contract refuses (turn.go:183-189, 234-262).
DecisionsFitTheContract ==
    outcome # None =>
        /\ \A m \in DOMAIN outcome.payload :
              Len(outcome.payload[m]) \in 1..ValueBound
        /\ Cardinality(DOMAIN outcome.payload) <= MemberBound

\* The input that was delegated is read whole, or, when chunks were lost, as
\* its beginning: never with a hole in it (brief.go:57-60, turn.go:112-118).  A
\* stray member whose index is spelled with a sign or a zero does break it: it
\* fills the gap of a lost one.
LossesShortenTheInput ==
    document # None /\ (\A m \in DOMAIN carried : m.spelling # "padded") =>
        /\ IsPrefix(document, Last(delegated))
        /\ Len(Last(delegated)) <= ValueBound * Cardinality(DOMAIN carried \ Stray)
              => document = Last(delegated)
=============================================================================
