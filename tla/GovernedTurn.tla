---------------------------- MODULE GovernedTurn ----------------------------
(***************************************************************************)
(* What an admitted task does: host.Resolve, the turn the Agent takes, and *)
(* the two governed calls a turn may make, to the model gateway and to the *)
(* artifact interface of the control plane.                                *)
(*                                                                         *)
(* An execution is one call of host.Resolve.  An attempt may be executed   *)
(* several times, and by several replicas at once, each with a register of *)
(* its own; what keeps that harmless is that every execution names its     *)
(* governed calls by the attempt and the operation, and the control plane  *)
(* answers a name it has recorded with what it recorded.                   *)
(*                                                                         *)
(* The control plane is external.  A request that was sent may reach it    *)
(* late, more than once or never, and an execution may hear an answer that *)
(* is not the one it recorded.                                             *)
(***************************************************************************)
EXTENDS Naturals, Sequences, FiniteSets

CONSTANTS
    Attempt,    \* physical attempts, one dispatched task each
    Execution,  \* calls of host.Resolve
    AttemptOf,  \* the attempt each execution serves
    Offered,    \* what the task of an attempt may ask for
    Output,     \* what the model may answer
    Meaning,    \* what each output is to the turn that reads it
    Pinned,     \* the artifact a completed delegation pinned
    None

\* A turn composes a page, plans a change, or concludes a delegation, under a
\* release that names some of the governed paths.
Task == {t \in [turn : {"compose", "plan", "conclude"},
                 brief : {"complete", "incomplete", "forbidden"},
                 delegation : {"none", "pending", "refused", "failed", "completed",
                               "foreign", "unknown"},
                 released : SUBSET {"model", "artifact"}] :
            t.turn = "conclude" <=> t.delegation # "none"}
Decision == {"continue", "need_input", "delegate_agent", "tool_call", "refuse"}

ASSUME TaskAssumption ==
    /\ AttemptOf \in [Execution -> Attempt]
    /\ Offered \subseteq Task
ASSUME OutputAssumption ==
    Meaning \in [Output -> {"unusable", "improper", "oversized", "page"} \cup Decision]
ASSUME AbsentAssumption == None \notin Output

VARIABLES
    task,       \* what each attempt's task asks for
    purchases,  \* the gateway's record of invocations, one per name
    records,    \* the artifacts the control plane recorded, one per name
    wire,       \* every request that was sent
    pc,         \* the next step of each execution
    over,       \* whether its context is over: its deadline, or its caller gone
    usage,      \* what its session metered: the invocations and the writes
    heard,      \* the model output it accepted
    result,     \* what the turn came to
    due         \* a history variable: the invocation named in the answer of its
                \* attempt's own that an execution had, which no step reads

control == <<task, purchases, records>>
vars == <<control, wire, pc, over, usage, heard, result, due>>

IdentityOfExecution(e, op) == <<e, op>>

\* idempotencyIdentity: a governed call is named by the attempt and by the
\* operation it is.
Identity(e, op) == <<AttemptOf[e], op>>

MyTask(e) == task[AttemptOf[e]]

MayAnything(e, op) == TRUE

\* A capability exists when the release names its path.
May(e, op) == op \in MyTask(e).released
Invocation == Attempt \X {"model"}
Candidate == [invocations : Seq(Invocation), output : Output]

Request ==
    [op : {"model"}, key : Attempt \X {"model"}, attempt : Attempt, document : {None}]
        \cup [op : {"artifact"}, key : Attempt \X {"artifact"}, attempt : Attempt,
              document : Candidate]

Init ==
    /\ task \in [Attempt -> Offered]
    /\ purchases = {} /\ records = {} /\ wire = {}
    /\ pc = [e \in Execution |-> "idle"]
    /\ over = [e \in Execution |-> FALSE]
    /\ usage = [e \in Execution |-> [calls |-> <<>>, writes |-> 0]]
    /\ heard = [e \in Execution |-> None]
    /\ result = [e \in Execution |-> None]
    /\ due = [e \in Execution |-> None]

Ended == {"returned", "lost"}
Running(e) == pc[e] \notin {"idle"} \cup Ended

GoTo(e, next) == pc' = [pc EXCEPT ![e] = next]

\* The turn is over, and what it came to is still to be signed.
Ends(e, outcome) ==
    /\ GoTo(e, "sign")
    /\ result' = [result EXCEPT ![e] = outcome]

\* decidedStatus: what a decision means for the attempt.
Decided(decision, artifact) ==
    [status   |-> IF decision = "refuse" THEN "refused" ELSE "completed",
     reason   |-> IF decision = "refuse" THEN "REFUSED_BY_POLICY"
                  ELSE IF decision = "need_input" THEN "INPUT_REQUIRED"
                  ELSE "COMPLETED",
     decision |-> decision,
     artifact |-> artifact]

Decides(e, decision, artifact) == Ends(e, Decided(decision, artifact))

\* classify: the status and the reason of a failed turn, by its error's type.
\* No governed call returns the errors of its context: both clients wrap them.
\* An error of no type of its own is internal: that a document has no canonical
\* form, which the canonicalising library may say of any.
Classified ==
    [boundary    |-> <<"refused", "REFUSED_BY_GUARDRAIL">>,
     context     |-> <<"refused", "REFUSED_BY_GUARDRAIL">>,
     output      |-> <<"refused", "REFUSED_BY_GUARDRAIL">>,
     proposal    |-> <<"refused", "REFUSED_BY_GUARDRAIL">>,
     refused     |-> <<"refused", "REFUSED_BY_POLICY">>,
     budget      |-> <<"failed", "BUDGET_EXHAUSTED">>,
     delegation  |-> <<"failed", "DELEGATION_FAILED">>,
     unavailable |-> <<"failed", "MODEL_UNAVAILABLE">>,
     write       |-> <<"failed", "TOOL_FAILED">>,
     deadline    |-> <<"failed", "DEADLINE_EXCEEDED">>,
     cancelled   |-> <<"failed", "CANCELLED">>,
     internal    |-> <<"failed", "INTERNAL_ERROR">>]

Failed(error) ==
    [status   |-> Classified[error][1],
     reason   |-> Classified[error][2],
     decision |-> "refuse",
     artifact |-> None]

Fails(e, error) == Ends(e, Failed(error))

\* What failed on the way to the control plane, or on an answer that had no
\* canonical form, may come out otherwise next time.
Transient == {"MODEL_UNAVAILABLE", "TOOL_FAILED", "INTERNAL_ERROR"}

-----------------------------------------------------------------------------
(***************************************************************************)
(* The turn.                                                               *)
(***************************************************************************)

\* The handler calls host.Resolve, which opens the session.
Open(e) ==
    /\ pc[e] = "idle"
    /\ GoTo(e, "brief")
    /\ UNCHANGED <<control, wire, over, usage, heard, result, due>>

\* A concluding turn asks the model nothing.  A reason that is too long for the
\* payload ends it under the same reason as one that is missing.
ConcludeDelegation(e) ==
    LET mine == MyTask(e) IN
    \/ mine.delegation = "pending" /\ Decides(e, "continue", None)
    \/ mine.delegation = "unknown" /\ Fails(e, "context")
    \/ mine.delegation = "foreign" /\ Fails(e, "proposal")
    \/ /\ mine.delegation \in {"refused", "failed", "completed"}
       /\ mine.brief = "incomplete" /\ Fails(e, "context")
    \/ /\ mine.brief = "complete"
       /\ \/ mine.delegation = "refused" /\ Decides(e, "refuse", None)
          \/ mine.delegation = "failed" /\ Fails(e, "delegation")
          \/ mine.delegation = "completed" /\ Decides(e, "final", Pinned)

\* readConstraints, readPins and GovernedPrompt find what they need.
Supplied(e) == MyTask(e).brief = "complete"

\* Everything the supplied context must carry is read before the model is
\* asked.
ReadBrief(e) ==
    /\ pc[e] = "brief"
    /\ \/ MyTask(e).brief = "forbidden" /\ Fails(e, "boundary")
       \/ /\ MyTask(e).brief # "forbidden"
          /\ \/ MyTask(e).turn = "conclude" /\ ConcludeDelegation(e)
             \/ MyTask(e).turn # "conclude" /\ ~Supplied(e) /\ Fails(e, "context")
             \/ MyTask(e).turn # "conclude" /\ Supplied(e)
                /\ GoTo(e, "invoke") /\ UNCHANGED result
    /\ UNCHANGED <<control, wire, over, usage, heard, due>>

Post(e, op, document) ==
    wire' = wire \cup {[op |-> op, key |-> Identity(e, op), attempt |-> AttemptOf[e],
                        document |-> document]}

\* A capability the release does not name is refused before anything is sent,
\* and so is a request with no canonical form, and a call under a context that
\* is over.
InvokeModel(e) ==
    /\ pc[e] = "invoke"
    /\ \/ ~May(e, "model") /\ Fails(e, "boundary") /\ UNCHANGED wire
       \/ May(e, "model") /\ Fails(e, "internal") /\ UNCHANGED wire
       \/ /\ May(e, "model") /\ over[e]
          /\ Fails(e, "unavailable") /\ UNCHANGED wire
       \/ /\ May(e, "model") /\ ~over[e]
          /\ Post(e, "model", None) /\ GoTo(e, "awaitModel") /\ UNCHANGED result
    /\ UNCHANGED <<control, over, usage, heard, due>>

\* The answers the gateway may give: what it recorded for any attempt, that
\* with no invocation named, and that with an output it did not attest to.
Said(p, id, output, attested) ==
    [attempt |-> p.attempt, id |-> id, verdict |-> p.verdict,
     output |-> output, attested |-> attested]
AnswersFrom(p) ==
    {Said(p, p.key, p.output, TRUE), Said(p, None, p.output, TRUE)}
        \cup {Said(p, p.key, o, FALSE) : o \in IF p.verdict = "ok" THEN Output ELSE {}}
ModelAnswers == UNION {AnswersFrom(p) : p \in purchases}

OursUnnamed(e, answer) == answer.attempt = AttemptOf[e]
OursByName(e, answer) == answer.id # None

\* boundsResult: the answer is to this attempt, and names an invocation.
Ours(e, answer) == answer.attempt = AttemptOf[e] /\ answer.id # None

AttestedUnread(answer) == TRUE

\* The digest the gateway attested is the digest of the output.
Attested(answer) == answer.attested

MeteredWhenBelieved(e, answer) ==
    usage' = IF answer.verdict # "ok" \/ Attested(answer)
             THEN [usage EXCEPT ![e].calls = Append(@, answer.id)] ELSE usage

\* meterModel: one invocation more, whatever its verdict, and whether or not
\* its output is believed.
Metered(e, answer) == usage' = [usage EXCEPT ![e].calls = Append(@, answer.id)]

\* An answer of the attempt's own is metered before it is judged, but for the
\* one whose output has no canonical form: that call returns no completion.
JudgeAnswer(e, answer) ==
    \/ /\ answer.verdict # "ok" /\ Fails(e, answer.verdict)
       /\ Metered(e, answer) /\ UNCHANGED heard
    \/ /\ answer.verdict = "ok" /\ Fails(e, "internal")
       /\ UNCHANGED <<usage, heard>>
    \/ /\ answer.verdict = "ok" /\ ~Attested(answer) /\ Fails(e, "unavailable")
       /\ Metered(e, answer) /\ UNCHANGED heard
    \/ /\ answer.verdict = "ok" /\ Attested(answer)
       /\ heard' = [heard EXCEPT ![e] = answer.output]
       /\ Metered(e, answer) /\ GoTo(e, MyTask(e).turn) /\ UNCHANGED result

\* The history: an answer that is to the attempt and names an invocation is due
\* to be reported, whatever the code makes of it.
Owed(e, answer) ==
    due' = [due EXCEPT ![e] = IF answer.attempt = AttemptOf[e] THEN answer.id ELSE None]

HearModel(e) ==
    /\ pc[e] = "awaitModel"
    /\ \E answer \in ModelAnswers :
          /\ Owed(e, answer)
          /\ IF Ours(e, answer) THEN JudgeAnswer(e, answer)
             ELSE Fails(e, "unavailable") /\ UNCHANGED <<usage, heard>>
    /\ UNCHANGED <<control, wire, over>>

\* No answer, an error status, an answer that cannot be read or decoded, the
\* client's timeout or the end of the context: all of them are one failure.
NoModelAnswer(e) ==
    /\ pc[e] = "awaitModel"
    /\ Fails(e, "unavailable")
    /\ UNCHANGED <<control, wire, over, usage, heard, due>>

\* readPlan and resolve: the plan's one decision, or a typed refusal of it.
Plan(e) ==
    LET meaning == Meaning[heard[e]] IN
    /\ pc[e] = "plan"
    /\ \/ meaning = "unusable" /\ Fails(e, "output")
       \/ meaning \in Decision /\ Decides(e, meaning, None)
       \/ meaning \notin Decision \cup {"unusable"} /\ Fails(e, "proposal")
    /\ UNCHANGED <<control, wire, over, usage, heard, due>>

\* readComposition and composePage: a page, or a typed refusal of it.
Compose(e) ==
    LET meaning == Meaning[heard[e]] IN
    /\ pc[e] = "compose"
    /\ \/ meaning = "unusable" /\ Fails(e, "output")
       \/ meaning \in {"page", "oversized"} /\ GoTo(e, "submit") /\ UNCHANGED result
       \/ meaning \notin {"page", "oversized", "unusable"} /\ Fails(e, "proposal")
    /\ UNCHANGED <<control, wire, over, usage, heard, due>>

\* buildCandidate: nothing but the task, the accepted output and the
\* invocations it was bought with goes into a candidate.
Built(e) == [invocations |-> usage[e].calls, output |-> heard[e]]

\* The candidate is built and pinned, then the release is asked, then the
\* candidate's bytes and their size.
Submit(e) ==
    LET sent == May(e, "artifact") /\ Meaning[heard[e]] = "page" /\ ~over[e] IN
    /\ pc[e] = "submit"
    /\ \/ Fails(e, "internal") /\ UNCHANGED wire
       \/ ~May(e, "artifact") /\ Fails(e, "boundary") /\ UNCHANGED wire
       \/ May(e, "artifact") /\ ~sent /\ Fails(e, "write") /\ UNCHANGED wire
       \/ sent /\ Post(e, "artifact", Built(e)) /\ GoTo(e, "awaitWrite") /\ UNCHANGED result
    /\ UNCHANGED <<control, over, usage, heard, due>>

\* The recorded artifact carries the digest and the size of the document.
About(r, document) == r.document = document

\* A reference is believed only when it is about the document that was sent.
HearWrite(e) ==
    /\ pc[e] = "awaitWrite"
    /\ \E r \in records :
          /\ About(r, Built(e))
          /\ usage' = [usage EXCEPT ![e].writes = @ + 1]
          /\ Decides(e, "final", r.document)
    /\ UNCHANGED <<control, wire, over, heard, due>>

\* No answer, an error status, or one about another document.
NoWriteAnswer(e) ==
    /\ pc[e] = "awaitWrite"
    /\ Fails(e, "write")
    /\ UNCHANGED <<control, wire, over, usage, heard, due>>

\* The result is signed and returned, or there is none to return.
Sign(e) ==
    /\ pc[e] = "sign"
    /\ GoTo(e, "returned") \/ GoTo(e, "lost")
    /\ UNCHANGED <<control, wire, over, usage, heard, result, due>>

Work(e) ==
    \/ ReadBrief(e) \/ InvokeModel(e) \/ HearModel(e) \/ NoModelAnswer(e)
    \/ Plan(e) \/ Compose(e) \/ Submit(e) \/ HearWrite(e) \/ NoWriteAnswer(e)
    \/ Sign(e)

-----------------------------------------------------------------------------
(***************************************************************************)
(* What happens to an execution, and what the control plane does.          *)
(***************************************************************************)

\* The execution's timeout, or the caller going away.
EndContext(e) ==
    /\ Running(e) /\ ~over[e]
    /\ over' = [over EXCEPT ![e] = TRUE]
    /\ UNCHANGED <<control, wire, pc, usage, heard, result, due>>

\* A process ends, and the executions it ran with it.
Crash(ended) ==
    /\ ended # {} /\ \A e \in ended : Running(e)
    /\ pc' = [e \in Execution |-> IF e \in ended THEN "lost" ELSE pc[e]]
    /\ UNCHANGED <<control, wire, over, usage, heard, result, due>>

\* The gateway serves a name it has not recorded, and buys the invocation.
Buy ==
    /\ \E q \in wire, verdict \in {"ok", "refused", "budget"},
          output \in Output \cup {None} :
          /\ q.op = "model"
          /\ \A p \in purchases : p.key # q.key
          /\ verdict = "ok" <=> output # None
          /\ purchases' = purchases \cup {[key |-> q.key, attempt |-> q.attempt,
                                           verdict |-> verdict, output |-> output]}
    /\ UNCHANGED <<task, records, wire, pc, over, usage, heard, result, due>>

\* The control plane records a submission under a name it has not recorded.
Keep ==
    /\ \E q \in wire :
          /\ q.op = "artifact"
          /\ \A r \in records : r.key # q.key
          /\ records' = records \cup {[key |-> q.key, attempt |-> q.attempt,
                                       document |-> q.document]}
    /\ UNCHANGED <<task, purchases, wire, pc, over, usage, heard, result, due>>

\* Every execution has ended: nothing more need happen.
AllEnded == (\A e \in Execution : pc[e] \in Ended) /\ UNCHANGED vars

Next ==
    \/ \E e \in Execution : Open(e) \/ Work(e) \/ EndContext(e)
    \/ \E ended \in SUBSET Execution : Crash(ended)
    \/ Buy \/ Keep \/ AllEnded

\* A turn is one goroutine, and both clients have a timeout: an execution
\* always has a next step.  The control plane promises nothing.
Fairness == \A e \in Execution : WF_vars(Work(e))

Spec == Init /\ [][Next]_vars /\ Fairness
-----------------------------------------------------------------------------
Purchase == {p \in [key : Invocation, attempt : Attempt,
                    verdict : {"ok", "refused", "budget"}, output : Output \cup {None}] :
                p.verdict = "ok" <=> p.output # None}
Record == [key : Attempt \X {"artifact"}, attempt : Attempt, document : Candidate]
TurnOutcome == [status   : {"completed", "refused", "failed"},
                reason   : {"COMPLETED", "INPUT_REQUIRED"}
                              \cup {Classified[error][2] : error \in DOMAIN Classified},
                decision : Decision \cup {"final"},
                artifact : Candidate \cup {Pinned, None}]
ASSUME OutcomeAssumption == None \notin TurnOutcome

TypeOK ==
    /\ task \in [Attempt -> Task]
    /\ purchases \subseteq Purchase
    /\ records \subseteq Record
    /\ wire \subseteq Request
    /\ pc \in [Execution -> {"idle", "brief", "invoke", "awaitModel", "plan", "compose",
                             "submit", "awaitWrite", "sign"} \cup Ended]
    /\ over \in [Execution -> BOOLEAN]
    /\ usage \in [Execution -> [calls : Seq(Invocation), writes : {0, 1}]]
    /\ heard \in [Execution -> Output \cup {None}]
    /\ result \in [Execution -> TurnOutcome \cup {None}]
    /\ due \in [Execution -> Invocation \cup {None}]

\* However often an attempt is executed, and wherever, its model decision is
\* bought once (gateway.go:68-71, canonical.go:27-36).
DecisionsAreBoughtOnce ==
    \A p, q \in purchases : p.attempt = q.attempt => p = q

\* However often an attempt is executed, the candidates it submits are one
\* document: the same task and the same governed output always produce the
\* same bytes (canonical.go:34, turn.go:91-94, README.md:187-190).
OneCandidatePerAttempt ==
    \A q, r \in wire : q.op = "artifact" /\ r.op = "artifact" /\ q.attempt = r.attempt
                           => q.document = r.document

\* A page of an attempt's: composed from an output bought for that attempt, and
\* naming the invocation that bought it.
IsPageOf(document, a) == \E p \in purchases :
    /\ p.attempt = a /\ p.verdict = "ok" /\ Meaning[p.output] = "page"
    /\ document = [invocations |-> <<p.key>>, output |-> p.output]

\* What the control plane recorded for an attempt was composed from an output
\* the gateway attested to for that attempt, and names the invocation that
\* bought it (gateway.go:205-227, 233-244, turn.go:82).
RecordsStandOnBoughtOutput ==
    \A r \in records : IsPageOf(r.document, r.attempt)

\* A composed page is final only under a reference the control plane recorded
\* for that attempt (turn.go:91-107, artifacts.go:136-144).
FinalNamesWhatWasRecorded ==
    \A e \in Execution :
        result[e] # None /\ result[e].decision = "final" /\ MyTask(e).turn = "compose" =>
            \E r \in records : r.attempt = AttemptOf[e] /\ r.document = result[e].artifact

\* An execution whose attempt's own answer was read reports the invocation it
\* names, which is the attempt's, once: refused or not, believed or not, and
\* whatever the turn came to afterwards.  One path leaves without: an output
\* that has no canonical form ends the turn as internal, metered nowhere
\* (gateway.go:217-220).  Nothing else is ever metered, and no turn comes to
\* anything but a failure that asked for no answer unless one was metered
\* (session.go:66-76, 106-118).
UsageIsTheAttemptsOwn ==
    \A e \in Execution :
        LET calls == usage[e].calls IN
        /\ due[e] = None => calls = <<>>
        /\ due[e] # None =>
              /\ \E p \in purchases : p.attempt = AttemptOf[e] /\ due[e] = p.key
              /\ \/ calls = <<due[e]>>
                 \/ /\ calls = <<>> /\ heard[e] = None
                    /\ result[e] # None /\ result[e].reason = "INTERNAL_ERROR"
        /\ heard[e] # None => calls # <<>>
        /\ calls = <<>> /\ MyTask(e).turn # "conclude" /\ result[e] # None =>
              result[e].reason \in {"MODEL_UNAVAILABLE", "REFUSED_BY_GUARDRAIL", "INTERNAL_ERROR"}

\* Every name is its attempt's, and every submission is a page of its attempt's
\* (canonical.go:34-36, turn.go:84-97).
NamesAndSubmissionsAreTheAttempts ==
    /\ \A p \in purchases : p.key = <<p.attempt, "model">>
    /\ \A r \in records : r.key = <<r.attempt, "artifact">>
    /\ \A q \in wire : q.key = <<q.attempt, q.op>>
    /\ \A q \in wire : q.op = "artifact" => IsPageOf(q.document, q.attempt)

\* The turn's order: nothing is metered before an answer is heard, and nothing
\* is composed or planned but from an output bought for the attempt
\* (turn.go:75-97, session.go:66-76).
TurnsFollowTheOrder ==
    \A e \in Execution :
        /\ pc[e] \in {"idle", "brief", "invoke", "awaitModel"}
              => usage[e].calls = <<>> /\ heard[e] = None /\ due[e] = None
        /\ pc[e] \in {"invoke", "awaitModel", "plan", "compose", "submit", "awaitWrite"}
              => MyTask(e).turn # "conclude" /\ Supplied(e)
        /\ pc[e] \notin {"sign"} \cup Ended => usage[e].writes = 0
        /\ pc[e] \in {"plan", "compose", "submit", "awaitWrite"} => heard[e] # None
        /\ pc[e] = "awaitWrite" => Meaning[heard[e]] = "page"
        /\ heard[e] # None => \E p \in purchases :
              /\ p.attempt = AttemptOf[e] /\ p.verdict = "ok"
              /\ p.output = heard[e] /\ usage[e].calls = <<p.key>>

\* Only calls the release names leave the unit, and none for a delegation that
\* is settled or a context that is not supplied (host.go:194-216, turn.go:58-62).
OnlyReleasedCallsLeave ==
    \A q \in wire :
        /\ q.op \in task[q.attempt].released
        /\ task[q.attempt].turn # "conclude"
        /\ task[q.attempt].brief = "complete"

\* What the proofs show to be inductive.
IInv ==
    /\ TypeOK
    /\ DecisionsAreBoughtOnce
    /\ NamesAndSubmissionsAreTheAttempts
    /\ TurnsFollowTheOrder
    /\ RecordsStandOnBoughtOutput
    /\ FinalNamesWhatWasRecorded
    /\ UsageIsTheAttemptsOwn
    /\ OnlyReleasedCallsLeave

\* Two executions of one attempt that both reached a verdict reached the same
\* one, page and reason included: a retry never turns a refusal into a page
\* (gateway.go:102-106, host.go:224-226).  What failed on the way, or on a
\* document without a canonical form, is no verdict.
VerdictsAgree ==
    \A e, f \in Execution :
        /\ AttemptOf[e] = AttemptOf[f] /\ result[e] # None /\ result[f] # None
        /\ {result[e].reason, result[f].reason} \cap Transient = {}
        => result[e] = result[f]

-----------------------------------------------------------------------------
(***************************************************************************)
(* What the repository says of a turn and its failures refute.             *)
(***************************************************************************)

\* "The attempt exceeded the execution bound its release declares" and "was
\* cancelled before it produced a decision" are reported under reasons of
\* their own (host.go:297-306, host_test.go:513-520).
DeadlinesAreNamed ==
    [][\A e \in Execution :
          /\ pc[e] = "invoke" /\ over[e] /\ May(e, "model")
          /\ result'[e] # None /\ result'[e].reason # "INTERNAL_ERROR"
          => result'[e].reason \in {"DEADLINE_EXCEEDED", "CANCELLED"}]_vars
=============================================================================
