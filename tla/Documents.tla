----------------------------- MODULE Documents -----------------------------
(***************************************************************************)
(* The documents of one turn of the Page Candidate Specialist: the task it *)
(* is dispatched with, the invocation it asks for, the candidate it        *)
(* submits and the result that is signed, each built from the ones before  *)
(* it.  What a turn decides is the subject of GovernedTurn and             *)
(* PageComposition; here it is what every document carries, and whether    *)
(* whoever it is sent to can decode it.                                    *)
(*                                                                         *)
(* The unit checks nothing it sends.  That its documents are in the bounds *)
(* of their contracts rests on what it checked when it read the task and   *)
(* the answers, and on the bounds it keeps itself.                         *)
(***************************************************************************)
EXTENDS Contracts

CONSTANTS
    Dispatched,  \* the documents that may be posted as a task
    Proposal,    \* what the governed output may propose: prose, and what comes of it
    Stranger,    \* an attempt that is not this one
    Elapsed,     \* how long an execution may have run, in milliseconds
    KeyId,       \* the name of the unit's signing key
    None

\* A unit is deployed with a key name and a bound on its turns a result can
\* carry.  SignerFromEnvironment admits names of up to 273 characters, and the
\* bound of a release may be the whole of what a result may report.
ASSUME DeploymentAssumption ==
    Is(KeyId, "key", 20, 256) /\ Elapsed \subseteq 0..LongestDuration

\* Prose is uniform: so many runes of so many bytes.
ASSUME ProposalAssumption ==
    \A p \in Proposal :
        /\ p.width \in 1..4 /\ p.runes \in Nat /\ p.assumptions \in Nat
        /\ p.warnings \in 0..2 /\ p.pageBytes \in 0..LargestArtifact

VARIABLES
    task,       \* the document that was posted
    step,       \* what the turn does next
    sent,       \* every document that was sent, and to whom
    heard,      \* the model answer the page is made of, None before it
    usage,      \* what the session metered
    outcome     \* the reason and the decision of the turn, None before it

vars == <<task, step, sent, heard, usage, outcome>>

Init ==
    /\ task \in Dispatched
    /\ step = "posted" /\ sent = {} /\ heard = None /\ outcome = None
    /\ usage = [modelCalls |-> 0, toolCalls |-> 0, inputTokens |-> 0, outputTokens |-> 0]

-----------------------------------------------------------------------------
(***************************************************************************)
(* The supplied context.                                                   *)
(***************************************************************************)

\* readPins and GovernedPrompt: what each key is read as.
PinNeeds ==
    [targetType |-> "text", targetId |-> "opaque", workspaceId |-> "opaque",
     projectId |-> "opaque", baseRevision |-> "opaque", targetDigest |-> "digest",
     catalogDigest |-> "digest", policyDigest |-> "digest", previewTaskId |-> "opaque",
     previewId |-> "opaque", previewDigest |-> "digest", previewMedia |-> "media",
     previewSize |-> "number"]
PromptNeeds ==
    [contextDigest |-> "digest", promptDigest |-> "digest", modelPolicyId |-> "opaque",
     modelPolicyVersion |-> "text", modelPolicyDigest |-> "digest"]

\* The five documents readConstraints reads are one key here.
Needs == [key \in DOMAIN PinNeeds \cup DOMAIN PromptNeeds \cup {"constraints"} |->
             IF key \in DOMAIN PinNeeds THEN PinNeeds[key]
             ELSE IF key \in DOMAIN PromptNeeds THEN PromptNeeds[key]
             ELSE "document"]

\* Required reads any text but a blank one; the others read their pattern.
Usable(parameters, key, need) ==
    /\ key \in DOMAIN parameters
    /\ "blank" \notin parameters[key].as
    /\ need # "text" => need \in parameters[key].as
    /\ need = "opaque" => OpaqueId(parameters[key])
    /\ need = "digest" => Digest(parameters[key])

\* A slip: the constraints are left to be read when the page is composed.
FlawedButConstraints(t) ==
    {key \in DOMAIN Needs \ {"constraints"} : ~Usable(t.parameters, key, Needs[key])}

Flawed(t) == {key \in DOMAIN Needs : ~Usable(t.parameters, key, Needs[key])}

\* ArtifactInput: the first of the task's inputs with that identity, if any.
Named(t) ==
    {i \in DOMAIN t.artifactInputs :
        /\ t.artifactInputs[i].artifactId = t.parameters["previewId"]
        /\ \A j \in 1..(i - 1) : t.artifactInputs[j].artifactId # t.parameters["previewId"]}

\* A slip: the input of that identity, whatever its digest.
PinnedByIdentity(t) == {t.artifactInputs[i] : i \in Named(t)}

\* The accepted preview: that input, if it is of the digest that was accepted.
Pinned(t) ==
    {t.artifactInputs[i] :
        i \in {n \in Named(t) : t.artifactInputs[n].digest = t.parameters["previewDigest"]}}

\* What Decide needs before it asks for anything; delegation is not for it.
Suffices(t) ==
    /\ "delegate" \notin DOMAIN t.parameters
    /\ Flawed(t) = {}
    /\ Pinned(t) # {}

-----------------------------------------------------------------------------
(***************************************************************************)
(* The documents.                                                          *)
(***************************************************************************)

\* Every digest the unit computes or is sent, and the identities it is sent.
Sha256 == [as |-> {"digest"}, runes |-> 71, name |-> "computed"]
Opaque(runes) == [as |-> {"opaque"}, runes |-> runes, name |-> "given"]

AtMost(n, bound) == IF n <= bound THEN n ELSE bound

\* idempotencyIdentity: the attempt, a colon and the operation, whose name is
\* "model.compose" here.
Identity(attempt, operationRunes) ==
    [as |-> attempt.as, runes |-> attempt.runes + 1 + operationRunes, name |-> attempt.name]

Request(t) ==
    LET p == t.parameters IN
    [taskId |-> t.taskId, runId |-> t.runId, rootRunId |-> t.rootRunId,
     physicalAttemptId |-> t.physicalAttemptId, attemptNumber |-> t.attemptNumber,
     executionGeneration |-> t.executionGeneration, definition |-> t.definition,
     modelPolicy |-> [policyId |-> p["modelPolicyId"], version |-> p["modelPolicyVersion"],
                      digest |-> p["modelPolicyDigest"]],
     contextDigest |-> p["contextDigest"], promptDigest |-> p["promptDigest"],
     limits |-> t.limits, traceContext |-> t.traceContext,
     contractBomReference |-> t.contractBomReference,
     idempotency |-> [scope |-> "attempt-and-operation",
                      key |-> Identity(t.physicalAttemptId, 13),
                      canonicalRequestDigest |-> Sha256]]

\* The page is named by half of its digest, after "artifact.pagedata.".
PinDocument(bytes) ==
    [artifactId |-> Opaque(18 + 32), digest |-> Sha256,
     mediaType |-> [as |-> {"media"}, runes |-> 16, name |-> "json"], sizeBytes |-> bytes]

\* The longest of the reasons a unit gives.
Reason(name) == [as |-> {"reason"}, runes |-> 28, name |-> name]

\* bound cuts bytes: what is left of a rune it splits is written as one
\* replacement character for each byte.
Bound(prose, bytes) ==
    IF prose.runes * prose.width <= bytes THEN prose.runes
    ELSE (bytes \div prose.width) + (bytes % prose.width)

\* buildCandidate
Candidate(t) ==
    LET p == t.parameters IN
    [target |-> [targetType |-> p["targetType"], targetId |-> p["targetId"],
                 workspaceId |-> p["workspaceId"], projectId |-> p["projectId"]],
     baseRevision |-> p["baseRevision"],
     pageData |-> PinDocument(heard.output.pageBytes),
     digests |-> [targetDigest |-> p["targetDigest"], catalogDigest |-> p["catalogDigest"],
                  policyDigest |-> p["policyDigest"],
                  definitionDigest |-> t.definition.definitionDigest,
                  contractBomDigest |-> t.contractBomReference.bomDigest],
     validationReceipts |-> <<>>,
     preview |-> [taskId |-> p["previewTaskId"], resultArtifact |-> CHOOSE input \in Pinned(t) : TRUE],
     generation |-> [summary |-> [runes |-> Bound(heard.output, 2048)],
                     assumptions |-> AtMost(heard.output.assumptions, 32)],
     references |-> [modelInvocations |-> <<heard.invocationId>>, toolInvocations |-> <<>>,
                     delegations |-> <<>>, evidence |-> <<>>],
     warnings |-> heard.output.warnings, candidateDigest |-> Sha256]

\* A slip: the summary goes into the payload as it is in the candidate.
WholeSummary(runes) == runes

\* payloadSummary: a payload value holds half of what a summary may.
PayloadSummary(runes) == AtMost(runes, 1024)

Refuses == [decision |-> "refuse", payload |-> <<>>, artifactOutputs |-> <<>>]

Final(t, reference) ==
    [decision |-> "final",
     payload |-> [summary |-> [as |-> {}, runes |-> PayloadSummary(Bound(heard.output, 2048)), name |-> "prose"],
                  candidateDigest |-> Sha256],
     artifactOutputs |-> <<reference>>]

Result(t, elapsed) ==
    [taskId |-> t.taskId, runId |-> t.runId, rootRunId |-> t.rootRunId,
     physicalAttemptId |-> t.physicalAttemptId, attemptNumber |-> t.attemptNumber,
     executionGeneration |-> t.executionGeneration, leaseEpoch |-> t.leaseEpoch,
     fenceToken |-> t.fenceToken, traceContext |-> t.traceContext,
     reasonCode |-> Reason(outcome.reason),
     turnDecision |-> outcome.decision,
     usage |-> [modelCalls |-> usage.modelCalls, toolCalls |-> usage.toolCalls,
                inputTokens |-> usage.inputTokens, outputTokens |-> usage.outputTokens,
                durationMilliseconds |-> elapsed],
     signature |-> [keyId |-> KeyId, statementDigest |-> Sha256, signature |-> 86]]

-----------------------------------------------------------------------------
(***************************************************************************)
(* The turn.                                                               *)
(***************************************************************************)

Send(to, document) == sent' = sent \cup {[to |-> to, document |-> document]}

Ends(reason, decision) ==
    step' = "decided" /\ outcome' = [reason |-> reason, decision |-> decision]

\* Admit: a document that is no task goes no further.
Admit ==
    /\ step = "posted"
    /\ step' = IF AgentTask(task) THEN "reading" ELSE "refused"
    /\ UNCHANGED <<task, sent, heard, usage, outcome>>

\* Everything supplied is read before the model is asked.
ReadBrief ==
    /\ step = "reading"
    /\ IF Suffices(task) THEN step' = "asking" /\ UNCHANGED outcome
       ELSE Ends("RUNTIME_REFUSED_BY_GUARDRAIL", Refuses)
    /\ UNCHANGED <<task, sent, heard, usage>>

Ask ==
    /\ step = "asking"
    /\ Send("gateway", Request(task))
    /\ step' = "awaiting answer"
    /\ UNCHANGED <<task, heard, usage, outcome>>

\* What the gateway, or whatever stands in its place, may answer.
Answer ==
    [taskId : {task.taskId}, physicalAttemptId : {task.physicalAttemptId, Stranger},
     attemptNumber : {task.attemptNumber}, executionGeneration : {task.executionGeneration},
     invocationId : {Opaque(n) : n \in {128, 129}},
     outcome : {"ok", "refused"},
     reasonCode : {Reason("answered")},
     output : Proposal, outputDigest : {Sha256},
     usage : [inputTokens : {0, Largest, Largest + 1}, outputTokens : {Largest},
              others : {[inBounds |-> TRUE]}],
     traceContext : {task.traceContext}]

\* An answer that cannot be decoded or is another attempt's is none; any other
\* is metered before it is judged.
HearAnswer ==
    /\ step = "awaiting answer"
    /\ \E answer \in Answer, attested \in BOOLEAN :
          IF ~ModelInvocationResult(answer) \/ answer.physicalAttemptId # task.physicalAttemptId
          THEN Ends("RUNTIME_MODEL_UNAVAILABLE", Refuses) /\ UNCHANGED <<heard, usage>>
          ELSE /\ usage' = [usage EXCEPT !.modelCalls = @ + 1, !.inputTokens = @ + answer.usage.inputTokens,
                                         !.outputTokens = @ + answer.usage.outputTokens]
               /\ \/ /\ answer.outcome = "refused"
                     /\ Ends("RUNTIME_REFUSED_BY_POLICY", Refuses) /\ UNCHANGED heard
                  \/ /\ answer.outcome = "ok" /\ ~attested
                     /\ Ends("RUNTIME_MODEL_UNAVAILABLE", Refuses) /\ UNCHANGED heard
                  \/ /\ answer.outcome = "ok" /\ attested /\ step' = "composing"
                     /\ heard' = answer
                     /\ UNCHANGED outcome
    /\ UNCHANGED <<task, sent>>

\* readComposition, composePage, buildCandidate and the submission of what
\* they make: a proposal without a summary, or one PageComposition refuses, is
\* no page; a document over the candidate's bound is not sent.
Compose ==
    /\ step = "composing"
    /\ \/ Ends("RUNTIME_REFUSED_BY_GUARDRAIL", Refuses) /\ UNCHANGED sent
       \/ heard.output.runes > 0 /\ heard.output.oversized /\ Ends("RUNTIME_TOOL_FAILED", Refuses) /\ UNCHANGED sent
       \/ /\ heard.output.runes > 0 /\ ~heard.output.oversized
          /\ Send("artifacts", Candidate(task))
          /\ step' = "awaiting record" /\ UNCHANGED outcome
    /\ UNCHANGED <<task, heard, usage>>

\* What may be answered of a submission; the size is that of what was sent.
Recorded ==
    [artifactId : {Opaque(n) : n \in {128, 129}}, digest : {Sha256},
     reference : [mediaType : {[as |-> {"media"}, runes |-> n, name |-> "json"] : n \in {16, 129}},
                  sizeBytes : {262144}, others : {[inBounds |-> TRUE]}],
     others : {[inBounds |-> TRUE]}]

\* A recorded artifact about another document is not a reference to this one.
HearRecord ==
    /\ step = "awaiting record"
    /\ \E recorded \in Recorded, ours \in BOOLEAN :
          IF AgentArtifact(recorded) /\ ours
          THEN /\ usage' = [usage EXCEPT !.toolCalls = @ + 1]
               /\ Ends("RUNTIME_COMPLETED",
                       Final(task, [artifactId |-> recorded.artifactId, digest |-> recorded.digest,
                                    mediaType |-> recorded.reference.mediaType,
                                    sizeBytes |-> recorded.reference.sizeBytes]))
          ELSE Ends("RUNTIME_TOOL_FAILED", Refuses) /\ UNCHANGED usage
    /\ UNCHANGED <<task, sent, heard>>

\* Host.Resolve signs whatever the turn came to.
Sign ==
    /\ step = "decided"
    /\ \E elapsed \in Elapsed : Send("caller", Result(task, elapsed))
    /\ step' = "returned"
    /\ UNCHANGED <<task, heard, usage, outcome>>

Over == step \in {"refused", "returned"} /\ UNCHANGED vars

Next ==
    Admit \/ ReadBrief \/ Ask \/ HearAnswer \/ Compose \/ HearRecord \/ Sign \/ Over

Spec == Init /\ [][Next]_vars
-----------------------------------------------------------------------------
Decodes(d) ==
    CASE d.to = "gateway"   -> ModelInvocationRequest(d.document)
      [] d.to = "artifacts" -> PageCandidate(d.document)
      [] d.to = "caller"    -> AgentRuntimeResult(d.document)

\* What the unit takes on trust of a dispatch: that the attempt's identity leaves
\* room for the operation in a key of 128 characters, and that the two values no
\* pattern is looked for in have the form they must have.
Trusted(t) ==
    /\ t.physicalAttemptId.runes <= 114
    /\ "targetType" \in DOMAIN t.parameters => Is(t.parameters["targetType"], "type", 1, 64)
    /\ "modelPolicyVersion" \in DOMAIN t.parameters
          => Is(t.parameters["modelPolicyVersion"], "version", 1, 64)

\* Whatever else was dispatched, proposed and answered, every document that
\* leaves the unit is one its contract admits: the bounds kept by readPins,
\* GovernedPrompt, buildCandidate, payloadSummary and the decoders of the
\* answers are enough for all three (turn.go:111-127, 215-277, host.go:132-166).
DocumentsAreAdmitted == Trusted(task) => \A d \in sent : Decodes(d)

\* The preview a candidate attests to is one of the task's own inputs, of the
\* identity and the digest the dispatch accepted, also when the inputs name one
\* identity twice (turn.go:183-189, brief.go:160-170).
PreviewIsAnInput ==
    \A d \in sent : d.to = "artifacts" =>
        LET preview == d.document.preview.resultArtifact IN
        /\ preview \in {task.artifactInputs[i] : i \in DOMAIN task.artifactInputs}
        /\ preview.artifactId = task.parameters["previewId"]
        /\ preview.digest = task.parameters["previewDigest"]

\* No decision is bought for an attempt whose context had already failed it: a
\* turn that refuses a key it needs asked for nothing (turn.go:60-74).  That the
\* preview is also pinned is PreviewIsAnInput.
NothingIsBoughtInVain ==
    \A d \in sent : d.to = "gateway" =>
        \A key \in DOMAIN Needs : Usable(task.parameters, key, Needs[key])

\* "A malformed dispatch is refused with a coded reason instead of travelling
\* into a document that will fail validation somewhere later"
\* (brief.go:257-259): no document carries a supplied value its contract does
\* not admit.
MalformedDispatchIsRefused ==
    \A d \in sent :
        /\ d.to = "gateway" => PolicyReference(d.document.modelPolicy)
        /\ d.to = "artifacts" => TargetReference(d.document.target)
=============================================================================
