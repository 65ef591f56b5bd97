-------------------------- MODULE DocumentsProofs --------------------------
(***************************************************************************)
(* The documents of a turn, whatever was dispatched and answered.          *)
(***************************************************************************)
EXTENDS Documents, FiniteSetTheorems, TLAPS

\* What is read of a supplied context is in the form its documents need.
LEMMA SupplyIsRead ==
    ASSUME NEW t, Suffices(t)
    PROVE  /\ \A key \in {"targetId", "workspaceId", "projectId", "baseRevision",
                          "previewTaskId", "modelPolicyId"} : OpaqueId(t.parameters[key])
           /\ \A key \in {"targetDigest", "catalogDigest", "policyDigest", "contextDigest",
                          "promptDigest", "modelPolicyDigest"} : Digest(t.parameters[key])
           /\ {"targetType", "modelPolicyVersion"} \subseteq DOMAIN t.parameters
  <1>1. \A key \in DOMAIN Needs : Usable(t.parameters, key, Needs[key])
    BY DEF Suffices, Flawed
  <1>2. DOMAIN Needs = DOMAIN PinNeeds \cup DOMAIN PromptNeeds \cup {"constraints"}
    BY DEF Needs
  <1>3. /\ DOMAIN PinNeeds = {"targetType", "targetId", "workspaceId", "projectId", "baseRevision",
                              "targetDigest", "catalogDigest", "policyDigest", "previewTaskId",
                              "previewId", "previewDigest", "previewMedia", "previewSize"}
        /\ DOMAIN PromptNeeds = {"contextDigest", "promptDigest", "modelPolicyId",
                                 "modelPolicyVersion", "modelPolicyDigest"}
    BY DEF PinNeeds, PromptNeeds
  <1>4. ASSUME NEW key \in {"targetId", "workspaceId", "projectId", "baseRevision",
                            "previewTaskId", "modelPolicyId"}
        PROVE  OpaqueId(t.parameters[key])
    <2>1. key \in DOMAIN Needs /\ Needs[key] = "opaque"
      BY <1>2, <1>3 DEF Needs, PinNeeds, PromptNeeds
    <2> QED
      BY <1>1, <2>1 DEF Usable
  <1>5. ASSUME NEW key \in {"targetDigest", "catalogDigest", "policyDigest", "contextDigest",
                            "promptDigest", "modelPolicyDigest"}
        PROVE  Digest(t.parameters[key])
    <2>1. key \in DOMAIN Needs /\ Needs[key] = "digest"
      BY <1>2, <1>3 DEF Needs, PinNeeds, PromptNeeds
    <2> QED
      BY <1>1, <2>1 DEF Usable
  <1>6. {"targetType", "modelPolicyVersion"} \subseteq DOMAIN t.parameters
    BY <1>1, <1>2, <1>3 DEF Usable
  <1> QED
    BY <1>4, <1>5, <1>6

\* What is asked of the gateway is in its contract.
LEMMA RequestIsAdmitted ==
    ASSUME NEW t, AgentTask(t), Suffices(t), Trusted(t)
    PROVE  ModelInvocationRequest(Request(t))
  <1>1. /\ AboutAnAttempt(t) /\ OpaqueId(t.runId) /\ OpaqueId(t.rootRunId)
        /\ DefinitionReference(t.definition) /\ ContractBomReference(t.contractBomReference)
        /\ ResourceLimits(t.limits)
    BY DEF AgentTask
  <1>2. AboutAnAttempt(Request(t))
    BY <1>1 DEF AboutAnAttempt, Request
  <1>3. PolicyReference(Request(t).modelPolicy)
    BY SupplyIsRead DEF Request, PolicyReference, Trusted, HasOnly
  <1>4. Idempotency(Request(t).idempotency)
    <2>1. "opaque" \in t.physicalAttemptId.as /\ t.physicalAttemptId.runes \in 1..114
      BY <1>1 DEF AboutAnAttempt, OpaqueId, Is, Trusted
    <2> QED
      BY <2>1 DEF Request, Idempotency, Identity, HasOnly, Is, Digest, Sha256
  <1>5. Digest(Request(t).contextDigest) /\ Digest(Request(t).promptDigest)
    BY SupplyIsRead DEF Request
  <1> QED
    BY <1>1, <1>2, <1>3, <1>4, <1>5 DEF ModelInvocationRequest, Request, HasOnly

\* The preview that is pinned is an input, of the identity and the digest that
\* were accepted.
LEMMA PinnedIsAnInput ==
    ASSUME NEW t, AgentTask(t), Suffices(t)
    PROVE  LET preview == CHOOSE input \in Pinned(t) : TRUE IN
           /\ preview \in {t.artifactInputs[i] : i \in DOMAIN t.artifactInputs}
           /\ preview.artifactId = t.parameters["previewId"]
           /\ preview.digest = t.parameters["previewDigest"]
           /\ ArtifactReference(preview)
  <1>1. (CHOOSE input \in Pinned(t) : TRUE) \in Pinned(t)
    BY DEF Suffices
  <1>2. \A input \in Pinned(t) :
            /\ input \in {t.artifactInputs[i] : i \in DOMAIN t.artifactInputs}
            /\ input.artifactId = t.parameters["previewId"]
            /\ input.digest = t.parameters["previewDigest"]
    BY DEF Pinned, Named
  <1>3. \A i \in DOMAIN t.artifactInputs : ArtifactReference(t.artifactInputs[i])
    BY DEF AgentTask
  <1> QED
    BY <1>1, <1>2, <1>3

Cut(n, w) == IF n * w <= 2048 THEN n ELSE (2048 \div w) + (2048 % w)

\* Every byte a cut leaves of a split rune is one rune, and 2048 of them at most
\* remain, whatever a rune takes.
LEMMA CutIsABound ==
    ASSUME NEW n \in Nat, NEW w \in {1, 2, 3, 4}
    PROVE  Cut(n, w) \in Nat /\ Cut(n, w) <= 2048 /\ (n > 0 => Cut(n, w) > 0)
  <1>1. CASE w = 1
    BY <1>1, SMT DEF Cut
  <1>2. CASE w = 2
    BY <1>2, SMT DEF Cut
  <1>3. CASE w = 3
    BY <1>3, SMT DEF Cut
  <1>4. CASE w = 4
    BY <1>4, SMT DEF Cut
  <1> QED
    BY <1>1, <1>2, <1>3, <1>4

\* Prose that is cut is as long as a summary may be, and never empty.
LEMMA BoundIsABound ==
    ASSUME NEW p \in Proposal
    PROVE  /\ Bound(p, 2048) \in Nat /\ Bound(p, 2048) <= 2048
           /\ p.runes > 0 => Bound(p, 2048) > 0
  <1>1. p.runes \in Nat /\ p.width \in {1, 2, 3, 4}
    BY ProposalAssumption, SMT
  <1>2. Bound(p, 2048) = Cut(p.runes, p.width)
    BY DEF Bound, Cut
  <1> QED
    BY <1>1, <1>2, CutIsABound

\* The candidate that is submitted is in its contract.
LEMMA CandidateIsAdmitted ==
    ASSUME AgentTask(task), Suffices(task), Trusted(task),
           OpaqueId(heard.invocationId), heard.output \in Proposal, heard.output.runes > 0
    PROVE  PageCandidate(Candidate(task))
  <1> DEFINE c == Candidate(task)
  <1>1. /\ DefinitionReference(task.definition)
        /\ ContractBomReference(task.contractBomReference)
    BY DEF AgentTask
  <1>2. TargetReference(c.target) /\ OpaqueId(c.baseRevision)
    BY SupplyIsRead DEF Candidate, TargetReference, Trusted, HasOnly
  <1>3. ArtifactReference(c.pageData) /\ Digest(c.candidateDigest)
    BY ProposalAssumption, SMT
       DEF Candidate, PinDocument, ArtifactReference, Opaque, OpaqueId, Digest, Sha256, Is, HasOnly,
           Within
  <1>4. PageCandidateDigests(c.digests)
    <2>1. /\ Digest(c.digests.targetDigest) /\ Digest(c.digests.catalogDigest)
          /\ Digest(c.digests.policyDigest) /\ Digest(c.digests.definitionDigest)
          /\ Digest(c.digests.contractBomDigest)
      BY <1>1, SupplyIsRead DEF Candidate, DefinitionReference, ContractBomReference
    <2>2. DOMAIN c.digests = {"targetDigest", "catalogDigest", "policyDigest",
                              "definitionDigest", "contractBomDigest"}
      BY DEF Candidate
    <2> QED
      BY <2>1, <2>2 DEF PageCandidateDigests, HasOnly
  <1>5. PageCandidatePreview(c.preview)
    <2>1. c.preview = [taskId |-> task.parameters["previewTaskId"],
                       resultArtifact |-> CHOOSE input \in Pinned(task) : TRUE]
      BY DEF Candidate
    <2>2. OpaqueId(c.preview.taskId) /\ ArtifactReference(c.preview.resultArtifact)
      BY <2>1, SupplyIsRead, PinnedIsAnInput
    <2>3. DOMAIN c.preview = {"taskId", "resultArtifact"}
      BY <2>1
    <2> QED
      BY <2>2, <2>3 DEF PageCandidatePreview, HasOnly
  <1>6. PageCandidateGeneration(c.generation)
    <2>1. c.generation = [summary |-> [runes |-> Bound(heard.output, 2048)],
                          assumptions |-> AtMost(heard.output.assumptions, 32)]
      BY DEF Candidate
    <2>2. LET n == Bound(heard.output, 2048) IN n \in Nat /\ n <= 2048 /\ n > 0
      BY BoundIsABound
    <2>3. AtMost(heard.output.assumptions, 32) <= 32
      BY ProposalAssumption DEF AtMost
    <2>4. c.generation.summary.runes = Bound(heard.output, 2048)
      BY <2>1
    <2>5. c.generation.assumptions = AtMost(heard.output.assumptions, 32)
      BY <2>1
    <2>6. DOMAIN c.generation = {"summary", "assumptions"}
      BY <2>1
    <2> HIDE DEF c
    <2> QED
      BY <2>2, <2>3, <2>4, <2>5, <2>6, SMT DEF PageCandidateGeneration, HasOnly, Within
  <1>7. PageCandidateReferences(c.references)
    <2>1. c.references = [modelInvocations |-> <<heard.invocationId>>, toolInvocations |-> <<>>,
                          delegations |-> <<>>, evidence |-> <<>>]
      BY DEF Candidate
    <2> HIDE DEF c
    <2> QED
      BY <2>1, SMT DEF PageCandidateReferences, HasOnly
  <1>8. Len(c.validationReceipts) <= 16 /\ c.warnings <= 32
    BY ProposalAssumption DEF Candidate
  <1>9. HasOnly(c, {"target", "baseRevision", "pageData", "digests", "validationReceipts",
                   "preview", "generation", "references", "warnings", "candidateDigest"})
    BY DEF Candidate, HasOnly
  <1> QED
    BY <1>2, <1>3, <1>4, <1>5, <1>6, <1>7, <1>8, <1>9 DEF PageCandidate

\* A decision is in its contract, whatever it is.
LEMMA DecisionsAreAdmitted ==
    ASSUME heard.output \in Proposal, NEW reference, ArtifactReference(reference)
    PROVE  TurnDecision(Final(task, reference))
  <1> DEFINE payload == Final(task, reference).payload
  <1>1. BoundedStringMap(payload)
    <2>1. DOMAIN payload = {"summary", "candidateDigest"}
      BY DEF Final
    <2>2. Cardinality(DOMAIN payload) <= 32
      <3>1. IsFiniteSet({"summary"}) /\ Cardinality({"summary"}) = 1
        BY FS_Singleton
      <3>2. DOMAIN payload = {"summary"} \cup {"candidateDigest"}
        BY <2>1
      <3>3. Cardinality({"summary"} \cup {"candidateDigest"}) = 2
        BY <3>1, FS_AddElement
      <3> HIDE DEF payload
      <3> QED
        BY <3>2, <3>3
    <2>3. payload.summary.runes <= 1024 /\ payload.candidateDigest.runes <= 1024
      BY BoundIsABound, SMT DEF Final, PayloadSummary, AtMost, Sha256
    <2> QED
      BY <2>1, <2>2, <2>3, SMT DEF BoundedStringMap
  <1> QED
    BY <1>1 DEF TurnDecision, Final, HasOnly

\* So is a refusal, which carries nothing.
LEMMA RefusalsAreAdmitted == TurnDecision(Refuses)
  <1>1. DOMAIN Refuses.payload = {}
    BY DEF Refuses
  <1>2. BoundedStringMap(Refuses.payload)
    BY <1>1, FS_EmptySet, SMT DEF BoundedStringMap
  <1> QED
    BY <1>2 DEF TurnDecision, Refuses, HasOnly

-----------------------------------------------------------------------------
Nothing == [modelCalls |-> 0, toolCalls |-> 0, inputTokens |-> 0, outputTokens |-> 0]
Metered == [modelCalls : {0, 1}, toolCalls : {0, 1}, inputTokens : 0..Largest,
            outputTokens : 0..Largest]

\* A result is in its contract when its decision is.
LEMMA ResultIsAdmitted ==
    ASSUME AgentTask(task), usage \in Metered, TurnDecision(outcome.decision),
           NEW elapsed \in Elapsed
    PROVE  AgentRuntimeResult(Result(task, elapsed))
  <1> DEFINE r == Result(task, elapsed)
  <1>1. /\ AboutAnAttempt(task) /\ OpaqueId(task.runId) /\ OpaqueId(task.rootRunId)
        /\ Within(task.leaseEpoch, 0, Largest) /\ Is(task.fenceToken, "fence", 16, 512)
    BY DEF AgentTask
  <1>2. AboutAnAttempt(r)
    BY <1>1 DEF AboutAnAttempt, Result
  <1>3. /\ r.runId = task.runId /\ r.rootRunId = task.rootRunId
        /\ r.leaseEpoch = task.leaseEpoch /\ r.fenceToken = task.fenceToken
        /\ r.turnDecision = outcome.decision
    BY DEF Result
  <1>4. Is(r.reasonCode, "reason", 3, 64)
    BY SMT DEF Result, Reason, Is
  <1>5. ResultUsage(r.usage)
    <2>1. r.usage = [modelCalls |-> usage.modelCalls, toolCalls |-> usage.toolCalls,
                     inputTokens |-> usage.inputTokens, outputTokens |-> usage.outputTokens,
                     durationMilliseconds |-> elapsed]
      BY DEF Result
    <2>2. Within(elapsed, 0, LongestDuration)
      BY DeploymentAssumption DEF Within
    <2>3. /\ Within(usage.modelCalls, 0, 10000) /\ Within(usage.toolCalls, 0, 10000)
          /\ Within(usage.inputTokens, 0, Largest) /\ Within(usage.outputTokens, 0, Largest)
      <3>1. \A n \in {0, 1} : Within(n, 0, 10000)
        BY SMT DEF Within
      <3>2. /\ usage.modelCalls \in {0, 1} /\ usage.toolCalls \in {0, 1}
            /\ usage.inputTokens \in 0..Largest /\ usage.outputTokens \in 0..Largest
        BY DEF Metered
      <3>3. Within(usage.modelCalls, 0, 10000) /\ Within(usage.toolCalls, 0, 10000)
        BY <3>1, <3>2, SMT
      <3>4. Within(usage.inputTokens, 0, Largest) /\ Within(usage.outputTokens, 0, Largest)
        BY <3>2 DEF Within
      <3> QED
        BY <3>3, <3>4, SMT
    <2> HIDE DEF r
    <2> QED
      BY <2>1, <2>2, <2>3, SMT DEF ResultUsage, HasOnly
  <1>6. ResultSignature(r.signature)
    <2>1. r.signature = [keyId |-> KeyId, statementDigest |-> Sha256, signature |-> 86]
      BY DEF Result
    <2>2. Digest(Sha256) /\ Within(86, 86, 512)
      BY SMT DEF Digest, Sha256, Is, Within
    <2>3. Is(KeyId, "key", 20, 256)
      BY DeploymentAssumption
    <2> HIDE DEF r
    <2> QED
      BY <2>1, <2>2, <2>3, SMT DEF ResultSignature, HasOnly
  <1>7. HasOnly(r, {"taskId", "runId", "rootRunId", "physicalAttemptId", "attemptNumber",
                   "executionGeneration", "leaseEpoch", "fenceToken", "reasonCode",
                   "turnDecision", "usage", "traceContext", "signature"})
    BY DEF HasOnly, Result
  <1>8. AgentRuntimeResult(r)
    <2> HIDE DEF r
    <2> QED
      BY <1>1, <1>2, <1>3, <1>4, <1>5, <1>6, <1>7, SMT DEF AgentRuntimeResult
  <1> QED
    BY <1>8

-----------------------------------------------------------------------------
(***************************************************************************)
(* The inductive invariant: how far the turn is says what was read, heard  *)
(* and metered, and what was sent stands on it.                            *)
(***************************************************************************)
Steps == {"posted", "refused", "reading", "asking", "awaiting answer", "composing",
          "awaiting record", "decided", "returned"}

FarAsItIs ==
    /\ step \in Steps
    /\ step \notin {"posted", "refused"} => AgentTask(task)
    /\ step \in {"asking", "awaiting answer", "composing", "awaiting record"} => Suffices(task)
    /\ step \in {"composing", "awaiting record"} =>
          OpaqueId(heard.invocationId) /\ heard.output \in Proposal
    /\ usage \in Metered
    /\ step \in {"posted", "reading", "asking", "awaiting answer"} => usage = Nothing
    /\ step \in {"composing", "awaiting record"} => usage.toolCalls = 0
    /\ step = "decided" => TurnDecision(outcome.decision)

Sound(d) ==
    /\ d.to \in {"gateway", "artifacts", "caller"}
    /\ Trusted(task) => Decodes(d)
    /\ d.to \in {"gateway", "artifacts"} => AgentTask(task) /\ Suffices(task)
    /\ d.to = "artifacts" =>
          d.document.preview.resultArtifact = CHOOSE input \in Pinned(task) : TRUE

DInv == FarAsItIs /\ \A d \in sent : Sound(d)

\* Nothing is sent, read or metered when a task is posted.
LEMMA DocumentsInit == Init => DInv
  <1> SUFFICES ASSUME Init PROVE DInv
    OBVIOUS
  <1>1. 0 \in 0..Largest
    BY LargestAssumption, SMT
  <1>2. usage = Nothing /\ usage \in Metered
    BY <1>1 DEF Init, Nothing, Metered
  <1> QED
    BY <1>2 DEF Init, DInv, FarAsItIs, Steps

\* An answer that is heard is of an invocation a candidate can name, proposes
\* what may be proposed, and is metered within what a result may report.
LEMMA HeardAnswersCount ==
    ASSUME usage = Nothing, NEW answer \in Answer, ModelInvocationResult(answer)
    PROVE  /\ OpaqueId(answer.invocationId) /\ answer.output \in Proposal
           /\ [usage EXCEPT !.modelCalls = @ + 1, !.inputTokens = @ + answer.usage.inputTokens,
                            !.outputTokens = @ + answer.usage.outputTokens] \in Metered
           /\ [usage EXCEPT !.modelCalls = @ + 1, !.inputTokens = @ + answer.usage.inputTokens,
                            !.outputTokens = @ + answer.usage.outputTokens].toolCalls = 0
  <1>1. OpaqueId(answer.invocationId) /\ ModelInvocationUsage(answer.usage)
    BY DEF ModelInvocationResult
  <1>2. answer.output \in Proposal
    BY DEF Answer
  <1>3. answer.usage.inputTokens \in 0..Largest /\ answer.usage.outputTokens \in 0..Largest
    BY <1>1 DEF ModelInvocationUsage, Within
  <1> DEFINE asked == [usage EXCEPT !.modelCalls = @ + 1]
             read == [asked EXCEPT !.inputTokens = @ + answer.usage.inputTokens]
             written == [read EXCEPT !.outputTokens = @ + answer.usage.outputTokens]
  <1>4. 0 \in 0..Largest
    BY LargestAssumption
  <1>5. asked = [Nothing EXCEPT !.modelCalls = 1]
    BY DEF Nothing
  <1>6. asked \in Metered /\ asked.toolCalls = 0 /\ asked.inputTokens = 0 /\ asked.outputTokens = 0
    BY <1>4, <1>5 DEF Nothing, Metered
  <1>7. read \in Metered /\ read.toolCalls = 0 /\ read.outputTokens = 0
    <2> HIDE DEF asked
    <2>1. read = [asked EXCEPT !.inputTokens = answer.usage.inputTokens]
      BY <1>3, <1>6
    <2> HIDE DEF read
    <2> QED
      BY <1>3, <1>6, <2>1 DEF Metered
  <1>8. written \in Metered /\ written.toolCalls = 0
    <2> HIDE DEF read
    <2>1. written = [read EXCEPT !.outputTokens = answer.usage.outputTokens]
      BY <1>3, <1>7
    <2> HIDE DEF written
    <2> QED
      BY <1>3, <1>7, <2>1 DEF Metered
  <1> QED
    BY <1>1, <1>2, <1>8

\* What is recorded of a candidate can be referred to in a result.
LEMMA RecordsAreReferences ==
    ASSUME NEW recorded, AgentArtifact(recorded)
    PROVE  ArtifactReference([artifactId |-> recorded.artifactId, digest |-> recorded.digest,
                              mediaType |-> recorded.reference.mediaType,
                              sizeBytes |-> recorded.reference.sizeBytes])
  BY DEF AgentArtifact, ArtifactLocation, ArtifactReference, HasOnly

\* A submission is metered within what a result may report.
LEMMA SubmissionsAreMetered ==
    ASSUME usage \in Metered, usage.toolCalls = 0
    PROVE  [usage EXCEPT !.toolCalls = @ + 1] \in Metered
  <1>1. 0 + 1 = 1
    OBVIOUS
  <1>2. [usage EXCEPT !.toolCalls = 1] \in Metered
    BY SMT DEF Metered
  <1>3. [usage EXCEPT !.toolCalls = @ + 1] = [usage EXCEPT !.toolCalls = usage.toolCalls + 1]
    OBVIOUS
  <1> QED
    BY <1>1, <1>2, <1>3

\* Every step leaves the turn as far as its state says.
LEMMA FarAsItIsKept ==
    ASSUME FarAsItIs, [Next]_vars
    PROVE  FarAsItIs'
  <1>1. CASE Admit
    BY <1>1 DEF Admit, FarAsItIs, Steps
  <1>2. CASE ReadBrief
    <2>1. step = "reading" /\ AgentTask(task) /\ usage = Nothing /\ usage \in Metered
      BY <1>2 DEF ReadBrief, FarAsItIs
    <2>2. UNCHANGED <<task, usage>>
      BY <1>2 DEF ReadBrief
    <2>3. \/ step' = "asking" /\ Suffices(task)
          \/ step' = "decided" /\ TurnDecision(outcome'.decision)
      BY <1>2, RefusalsAreAdmitted DEF ReadBrief, Ends
    <2> QED
      BY <2>1, <2>2, <2>3 DEF FarAsItIs, Steps
  <1>3. CASE Ask
    BY <1>3 DEF Ask, FarAsItIs, Steps
  <1>4. CASE HearAnswer
    <2>1. /\ step = "awaiting answer" /\ AgentTask(task) /\ Suffices(task) /\ usage = Nothing
          /\ usage \in Metered /\ task' = task
      BY <1>4 DEF HearAnswer, FarAsItIs
    <2>2. PICK answer \in Answer, attested \in BOOLEAN :
              IF ~ModelInvocationResult(answer) \/ answer.physicalAttemptId # task.physicalAttemptId
              THEN Ends("RUNTIME_MODEL_UNAVAILABLE", Refuses) /\ UNCHANGED <<heard, usage>>
              ELSE /\ usage' = [usage EXCEPT !.modelCalls = @ + 1,
                                             !.inputTokens = @ + answer.usage.inputTokens,
                                             !.outputTokens = @ + answer.usage.outputTokens]
                   /\ \/ /\ answer.outcome = "refused"
                         /\ Ends("RUNTIME_REFUSED_BY_POLICY", Refuses) /\ UNCHANGED heard
                      \/ /\ answer.outcome = "ok" /\ ~attested
                         /\ Ends("RUNTIME_MODEL_UNAVAILABLE", Refuses) /\ UNCHANGED heard
                      \/ /\ answer.outcome = "ok" /\ attested /\ step' = "composing"
                         /\ heard' = answer
                         /\ UNCHANGED outcome
      BY <1>4 DEF HearAnswer
    <2>3. \/ step' = "decided" /\ outcome'.decision = Refuses
          \/ step' = "composing" /\ heard' = answer /\ ModelInvocationResult(answer)
      BY <2>2 DEF Ends
    <2>4. usage' \in Metered /\ usage'.toolCalls = 0
      <3>1. \/ usage' = usage
            \/ /\ ModelInvocationResult(answer)
               /\ usage' = [usage EXCEPT !.modelCalls = @ + 1,
                                         !.inputTokens = @ + answer.usage.inputTokens,
                                         !.outputTokens = @ + answer.usage.outputTokens]
        BY <2>2
      <3>2. usage.toolCalls = 0
        BY <2>1 DEF Nothing
      <3>3. CASE usage' = usage
        BY <2>1, <3>2, <3>3
      <3>4. CASE usage' # usage
        <4> DEFINE metered == [usage EXCEPT !.modelCalls = @ + 1,
                                            !.inputTokens = @ + answer.usage.inputTokens,
                                            !.outputTokens = @ + answer.usage.outputTokens]
        <4>1. ModelInvocationResult(answer) /\ usage' = metered
          BY <3>1, <3>4
        <4>2. metered \in Metered /\ metered.toolCalls = 0
          BY <2>1, <4>1, HeardAnswersCount
        <4> HIDE DEF metered
        <4> QED
          BY <4>1, <4>2
      <3> QED
        BY <3>3, <3>4
    <2>5. step' = "composing" => OpaqueId(heard'.invocationId) /\ heard'.output \in Proposal
      BY <2>1, <2>3, HeardAnswersCount
    <2> QED
      BY <2>1, <2>3, <2>4, <2>5, RefusalsAreAdmitted DEF FarAsItIs, Steps
  <1>5. CASE Compose
    <2>1. /\ AgentTask(task) /\ Suffices(task) /\ usage.toolCalls = 0 /\ usage \in Metered
          /\ OpaqueId(heard.invocationId) /\ heard.output \in Proposal
      BY <1>5 DEF Compose, FarAsItIs
    <2>2. UNCHANGED <<task, heard, usage>>
      BY <1>5 DEF Compose
    <2>3. \/ step' = "awaiting record"
          \/ step' = "decided" /\ outcome'.decision = Refuses
      <3>1. \/ Ends("RUNTIME_REFUSED_BY_GUARDRAIL", Refuses)
            \/ Ends("RUNTIME_TOOL_FAILED", Refuses)
            \/ step' = "awaiting record"
        BY <1>5 DEF Compose
      <3>2. \A reason : Ends(reason, Refuses) => step' = "decided" /\ outcome'.decision = Refuses
        BY DEF Ends
      <3> QED
        BY <3>1, <3>2
    <2> QED
      BY <2>1, <2>2, <2>3, RefusalsAreAdmitted DEF FarAsItIs, Steps
  <1>6. CASE HearRecord
    <2>1. /\ step = "awaiting record" /\ AgentTask(task) /\ heard.output \in Proposal
          /\ usage \in Metered /\ usage.toolCalls = 0 /\ task' = task /\ step' = "decided"
      BY <1>6 DEF HearRecord, FarAsItIs, Ends
    <2>2. usage' \in Metered
      <3>1. [usage EXCEPT !.toolCalls = @ + 1] \in Metered
        BY <2>1, SubmissionsAreMetered
      <3> QED
        BY <1>6, <2>1, <3>1 DEF HearRecord
    <2>3. TurnDecision(outcome'.decision)
      <3>1. PICK recorded \in Recorded, ours \in BOOLEAN :
                IF AgentArtifact(recorded) /\ ours
                THEN Ends("RUNTIME_COMPLETED",
                          Final(task, [artifactId |-> recorded.artifactId,
                                       digest |-> recorded.digest,
                                       mediaType |-> recorded.reference.mediaType,
                                       sizeBytes |-> recorded.reference.sizeBytes]))
                ELSE Ends("RUNTIME_TOOL_FAILED", Refuses)
        BY <1>6 DEF HearRecord
      <3> DEFINE reference == [artifactId |-> recorded.artifactId, digest |-> recorded.digest,
                               mediaType |-> recorded.reference.mediaType,
                               sizeBytes |-> recorded.reference.sizeBytes]
      <3>2. CASE AgentArtifact(recorded) /\ ours
        <4>1. outcome'.decision = Final(task, reference)
          BY <3>1, <3>2 DEF Ends
        <4>2. ArtifactReference(reference)
          BY <3>2, RecordsAreReferences
        <4> HIDE DEF reference
        <4> QED
          BY <2>1, <4>1, <4>2, DecisionsAreAdmitted
      <3>3. CASE ~(AgentArtifact(recorded) /\ ours)
        BY <3>1, <3>3, RefusalsAreAdmitted DEF Ends
      <3> QED
        BY <3>2, <3>3
    <2> QED
      BY <2>1, <2>2, <2>3 DEF FarAsItIs, Steps
  <1>7. CASE Sign
    BY <1>7 DEF Sign, FarAsItIs, Steps
  <1>8. CASE Over \/ UNCHANGED vars
    BY <1>8 DEF Over, vars, FarAsItIs
  <1> QED
    BY <1>1, <1>2, <1>3, <1>4, <1>5, <1>6, <1>7, <1>8 DEF Next

\* Every document that is sent stands on what was read, heard and metered.
LEMMA SentIsSound ==
    ASSUME FarAsItIs, \A d \in sent : Sound(d), [Next]_vars
    PROVE  (\A d \in sent : Sound(d))'
  <1>1. task' = task
    BY DEF Next, Admit, ReadBrief, Ask, HearAnswer, Compose, HearRecord, Sign, Over, vars
  <1>2. \A d : Sound(d) => Sound(d)'
    BY <1>1 DEF Sound
  <1>3. CASE sent' = sent
    BY <1>2, <1>3
  <1>4. CASE Ask
    <2> DEFINE d == [to |-> "gateway", document |-> Request(task)]
    <2>1. AgentTask(task) /\ Suffices(task) /\ sent' = sent \cup {d}
      BY <1>4 DEF Ask, FarAsItIs, Send
    <2>2. Trusted(task) => Decodes(d)
      BY <2>1, RequestIsAdmitted DEF Decodes
    <2>3. Sound(d)
      BY <2>1, <2>2 DEF Sound
    <2> QED
      BY <1>2, <2>1, <2>3
  <1>5. CASE Compose /\ sent' # sent
    <2> DEFINE d == [to |-> "artifacts", document |-> Candidate(task)]
    <2>1. /\ AgentTask(task) /\ Suffices(task) /\ sent' = sent \cup {d}
          /\ OpaqueId(heard.invocationId) /\ heard.output \in Proposal /\ heard.output.runes > 0
      BY <1>5 DEF Compose, FarAsItIs, Send
    <2>2. Trusted(task) => Decodes(d)
      BY <2>1, CandidateIsAdmitted DEF Decodes
    <2>3. d.document.preview.resultArtifact = CHOOSE input \in Pinned(task) : TRUE
      BY DEF Candidate
    <2>4. Sound(d)
      BY <2>1, <2>2, <2>3 DEF Sound
    <2> QED
      BY <1>2, <2>1, <2>4
  <1>6. CASE Sign
    <2>1. PICK elapsed \in Elapsed :
              sent' = sent \cup {[to |-> "caller", document |-> Result(task, elapsed)]}
      BY <1>6 DEF Sign, Send
    <2> DEFINE d == [to |-> "caller", document |-> Result(task, elapsed)]
    <2>2. AgentTask(task) /\ usage \in Metered /\ TurnDecision(outcome.decision)
      BY <1>6 DEF Sign, FarAsItIs
    <2>3. Decodes(d)
      BY <2>2, ResultIsAdmitted DEF Decodes
    <2>4. Sound(d)
      BY <2>3 DEF Sound
    <2> QED
      BY <1>2, <2>1, <2>4
  <1> QED
    BY <1>3, <1>4, <1>5, <1>6
       DEF Next, Admit, ReadBrief, HearAnswer, HearRecord, Over, vars

-----------------------------------------------------------------------------
(***************************************************************************)
(* The theorems.                                                           *)
(***************************************************************************)

\* How far a turn is, what it holds and what it sent agree in every state.
THEOREM DocumentsInvariance == Spec => []DInv
  <1>1. Init => DInv
    BY DocumentsInit
  <1>2. DInv /\ [Next]_vars => DInv'
    BY FarAsItIsKept, SentIsSound DEF DInv
  <1> QED
    BY <1>1, <1>2, PTL DEF Spec

\* Whatever is dispatched, proposed and answered, every document that leaves
\* the unit is one its contract admits.
THEOREM Admitted == Spec => []DocumentsAreAdmitted
  <1>1. DInv => DocumentsAreAdmitted
    BY DEF DInv, Sound, DocumentsAreAdmitted
  <1> QED
    BY <1>1, DocumentsInvariance, PTL

\* The preview every candidate attests to is an input of its task, of the
\* identity and the digest the dispatch accepted.
THEOREM PreviewPinned == Spec => []PreviewIsAnInput
  <1>1. DInv => PreviewIsAnInput
    BY PinnedIsAnInput DEF DInv, Sound, PreviewIsAnInput
  <1> QED
    BY <1>1, DocumentsInvariance, PTL

\* Whatever is dispatched, a model is asked only of a context that is whole.
THEOREM BoughtForAReason == Spec => []NothingIsBoughtInVain
  <1>1. DInv => NothingIsBoughtInVain
    BY DEF DInv, Sound, Suffices, Flawed, NothingIsBoughtInVain
  <1> QED
    BY <1>1, DocumentsInvariance, PTL
=============================================================================
