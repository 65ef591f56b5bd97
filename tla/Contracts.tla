----------------------------- MODULE Contracts -----------------------------
(***************************************************************************)
(* What the generated bindings of contracts/generated decode, for the      *)
(* documents a turn reads and writes: a document is decoded when it has    *)
(* the members its type names, each within its bounds, and no other        *)
(* (rejectUnknownJSONFields refuses what is unknown, repeated or null).    *)
(*                                                                         *)
(* A text is a record of the patterns it matches (as), of its length in    *)
(* runes, and of a name that tells two texts of one form apart; prose has  *)
(* runes alone.  Kinds, and the enumerations whose values the code never   *)
(* reads, are left out.                                                    *)
(***************************************************************************)
EXTENDS Integers, Sequences, FiniteSets

CONSTANT Largest  \* the largest integer a document may carry, 2^53 - 1

ASSUME LargestAssumption == Largest \in Nat

Is(text, pattern, low, high) ==
    pattern \in text.as /\ text.runes \in low..high
Within(n, low, high) == n \in low..high
HasOnly(document, members) == DOMAIN document = members

OpaqueId(v) == Is(v, "opaque", 1, 128)
Digest(v) == Is(v, "digest", 71, 71)

LargestArtifact == 1073741824
LongestDuration == 3600000

BoundedStringMap(map) ==
    /\ Cardinality(DOMAIN map) <= 32
    /\ \A member \in DOMAIN map : map[member].runes <= 1024

ArtifactReference(r) ==
    /\ HasOnly(r, {"artifactId", "digest", "mediaType", "sizeBytes"})
    /\ OpaqueId(r.artifactId) /\ Digest(r.digest) /\ Is(r.mediaType, "media", 3, 128)
    /\ Within(r.sizeBytes, 0, LargestArtifact)

DefinitionReference(r) ==
    /\ HasOnly(r, {"definitionId", "definitionDigest"})
    /\ OpaqueId(r.definitionId) /\ Digest(r.definitionDigest)

ContractBomReference(r) ==
    /\ HasOnly(r, {"bomDigest", "evidenceManifestDigest", "ociManifestDigest", "repository"})
    /\ Digest(r.bomDigest) /\ Digest(r.evidenceManifestDigest) /\ Digest(r.ociManifestDigest)
    /\ Is(r.repository, "repository", 1, 256)

PolicyReference(r) ==
    /\ HasOnly(r, {"policyId", "version", "digest"})
    /\ OpaqueId(r.policyId) /\ Is(r.version, "version", 1, 64) /\ Digest(r.digest)

TargetReference(r) ==
    /\ HasOnly(r, {"targetType", "targetId", "workspaceId", "projectId"})
    /\ Is(r.targetType, "type", 1, 64)
    /\ OpaqueId(r.targetId) /\ OpaqueId(r.workspaceId) /\ OpaqueId(r.projectId)

Idempotency(i) ==
    /\ HasOnly(i, {"scope", "key", "canonicalRequestDigest"})
    /\ Is(i.key, "opaque", 1, 128) /\ i.scope = "attempt-and-operation"
    /\ Digest(i.canonicalRequestDigest)

TraceContext(t) == HasOnly(t, {"traceparent"}) /\ Is(t.traceparent, "parent", 55, 55)

\* Five numbers, told apart here by nothing but whether all are in their bounds.
ResourceLimits(l) == HasOnly(l, {"inBounds"}) /\ l.inBounds

\* What every document about an attempt says of it.
AboutAnAttempt(d) ==
    /\ OpaqueId(d.taskId) /\ OpaqueId(d.physicalAttemptId) /\ TraceContext(d.traceContext)
    /\ Within(d.attemptNumber, 1, 1000000) /\ Within(d.executionGeneration, 0, Largest)

\* Its other members are one, "others": nothing below passes them on.
AgentTask(t) ==
    /\ HasOnly(t, {"taskId", "runId", "rootRunId", "physicalAttemptId", "attemptNumber",
                   "executionGeneration", "leaseEpoch", "fenceToken", "definition",
                   "contractBomReference", "limits", "traceContext", "artifactInputs",
                   "parameters", "others"})
    /\ AboutAnAttempt(t) /\ OpaqueId(t.runId) /\ OpaqueId(t.rootRunId)
    /\ Within(t.leaseEpoch, 0, Largest) /\ Is(t.fenceToken, "fence", 16, 512)
    /\ DefinitionReference(t.definition) /\ ContractBomReference(t.contractBomReference)
    /\ ResourceLimits(t.limits) /\ BoundedStringMap(t.parameters) /\ t.others.inBounds
    /\ Len(t.artifactInputs) <= 32
    /\ \A i \in DOMAIN t.artifactInputs : ArtifactReference(t.artifactInputs[i])

ModelInvocationRequest(r) ==
    /\ HasOnly(r, {"taskId", "runId", "rootRunId", "physicalAttemptId", "attemptNumber",
                   "executionGeneration", "definition", "modelPolicy", "contextDigest",
                   "promptDigest", "limits", "traceContext", "contractBomReference",
                   "idempotency"})
    /\ AboutAnAttempt(r) /\ OpaqueId(r.runId) /\ OpaqueId(r.rootRunId)
    /\ DefinitionReference(r.definition) /\ PolicyReference(r.modelPolicy)
    /\ Digest(r.contextDigest) /\ Digest(r.promptDigest) /\ ResourceLimits(r.limits)
    /\ ContractBomReference(r.contractBomReference) /\ Idempotency(r.idempotency)

ModelInvocationUsage(u) ==
    /\ HasOnly(u, {"inputTokens", "outputTokens", "others"}) /\ u.others.inBounds
    /\ Within(u.inputTokens, 0, Largest) /\ Within(u.outputTokens, 0, Largest)

\* Its output is a bounded map, read as one proposal.
ModelInvocationResult(r) ==
    /\ HasOnly(r, {"taskId", "physicalAttemptId", "attemptNumber", "executionGeneration",
                   "invocationId", "outcome", "reasonCode", "output", "outputDigest",
                   "usage", "traceContext"})
    /\ AboutAnAttempt(r) /\ OpaqueId(r.invocationId) /\ r.outcome \in {"ok", "refused"}
    /\ Is(r.reasonCode, "reason", 3, 64) /\ Digest(r.outputDigest)
    /\ ModelInvocationUsage(r.usage)

PageCandidateDigests(d) ==
    /\ HasOnly(d, {"targetDigest", "catalogDigest", "policyDigest", "definitionDigest",
                   "contractBomDigest"})
    /\ \A member \in DOMAIN d : Digest(d[member])

\* Assumptions and warnings are counted.
PageCandidateGeneration(g) ==
    HasOnly(g, {"summary", "assumptions"}) /\ g.assumptions <= 32
    /\ Within(g.summary.runes, 1, 2048)

PageCandidatePreview(p) ==
    HasOnly(p, {"taskId", "resultArtifact"}) /\ OpaqueId(p.taskId)
    /\ ArtifactReference(p.resultArtifact)

PageCandidateReferences(r) ==
    /\ HasOnly(r, {"modelInvocations", "toolInvocations", "delegations", "evidence"})
    /\ Len(r.modelInvocations) <= 64 /\ Len(r.toolInvocations) <= 64
    /\ Len(r.evidence) <= 64 /\ Len(r.delegations) <= 32
    /\ \A i \in DOMAIN r.modelInvocations : OpaqueId(r.modelInvocations[i])

PageCandidate(c) ==
    /\ HasOnly(c, {"target", "baseRevision", "pageData", "digests", "validationReceipts",
                   "preview", "generation", "references", "warnings", "candidateDigest"})
    /\ TargetReference(c.target) /\ OpaqueId(c.baseRevision) /\ Digest(c.candidateDigest)
    /\ ArtifactReference(c.pageData) /\ PageCandidateDigests(c.digests)
    /\ PageCandidatePreview(c.preview) /\ PageCandidateGeneration(c.generation)
    /\ PageCandidateReferences(c.references)
    /\ Len(c.validationReceipts) <= 16 /\ c.warnings <= 32

ArtifactLocation(l) ==
    /\ HasOnly(l, {"mediaType", "sizeBytes", "others"}) /\ l.others.inBounds
    /\ Is(l.mediaType, "media", 3, 128) /\ Within(l.sizeBytes, 0, LargestArtifact)

\* Where it came from and what it was validated by is never read.
AgentArtifact(a) ==
    /\ HasOnly(a, {"artifactId", "digest", "reference", "others"})
    /\ OpaqueId(a.artifactId) /\ Digest(a.digest) /\ a.others.inBounds
    /\ ArtifactLocation(a.reference)

TurnDecision(d) ==
    /\ HasOnly(d, {"decision", "payload", "artifactOutputs"})
    /\ BoundedStringMap(d.payload) /\ Len(d.artifactOutputs) <= 8
    /\ \A i \in DOMAIN d.artifactOutputs : ArtifactReference(d.artifactOutputs[i])

ResultUsage(u) ==
    /\ HasOnly(u, {"modelCalls", "toolCalls", "inputTokens", "outputTokens",
                   "durationMilliseconds"})
    /\ Within(u.modelCalls, 0, 10000) /\ Within(u.toolCalls, 0, 10000)
    /\ Within(u.inputTokens, 0, Largest) /\ Within(u.outputTokens, 0, Largest)
    /\ Within(u.durationMilliseconds, 0, LongestDuration)

ResultSignature(s) ==
    /\ HasOnly(s, {"keyId", "statementDigest", "signature"})
    /\ Is(s.keyId, "key", 20, 256) /\ Digest(s.statementDigest) /\ Within(s.signature, 86, 512)

AgentRuntimeResult(r) ==
    /\ HasOnly(r, {"taskId", "runId", "rootRunId", "physicalAttemptId", "attemptNumber",
                   "executionGeneration", "leaseEpoch", "fenceToken", "reasonCode",
                   "turnDecision", "usage", "traceContext", "signature"})
    /\ AboutAnAttempt(r) /\ OpaqueId(r.runId) /\ OpaqueId(r.rootRunId)
    /\ Within(r.leaseEpoch, 0, Largest) /\ Is(r.fenceToken, "fence", 16, 512)
    /\ Is(r.reasonCode, "reason", 3, 64) /\ TurnDecision(r.turnDecision)
    /\ ResultUsage(r.usage) /\ ResultSignature(r.signature)
=============================================================================
