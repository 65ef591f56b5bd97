---------------------------- MODULE MCDocuments ----------------------------
(***************************************************************************)
(* Dispatches for TLC: one that is as it should be, and those that differ  *)
(* from it in one key, one input, one bound or one identity.               *)
(***************************************************************************)
EXTENDS Documents, TLC

T(as, runes, name) == [as |-> as, runes |-> runes, name |-> name]
Id(name) == T({"opaque", "version"}, 20, name)
Hash(name) == T({"digest"}, 71, name)
Media == T({"media"}, 16, "image")

Good ==
    [key \in DOMAIN Needs |->
        CASE key = "targetType" -> T({"type", "opaque"}, 4, "page")
          [] key = "modelPolicyVersion" -> T({"version", "opaque"}, 3, "v1")
          [] Needs[key] = "opaque" -> Id(key)
          [] Needs[key] = "digest" -> Hash(key)
          [] Needs[key] = "media" -> Media
          [] Needs[key] = "number" -> T({"number", "opaque"}, 3, "size")
          [] Needs[key] = "document" -> T({"document"}, 1024, "constraints")]

Input(id, digest) ==
    [artifactId |-> Id(id), digest |-> Hash(digest), mediaType |-> Media, sizeBytes |-> 512]
Preview == Input("previewId", "previewDigest")

Dispatch ==
    [taskId |-> Id("task"), runId |-> Id("run"), rootRunId |-> Id("root"),
     physicalAttemptId |-> Id("attempt"), attemptNumber |-> 1, executionGeneration |-> 0,
     leaseEpoch |-> 0, fenceToken |-> T({"fence"}, 16, "fence"),
     definition |-> [definitionId |-> Id("definition"), definitionDigest |-> Hash("definition")],
     contractBomReference |->
        [bomDigest |-> Hash("bom"), evidenceManifestDigest |-> Hash("evidence"),
         ociManifestDigest |-> Hash("oci"), repository |-> T({"repository"}, 40, "repository")],
     limits |-> [inBounds |-> TRUE], traceContext |-> [traceparent |-> T({"parent"}, 55, "trace")],
     artifactInputs |-> <<Preview>>, parameters |-> Good, others |-> [inBounds |-> TRUE]]

With(parameters) == [Dispatch EXCEPT !.parameters = parameters]
Without(f, key) == [k \in DOMAIN f \ {key} |-> f[k]]
Blank == T({"blank"}, 1, "blank")
Junk == T({}, 20, "junk")
Unchecked == {"targetType", "modelPolicyVersion"}

FlawedDispatches ==
    {With(Without(Good, key)) : key \in DOMAIN Needs}
    \cup {With([Good EXCEPT ![key] = Blank]) : key \in DOMAIN Needs}
    \cup {With([Good EXCEPT ![key] = Junk]) : key \in DOMAIN Needs \ Unchecked}
    \cup {With([Good EXCEPT ![key].runes = 129]) : key \in {"targetId", "modelPolicyId"}}
    \cup {With(Good @@ [delegate |-> Junk])}

\* The one identity twice, and the other digest first.
InputLists ==
    {<<>>, <<Input("previewId", "other")>>, <<Input("other", "previewDigest")>>,
     <<Input("previewId", "other"), Preview>>, <<Preview, Input("previewId", "other")>>,
     <<Input("other", "other"), Preview>>, [i \in 1..33 |-> Preview]}

\* Everything at its bound, as far as the unit can write it down.
AtItsBounds ==
    [Dispatch EXCEPT !.attemptNumber = 1000000, !.executionGeneration = Largest,
        !.leaseEpoch = Largest, !.fenceToken.runes = 512, !.taskId.runes = 128,
        !.runId.runes = 128, !.rootRunId.runes = 128, !.physicalAttemptId.runes = 114,
        !.parameters["previewSize"].runes = 10, !.parameters["previewMedia"].runes = 129]

Malformed ==
    {With([Good EXCEPT ![key] = Junk]) : key \in Unchecked}

MCDispatched ==
    {Dispatch, AtItsBounds} \cup FlawedDispatches \cup Malformed
    \cup {[Dispatch EXCEPT !.artifactInputs = inputs] : inputs \in InputLists}
    \cup {[Dispatch EXCEPT !.attemptNumber = n] : n \in {0, 1000001}}
    \cup {[Dispatch EXCEPT !.leaseEpoch = Largest + 1], [Dispatch EXCEPT !.others.inBounds = FALSE],
          [Dispatch EXCEPT !.parameters["constraints"].runes = 1025],
          [Dispatch EXCEPT !.physicalAttemptId.runes = 115],
          With(Good @@ [k \in {ToString(i) : i \in 1..14} |-> Junk])}

P(runes, width) ==
    [runes |-> runes, width |-> width, assumptions |-> 1, warnings |-> 0, pageBytes |-> 400,
     oversized |-> FALSE]
MCProposal ==
    {P(0, 1), P(1, 1), P(1024, 1), P(1025, 1), P(2049, 1), P(683, 3), P(513, 4),
     [P(40, 1) EXCEPT !.assumptions = 33, !.warnings = 2], [P(40, 1) EXCEPT !.oversized = TRUE]}

MCStranger == Id("stranger")
MCKeyId == T({"key"}, 32, "key")
MCElapsed == {0, 3600000}
=============================================================================
