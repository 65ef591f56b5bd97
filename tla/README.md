# Specifications of the Agent Runtime Units

TLA+ models of the two Agent Runtime Units of this repository (the Page Change
Manager and the Page Candidate Specialist) and of the host they share, checked
with TLC and proved about with TLAPS. Paths below are relative to the
repository's root (`runtime/admission.go`, `agents/...`).

## The system

A unit is one process that serves `POST /task`. The control plane dispatches an
`AgentTask` to it; the unit admits it, runs the agent's turn under the task's
own credential, and answers with a signed `AgentRuntimeResult`. It keeps no
database and has no client of its own but the two governed paths.

| component | state | operations | meets |
|---|---|---|---|
| Task handler, slots and drain (`runtime/serve.go`) | slots channel, draining channel, the server's connections | handle one request, close the draining channel, `Shutdown`, report, exit | calls the boundary, the host and the metrics; one goroutine per request |
| Admission boundary (`runtime/admission.go`) | none of its own | `Admit`, `Release`, `Record` | the handler; credential, boundary, register |
| Replay register (`runtime/admission.go`) | `order`, `outcomes`, `pending` under a mutex | `lookup`, `reserve`, `release`, `record` | every handler goroutine at once |
| Metrics (`runtime/metrics.go`) | `inFlight`, counts per label | `AdmittedTask`, `AnsweredTask`, `UnansweredTask`, `Drained` | handlers, the drain |
| Host (`runtime/host.go`, `statement.go`, `signer.go`) | none | `Resolve`: open a session, take the turn, classify, sign | the handler; the agents |
| Session and usage (`runtime/session.go`, `decimal.go`) | the usage and the artifacts of one attempt | `Model`, `SubmitCandidate`, metering | the turn; the two governed paths |
| Governed model path (`runtime/gateway.go`, `client.go`) | none | `Invoke` | the model gateway over HTTP |
| Controlled artifact interface (`runtime/artifacts.go`, `canonical.go`) | none | `SubmitCandidate` | the control plane over HTTP |
| Boundary (`runtime/guard.go`, `unit.go`) | the release manifest, fixed at start | `AllowControlPlane`, `AllowParameters` | host, both clients |
| Task credential (`runtime/credential.go`, `trust.go`) | the trust bundle, fixed at start | `Verify`, `Binds` | `Admit` |
| Supplied context (`runtime/brief.go`) | the task's parameters | `Required`, `Joined`, ... | the turns |
| Page Change Manager, Page Candidate Specialist (`agents/`) | none between tasks | `Decide` | session, brief |
| Startup wiring (`agents/*/main.go`) | none | read the environment, serve or fail | everything, once |

What is hard here: deliveries of one attempt race through a register that is
locked twice per admission and not in between; the draining channel, the slots
and the in-flight count are each read and written at a different moment of a
handler's life; the process may end anywhere, and with it everything the unit
knows; a replica beside it knows nothing of what this one executes; and the
control plane answers late, twice, with another attempt's answer, or never. The
full list, line by line, is under `hazards` in `PROJECT.json`.

What makes each part correct:

* register: bounded, coherent, never both remembering and claiming an attempt,
  never replacing an answer;
* admission: one execution of an attempt at a time; a second execution only
  after the unit gave up what it knew; nobody is answered with work that is not
  theirs; nothing expired is started;
* handler and drain: slots and counts are exact on every path; every delivery
  is answered or lost with the process; a drain ends, and a clean one leaves
  nothing;
* the credential: authority is current, revocable for good, good for one
  attempt, and a clock that is a little wrong costs nobody theirs;
* the turn: nothing leaves that the release does not name; what is recorded
  stands on what was bought for the same attempt; a final decision names what
  was recorded; usage is the attempt's own and complete; however often an
  attempt is executed, and wherever, one decision is bought, one candidate is
  submitted and one verdict is reached;
* the Manager: a run delegates once, a plan's delegation is not passed over, a
  payload fits its contract whatever the model wrote, and the input that is
  delegated arrives whole or as its beginning;
* the Specialist: the page is the one the brief and the proposal determine, in
  whatever order Go ranges over its maps, and whoever is at fault is blamed;
* the documents: each is one its contract admits, on what was checked before it;
* the session: the cost is the exact sum, and what is left out of it is said.

## The modules

| module | what it is |
|---|---|
| `ReplayRegister` | the register: one operator per locked method, instantiated in the step of whoever calls it |
| `TaskUnit` | one unit: every handler goroutine, the slots, the in-flight count, the drain, the crash and the restart |
| `AttemptLedger` | the abstract specification of a unit: an attempt is free, executing or answered, and what a delivery may hear |
| `GovernedTurn` | what an admitted task does: the turn, its two governed calls, and the control plane it makes them to |
| `AttemptWork` | the abstract specification of an attempt: one decision is bought for it, one page kept, one verdict reached |
| `Replicas` | the composition: several replicas' handlers around the turns of `GovernedTurn`, with callers that leave and processes that end |
| `TaskCredential` | the verification of a credential against a trust root, while the time passes and the operator rotates keys |
| `Continuation` | a long text as `key.0`, `key.1`, ..., written by the Manager and read by the brief |
| `Delegation` | the turns of one run of the Manager, and the work one of them delegates |
| `PageComposition` | how the Specialist composes a page out of a brief and a proposal |
| `Contracts` | what the generated bindings decode, for the documents a turn reads and writes |
| `Documents` | the documents of one turn of the Specialist, each built from the ones before it |
| `Session` | what an attempt is reported to have spent |
| `*Proofs` | theorems: `TaskUnitProofs`, `GovernedTurnProofs`, `ReplicasProofs`, `TaskCredentialProofs`, `DocumentsProofs`, `DelegationProofs`, `PageCompositionProofs`, `SessionProofs` |
| `MC*` | the small instances |

`TaskUnit` uses `ReplayRegister` and implements `AttemptLedger`; `Replicas`
extends `GovernedTurn` and takes of a unit what `AttemptLedger` promises;
`GovernedTurn` and `Replicas` implement `AttemptWork` (a theorem, and no run);
`Delegation` extends `Continuation`, and `Documents` extends `Contracts`. The
others stand alone. Operators and actions that are commented as slips are
variants of the definition after them with a plausible mistake in it: no
specification uses one, and each is there to see that the property it breaks
notices.

### TaskUnit and ReplayRegister

`pc[d]` is the next step of the goroutine that serves delivery `d`. A step is
what happens between two accesses to shared state, so each step is atomic in
the program, and every interleaving of steps is one the scheduler can produce:

| action | code |
|---|---|
| `Arrive`, `Gate`, `TakeSlot` | net/http starts the handler; the draining channel is read; a slot is taken or the delivery refused (`serve.go:138-160`) |
| `CheckRequest` | the transport, contract, credential and release checks of `Admit`, one step because each depends on the request alone (`admission.go:158-233`); `Objection` keeps their order |
| `Lookup`, `CheckWindow`, `Reserve` | the first lock, the clock, the second lock (`admission.go:235-283`) |
| `CountAdmitted`, `Resolve` | `AdmittedTask` and the turn, which ends with an answer or an error (`serve.go:181-197`) |
| `CountAnswered`, `RecordAnswer`, `Write` | counted out, recorded, written, in that order (`serve.go:214-223`) |
| `ReleaseClaim`, `CountUnanswered`, `Write` | the same for an execution with no answer (`serve.go:193-212`) |
| `StartDrain`, `BeginShutdown`, `HandlersReturned`, `CloseWindow`, `ReportDrain`, `Exit` | `serveUntilDrained` (`serve.go:59-99`) |
| `Crash`, `Start`, `Tick` | the platform and the clock; external |

`Body` stands for the bytes of a request and for their digest. An answer is
named by the delivery whose execution produced it, which is what lets a property
ask whose work a caller was given. `ran`, `lapses` and `arrived` are history
variables that no guard reads. When a process ends, register, slots and count
end with it and running handlers are `lost`.

`TaskUnit` implements `AttemptLedger` (property `ImplementsLedger`, with its
liveness) under the mapping that reads an attempt's holder off the two maps of
the register and off the handler that holds the claim.

### GovernedTurn

An execution is one call of `host.Resolve`. `AttemptOf` says which attempt it
serves, so that several executions of one attempt stand for a retry after a
crash, a retry after an eviction, and a second replica, all of which share
nothing but the control plane. A turn composes a page (the Specialist), plans a
change (the Manager) or concludes a delegation (the Manager given the state of
one). What its task asks for, what the model may answer, and what an output
means to the turn (`Meaning`: unusable, improper, too large, a page, or one of
the Manager's decisions) are constants: which texts have which meaning is pure
parsing, and any assignment is checked.

| action | code |
|---|---|
| `Open`, `ReadBrief`, `ConcludeDelegation` | `Resolve`, the supplied context, `conclude` (`host.go:84-92`, both `turn.go`) |
| `InvokeModel`, `NoModelAnswer` | `ModelGateway.Invoke`: refused before it is sent, or not answered (`gateway.go:134-187`, `258-279`) |
| `HearModel`, `JudgeAnswer` | an answer of another's is an unavailability; the attempt's own is metered and then judged, but for the one whose output has no canonical form, which is returned as no completion and metered nowhere (`gateway.go:189-228`, `session.go:62-145`) |
| `Plan`, `Compose` | `readPlan` and `resolve`; `readComposition` and `composePage` |
| `Submit`, `HearWrite`, `NoWriteAnswer` | `SubmitCandidate` (`artifacts.go:83-144`, `session.go:84-104`) |
| `Sign` | the statement and its signature, or no result (`host.go:110-185`) |
| `EndContext`, `Crash` | the execution's timeout or its caller gone; the process |
| `Buy`, `Keep` | the gateway and the artifact interface; external |

The control plane is modelled from what the clients rely on: it records one
answer per idempotency key and repeats it. Everything else is adverse. `wire`
only grows, so a request may be served any time later, and more than once; an
execution may hear an answer recorded for any attempt, an answer that names no
invocation, or one whose output is not the attested one; or none. A tampered
answer that keeps the attested digest and carries another output is the case
`Attested` rejects; sha256 is taken to tell outputs apart.

Digests are of canonical bytes, and the library that makes them is not part of
the repository: it may refuse a document, and that error has no type of its own.
`classify` then reports `RUNTIME_INTERNAL_ERROR` (`host.go:308-310`), here
`INTERNAL_ERROR`. Each of the three places where a turn asks it (the request of
an invocation, an answer's output, a candidate) may fail so in any execution
(`InvokeModel`, `JudgeAnswer`, `Submit`), and fail in one execution of an attempt
and not in another, which is more than a deterministic library can do.

`due` is a history variable that no guard reads: the invocation named in the
answer of its attempt's own that an execution had. `UsageIsTheAttemptsOwn` compares
what is metered with it, so that it can tell an answer that was read and not
believed, which has to be metered, from a call that was never answered, which must
not be: the code reports both as `MODEL_UNAVAILABLE`.

### Replicas

A delivery is an execution of `GovernedTurn` that stays idle until a replica
admits it. `ledger[r]` is what replica `r` knows of each attempt, `reply` what a
delivery's caller came to hear.

| action | code |
|---|---|
| `Deliver` (`Admit`, `RefuseOrReplay`) | the whole of `Admit` (`admission.go`), as one step of `AttemptLedger` |
| `Turn` | a step of `GovernedTurn`: `Resolve` and what it calls |
| `Timeout`, `Leave` | the context of the execution ends: the release's timeout, or the caller's request (`serve.go:183-191`) |
| `Finish` (`Settle`, `GiveUp`) | recorded and answered, or the claim given back (`serve.go:192-223`) |
| `Evict` | the answers of other attempts push one out (`admission.go`); external to the attempts modelled |
| `EndReplica` | the process ends, with all it knows |

Here a caller that disconnects is seen to the end: its turn is cancelled, the
failed result is recorded all the same, and the retry is answered with it.
`CallersHearOneVerdict` says how far that may go: only a failure on the way to
the control plane, or for want of a canonical form, is heard by one caller and
not by another.

### TaskCredential

| action | code |
|---|---|
| `Present` | a credential arrives and `Verify` reads the clock (`credential.go`) |
| `Judge` | the trust root is read, the key resolved, the signature and the claims checked, and `bindsTask` (`credential.go`, `trust.go`); one step, because after the reading nothing it depends on can change: the verdict belongs to the moment the root is read |
| `Publish`, `Withdraw` | the operator replaces the trust root, or takes it away; external |
| `Pass` | the time passes, and the clock stays within `Drift` of it, back as well as on; external |

A trust root may be replaced between the two. The one assumption about the
operator is that a secret that was revoked is not listed again.

### Continuation and Delegation

`Decide` is one whole turn of the Manager: `conclude` when the task carries the
state of a delegation, the plan and its judgement otherwise. `Dispatch`, `Route`,
`GoOn` and `Finish` are Agent Service and the Specialist, `Read` is
`Brief.Joined` where the input arrives. A text is a sequence of runes; the
members of a map are the indexes they spell and how they spell them, because
`strconv.Atoi` reads `01` and `+1` as 1 while the reading looks up `key.1`. The
input may lose any of its members on the way and gain members the Manager did
not write. What is assumed of Agent Service is that a run that delegated
supplies the delegation's state from then on; everything else it supplies may
be missing or wrong, and the reason of a work that was refused may be too long
for a payload.

### PageComposition

`Read`, `Hear`, `BeginSection`, then `ApplyData`, `ApplyProperties` and
`ApplyProposed`, one property a step in any order, `FinishSection` and `Deliver`
(`page.go`). Each of the three stages may stop the composition, with whichever
fault is met first; the properties say which of the faults may be reported, and
that a page that is delivered does not depend on the order.

### Contracts and Documents

A document is a record, and a type of the bindings is the predicate of what its
decoder admits. Texts are the patterns they match, a length and a name.
`Documents` builds each document of a turn from the ones before it: `Admit`,
`ReadBrief`, `Ask`, `HearAnswer`, `Compose`, `HearRecord` and `Sign` follow
`Decide` of the Specialist and `Resolve` of the host. The unit validates nothing
it sends, so that its documents are admitted rests on everything that was
checked earlier: `DocumentsAreAdmitted`. Its premise, `Trusted`, names what is
checked nowhere: an attempt identity of at most 114 characters, the type of the
target and the version of the model policy.

### Session

`Model` with `meterModel` and the decimal accumulator, `SubmitCandidate`, `Note`,
and `Report`, the usage and the diagnostics of the result (`session.go`,
`decimal.go`, `host.go:369-377`). An amount is a text, so that the conversion to
and from a scaled integer is modelled by what it does; `CostIsTheExactSum` compares
it with arithmetic over the smallest unit any of the costs names. It says of the spelling
what the contract's pattern says, and nothing of its length: the sum of costs that fit may
not (see the remarks).

## The runs

Every passing run explores its whole state space.

| run | bounds | states | what it asks |
|---|---|---|---|
| `core` | 3 deliveries, 2 attempts, 2 bodies under one, register of 1, 2 slots, clock 0..1, one life; symmetry | 802,498 | the safety of races through gate, slots, register, drain and crash |
| `live` | 2 deliveries, 2 lives, 5 bodies, every way a request is refused, no symmetry | 109,997 | liveness, the refinement of the ledger, and that whoever is answered is entitled to it, across a restart |
| `shared` | 2 executions of one attempt and 1 of another, each composing or planning, 2 outputs that are pages; symmetry | 2,585,088 | what shared executions must agree on, before a control plane that answers late, twice, falsely or never |
| `replicas` | 2 deliveries of 1 attempt at 2 replicas; every turn, brief, delegation and release, 16 tasks in all; 3 meanings of an output | 772,116 | one verdict for all callers, what leaves the unit, and that every caller is answered |
| `credential` | 1 verification at a time, 5 credentials, 3 tasks, 6 roots, 2 keys, skew up to 1, drift 1, time 0..5 | 743,390 | authority at both ends of every interval, rotation and revocation |
| `delegation` | 3 turns, plans of up to 3 steps where 2 are allowed, texts of up to 7 runes where a value holds 2 and a map 5 members, reasons missing, short and too long | 1,125,952 | one delegation, its input, its end |
| `page` | up to 3 sections where 2 are allowed, 2 components, 4 names, every kind of default and proposal | 58,404 | what is delivered, and who is blamed |
| `documents` | one flaw at a time, and everything at its bound; prose on both sides of every bound, in runes and in bytes | 1,689 | every document is admitted where it goes |
| `session` | 3 calls, 2 currencies, 9 amounts, 2 notes, 3 diagnostics | 185,112 | the sum and what is said of it |

Why these bounds are enough for what is asked. Two deliveries of one attempt are
the race the register is for, and a third, of another attempt, is what evicts or
fills the slots; a register of one answer makes every second answer evict. A
clock of two instants puts the closing of a window before, between and after a
delivery's steps. Two lives are one restart, which may come upon a claim, an
answer or both. In `GovernedTurn` two executions suffice for everything said of a
pair of executions, and the third, of another attempt, supplies the answers and
records that are not theirs. The intervals of `credential` are one and two
moments long with two or more on either side, so that each end is met from
within, from without and through a clock that is off by one. Three turns are one
that delegates, one that could again while the work is running or lost, and one
that concludes. Sections are composed one
after the other out of the same brief, so that two show whatever one can leave
for the next. The safety properties that are proved below do not depend on the
bounds at all.

Two things no run meets and the proofs cover. A register of one answer evicts the
oldest because it has no other; that it is the oldest of several that goes, and
that no other answer is disturbed, is `AnswersStayPut`, for any limit. And no run
has an output that makes a page too large to submit: it ends before anything is
sent, and the theorems about `GovernedTurn` and `Replicas` hold for any `Meaning`.

Bounds that the code does not have: `Horizon` on the clock, `MaxStarts` on lives,
`MaxTurns` on the turns of a run, `CallBound` and `NoteBound` on a session. The
others (`Limit`, `MaxConcurrency`, `MaxSkew`, `MaxKeys`, `ValueBound`,
`MemberBound`, `StepBound`, `DiagnosticBound`) are the code's own and only made
small. In `Documents` the code's bounds are as they are, but for `Largest`:
TLC's integers are 32 bits wide, so the run takes 2,000,000,000 for 2^53 - 1.
`SYMMETRY` permutes deliveries or executions that are alike, in runs of safety
properties only. Deadlock is checked in every run; `Ended`, `AllEnded`,
`AllServed`, `Over` and `Reported` are the states in which nothing need happen.

Three runs expect a violation. Each refutes something the repository says:

| run | what is said | what happens |
|---|---|---|
| `expired` | answered work "is answered again rather than reported as expired" (`admission.go:156-157`) | a retry whose lookup missed is refused as expired although the answer was recorded meanwhile |
| `deadline` | an exceeded deadline is classified as one (`host.go:297-306`) | both clients wrap it, and it is reported as an unavailable model |
| `malformed` | "a malformed dispatch is refused with a coded reason instead of travelling into a document that will fail validation somewhere later" (`brief.go:257-259`) | the version of the model policy and the type of the target are read with `Required` alone, and travel into the invocation and the candidate |

The first two are no error of state: no attempt is executed twice at a time or
given work that is not its own. In the third the decision is bought, or the page
is composed, for an attempt whose document cannot be accepted.

## Fairness

`TaskUnit`: weak fairness of each delivery's `Step` (the Go scheduler runs a
ready goroutine; `Resolve` returns because its context has the release's timeout
and every call in it honours that context, `serve.go:183-191`, `client.go:8-25`)
and of `Drain` (its wait has a timer, `serve.go:85-87`). Arrivals, signals,
crashes, restarts and the clock are promised nothing.

`GovernedTurn` and `Replicas`: weak fairness of each execution's `Work`, and of
`Serve` around it, for the same reason: a handler is one goroutine, and
`NoModelAnswer` and `NoWriteAnswer` stand for the timeout among other things, so
a next step is always there. The control plane, the callers and the platform are
promised nothing, so `EveryCallerIsAnswered` holds against a control plane that
never answers.

The other modules state no fairness: what they are asked is safety.

## What is proved

All for every value of the constants, under the assumptions the modules name:
bounds that are positive or natural numbers, finitely many deliveries, functions
and sets of the right types, `None` apart from the values it is the absence of,
deliveries apart from refusals, artifacts told apart by their identity and their
content, and in `Documents` a signer's key name and turns no longer than a result
can carry (`DeploymentAssumption`). `StrayAssumption` says what a stray member of a map is:
one that no continuation has, whose index is misspelled or no index at all; a forged chunk
is not one, and nothing tells it from a real one. That a text is a sequence and that `None` is
no record (`TextAssumption`, `ProposalAssumption`, `ApartAssumption`,
`OutcomeAssumption`, `HolderAssumption`, `TotalAssumption`) restricts no program: TLA+ has no types,
and the provers have to be told. Every safety property of the runs is a
theorem.

**TaskUnitProofs** (from the lemmas on the register's operators on): `Spec => []IInv`, and from it the types, the register's
coherence, one execution of an attempt at a time, faithful answers, exact
counters, and that an answer is never replaced (`AnswersStayPut`). One execution
at a time is kept by `Reserve` only if a claim is never lost while its handler
runs, which needs the register to be coherent (an answered attempt is not
claimed) and each claim to have exactly the handler that holds it; a replay is
faithful only if what is remembered was produced by that attempt and those
bytes, which `RecordAnswer` keeps because a handler's claim carries its own
bytes; and that the replayed caller is entitled needs `HandlersFollowTheOrder`,
which says that whoever reaches the register passed every check before it. The
counters are cardinalities, and each step moves at most one delivery in or out
of the sets they count.

Four more invariants stand on `IInv`, each inductive beside it: that a reuse is
never claimed falsely (`ReuseIsNeverClaimedFalsely`), because what ran stays in
the history and what the register holds did run; that expired work never starts
(`ExpiredWorkIsRefused`), because a handler past the clock's check was inside the
window then; that a clean drain leaves nothing (`CleanDrainsLeaveNothing`), because
`Shutdown` returns in time only when no handler is left and none arrives after;
and that executions are accounted for (`ExecutionsAreAccountedFor`), because every
execution but the first of an attempt was preceded by a lapse of what was known.

The unit implements the safety of `AttemptLedger` (`UnitImplementsTheLedger`): its
first state is one of the ledger's and every step is one of the ledger's or leaves
what the ledger shows alone. The mapping reads an attempt's holder with a `CHOOSE`
of the delivery that holds the claim; `IInv` says there is one and no other, and
`HoldersAreShown` replaces the choice by that once, before and after a step.
Most steps are quiet. An answer is the step that is not: the attempt it evicts is
in the register by `RegisterCoherent`, and the register is full exactly when the
ledger has as many answers as it remembers, because its order lists each of them
once (`RememberedAreListed`, an equality of a length and a cardinality).
`NothingIsSaidEarly`, inductive beside `IInv`, is needed for a delivery to be given
one answer.

**GovernedTurnProofs**: `Spec => []IInv`, and from it the types, that a decision is
bought once, that one candidate is submitted per attempt, that records stand on
what was bought, that a final page is recorded, that usage is the attempt's own
and that only released calls leave. An execution accepts any reference that is
about the document it sent, and compares neither the attempt nor the name. That
the reference is its own attempt's follows because a document holds the name of
the invocation it stands on and names are the attempts'
(`NamesAndSubmissionsAreTheAttempts`); that the document sent is the one the
purchase determines follows from the turn's order (`TurnsFollowTheOrder`). The
argument for a step is made once: it disturbs what is said of the execution that
takes it alone (`OthersStandStill`), and what the control plane has is never
taken back (`ControlGrows`).

That usage is the attempt's own (`UsageIsOwn`) is said of an answer and not of a
reason. `TurnsFollowTheOrder` says that nothing is due before an answer was heard,
and `DueIsSettled` that the step which hears one settles it for good. An answer is
due when it is to the attempt; every answer that names an invocation names the one
bought for the attempt it is to (`NamesAndSubmissionsAreTheAttempts`); and each
branch of `JudgeAnswer` meters it but the one for which no canonical form exists,
whose result is an internal error and is never replaced. What an execution accepted
is then always metered, and an execution that metered nothing decided nothing, unless
it concluded a delegation.

Also there: two executions of one attempt that both reach a verdict reach the
same one (`VerdictsAreOne`). The strengthening, `VerdictsAreDetermined`, says
what a verdict is a function of: the task, and what was bought for the attempt.
Two executions share both.

The executions implement `AttemptWork` (`TurnsDoTheAttemptsWork`): seen from outside,
an attempt is worked on once. The mapping shows of an attempt what was bought and
recorded for it and the set of what its executions came to, failures on the way to
the control plane and internal errors left out; the abstract specification lets each set gain one member
and no more. A second execution's verdict is then a stutter, which `VerdictsAgree`
says it can be, and the first one's is a step: the task and the purchase determine it,
and a page it names is in the record by `FinalNamesWhatWasRecorded`. That a verdict is
never taken back needs `ResultsComeLast`, inductive beside the rest. What the
gateway and the artifact interface contribute is the rule of `Buy` and `Keep`, that a
name is recorded once; that the two calls of an attempt always carry its names, and
one document, is the unit's doing.

**ReplicasProofs**: every step of the replicas is a step, or a stutter, of the
turns (`ReplicasRunTurns`), so all that is proved of `GovernedTurn` holds of the
composition. `ClaimsAreHeld`, that whatever runs holds its replica's claim and
whatever is remembered returned, gives one execution of an attempt at a replica
(`OneAtAReplica`); with the verdicts determined it gives one verdict to all
callers (`OneVerdictIsHeard`), whether they are answered by an execution or from
a register. The replicas implement `AttemptWork` because the turns do
(`ReplicasDoTheAttemptsWork`).

**TaskCredentialProofs**: `Spec => []IInv`, where `JudgedAsRead` keeps what a verdict
followed from after the root has changed, `AdmittedAsBound` what every admission
was bound to, and `RetiredIsUnlisted` that a revoked secret is in no root in force.
From it authority that is current, drift that is forgiven, one attempt to a
credential, and that revocation is final as an action property.

**DocumentsProofs**: `Spec => []DInv`, where `FarAsItIs` says how much was checked by
the step the turn is at, and `Sound` that each document sent carries what it was
built from. From it: documents are admitted by their contracts, a preview is an
input of the task, and nothing is bought for an attempt its dispatch had failed.
The arithmetic of the bounds (a summary cut to whole bytes, a warning for each
default, usage of one call) is in the lemmas.

**DelegationProofs**: `Spec => []IInv`. A turn remembers nothing, so what holds of a
run is carried by what its turns are given: `TasksFollowTheWork` says that a task
without the state of a delegation was dispatched before there was one, and
`OutcomesFollowTheTask` that a turn that may delegate had no such state. Together
they give `DelegatesOnce`. `FinalsAreDelegated` needs that a task that says its work
completed pins nothing but what it produced; `DelegationsAreCarriedOut` is about the
plan alone, and `PayloadsFitTheContract` about what is left of a payload once its
empty members are left out (`DecidedIsWellFormed`), for chunks are texts
(`ChunksAreTexts`) and so are the members of one map beside another.

That a continuation is read from its beginning (`InputsAreReadFromTheirBeginning`) is
about texts of any length. The induction is replaced by the least element of a set of
naturals (`LeastNatural`, from the well-foundedness of the naturals): the first position
at which something fails is never one. `FlattenSeq` is a recursive function, and what it
is equal to is shown by giving a solution of its recursion and showing that there is no
other (`FlattenedIsJoined`); the order `Indexes` chooses exists, because each member has
a rank (`MembersHaveAnOrder`). `LongTexts` puts them together: the chunks before the first
lost one are the ones that are read, and if as many arrived as the text has, none is
lost. `InputIsOnItsWay` and `InputIsReadAsItCame`, inductive beside `IInv`, carry that to
where the input is read.

**PageCompositionProofs**: `Spec => []IInv`. At each stage the invariant says what the
names that were read so far have made of the section, as a function of the brief and
the proposal, with the names that are left taken out of the map they come from
(`IsRead`); reading one name more is `WriteOne`. As no order is left in it, the page at
the end is the one `PageAsDetermined` names. That two blocks have names of their own is
the position in them. A fault is found where it is by definition of the two sides
(`BriefAtFault`, `ProposalAtFault`), and its absence at the end is collected section by
section in `SectionsAreMade`.

**SessionProofs**: the cost is the exact sum (`CostIsExact`). `SpentIsTheTotal` says that
the accumulator holds the total of the costs metered in the attempt's currency, at the
finest scale of any of them; bringing two amounts to a common scale keeps it, because a
total comes to ten times as much in the next smaller unit (`TotalIsRefined`). What is
printed spells what was accumulated: the digits are the remainders of the quotients by
powers of ten (`DigitsSpell`), cutting them at the point and leaving out the zeros at the
end changes nothing (`PartsOfDigits`, `NumberOfZeros`), and the first is a zero only when
it is alone before the point (`PrintedIsCanonical`). Powers, numbers and totals are
recursive functions; that they exist is `SequenceExists`, which builds a sequence out of
its beginnings, and is stated for a step that is a function, as the provers take none
that is an operator.

Beside it `Spec => []IInv`, where `NotesTellTheConflicts` says that a conflict is
noted exactly when a metered cost has another currency than the first. A result that
has no room for the note carries as many diagnostics as it may
(`BoundedKeepsTheFirst`), and an amount the contract lets through is one the
accumulator reads (`DecodedIsReadable`).

## What is only model-checked

* Liveness (`EveryDeliveryIsAnswered`, `ClaimsAreGivenBack`, `DrainEnds`,
  `EveryCallerIsAnswered`) and of `ImplementsLedger` the part that states fairness,
  that no attempt is held for ever: fairness and `ENABLED` are out of the prover's
  reach.

The proofs do without the library's theorems of induction, whose parameter is an
operator: where an induction is needed it is one over the least element of a set.

## What is not modelled

* The bytes: canonical JSON, digests, signatures, schemas and prompts. Where a
  property depends on one, the dependence is modelled (digests tell bytes apart;
  a document is what it is built from; a credential is what its text proves).
* Most of `contracts/generated`: 18,090 of the 22,801 lines of Go under `runtime`, `agents`
  and `contracts` are bindings generated from schemas. `Contracts` has the
  decoders of the documents a turn exchanges. The other types are of services
  these units are not, and nothing here calls them.
* The startup wiring (`agents/*/main.go`, `NewUnit`, the parsing of manifests, keys and
  origins): it reads the environment once and serves or fails, with no state
  after it and nothing beside it. `/healthz`, `/readyz`, and the labels of the metrics.
* Panics in a turn: net/http recovers them, and the claim and the count would
  stay. No input is known to cause one.
* The root of trust being replaced while a credential is judged against it: the
  unit reads the file once and judges what it read.
* A call's cost without a currency: the code adds it to the total
  (`session.go:126-139`), and the contract, whose pattern is three letters, admits no
  such answer.
* The diagnostics, the cost and the status of a result, and the members of it that
  nothing the turn read flows into: `Documents` builds and checks the result without
  them. What a diagnostic and a cost hold is in `Session`.
* How long things take: a slow body holds a slot for up to the read timeout.
* The Specialist as Agent Service dispatches it is a task like any other; that its
  candidate is the artifact the Manager is given back is Agent Service's doing.

## Remarks

Met while modelling. No run refutes a claim here, and no property depends on one:

* An invocation is metered "whose output could not be believed" (`session.go:67-70`),
  but not one whose output has no canonical form: `Invoke` then returns an empty
  completion (`gateway.go:217-220`), although the one two lines on, for a digest that
  differs, carries its usage. Whether the library can refuse an output that was just
  decoded is not settled by this repository, so the path is in the model and in
  `UsageIsTheAttemptsOwn`, and no run calls it a violation.
* A draining unit admits a delivery that read the channel before it closed
  (`serve.go:144`; the comment above it says it admits nothing new). The drain
  waits for it.
* The drain's report misses tasks that are claimed and not yet counted, or counted
  out and not yet written (`serve.go:214`, `metrics.go:94-96`).
* The README lists the replay before the credential (`README.md:39-57`); `Admit`
  checks the credential first (`admission.go:220`).
* A failed write is reported as not recorded (`artifacts.go:118`, `153-154`), also
  when the record was made and its answer lost. A retry submits the same
  document under the same name.
* An idempotency key is longer than its contract's 128 characters for attempts of
  more than 114 (`canonical.go:34`).
* The names of signing keys may have 257 to 273 characters, which a result cannot
  carry, and a release may bound a turn at more than a result can report.
* A property named `animation` or `id` in a brief is overwritten by `composePage`.
* `DEFAULTS_APPLIED` is said whenever a default was read, also when everything it
  set was overwritten by the proposal (`page.go:277`, `319`).
* `key.01` fills the gap that a lost `key.1` leaves: the indexes are contiguous and
  the value found under `key.1` is empty (`brief.go:90`, `README.md:144-145`).
  `LossesShortenTheInput` excludes such a member.
* Cutting prose to a bound in bytes may split a rune (`bound` in the Specialist).
* A recorded artifact's lifecycle and producer are not compared with anything
  (`artifacts.go`).
* A total is said to be "rendered back at that scale" (`decimal.go:14-16`), and is
  printed without the zeros at its end, as `decimal_test.go` has it.
* A sum of costs may be spelled with more characters than the contract's 96.

## Plan

The Manager's documents beside the Specialist's, and the decoders nested in
`AgentTask` that `others` stands for.
