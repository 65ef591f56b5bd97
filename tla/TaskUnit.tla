------------------------------ MODULE TaskUnit ------------------------------
(***************************************************************************)
(* One Agent Runtime Unit as the control plane meets it: the /task handler *)
(* of runtime/serve.go, the admission boundary of runtime/admission.go,    *)
(* the slots and the in-flight count it keeps, and the drain and the       *)
(* restart of its process.                                                 *)
(*                                                                         *)
(* net/http runs one goroutine per request.  A delivery is one request;    *)
(* pc holds the next step of its goroutine, and each step is what happens  *)
(* between two accesses to shared state: the draining channel, the slots   *)
(* channel, the register's lock, the metrics lock, the clock.  What the    *)
(* agent's turn does inside Resolve is a choice of its two endings.        *)
(***************************************************************************)
EXTENDS ReplayRegister, FiniteSets

CONSTANTS
    AttemptOf,       \* the attempt a body's task names
    FlawOf,          \* what is wrong with a body, "none" when nothing is
    ExpiresAt,       \* when the admission window of a body's task closes
    Request,         \* the requests that may arrive
    MaxConcurrency,  \* manifest.execution.maxConcurrency
    Horizon,         \* bound on the clock
    MaxStarts        \* bound on the lives of the process

Flaw == {"none", "contract", "release", "unfenced"}

ASSUME BodyAssumption ==
    /\ AttemptOf \in [Body -> Attempt]
    /\ FlawOf \in [Body -> Flaw]
    /\ ExpiresAt \in [Body -> Nat]
ASSUME DeliveryAssumption == IsFiniteSet(Delivery)
ASSUME RequestAssumption ==
    /\ Request \subseteq [shaped : BOOLEAN, key : Attempt, body : Body,
                          credential : {"bound", "foreign", "invalid"}]
    /\ None \notin Request
ASSUME ConcurrencyAssumption == MaxConcurrency \in Nat \ {0}
ASSUME BoundsAssumption == Horizon \in Nat /\ MaxStarts \in Nat \ {0}

\* The refusals, by the names admission.go gives them.
Refusal == {"malformedRequest", "contractInvalid", "invalidCredential",
            "notAdmissible", "idempotencyReused", "admissionClosed",
            "capacityExhausted", "internalRefusal"}
ASSUME RefusalAssumption == Delivery \cap Refusal = {} /\ None \notin Refusal

VARIABLES
    phase,         \* serving, draining, shutdown, drained, exited
    windowClosed,  \* the drain window closed before the handlers returned
    report,        \* unansweredAtShutdown, None until the drain reports
    slots,         \* how many concurrency slots are taken
    inFlight,      \* metrics.inFlight
    pc,            \* the next step of each delivery's goroutine
    req,           \* the request each delivery carries, None before it arrives
    reply,         \* what was decided: a refusal, or whose result to return
    now,           \* the clock
    starts,        \* lives of the process so far
    ran,           \* history: the deliveries that were admitted and executed
    lapses,        \* history: times the unit gave up what it knew of an attempt
    arrived        \* history: when each delivery arrived

process  == <<phase, windowClosed, report, starts>>
counters == <<slots, inFlight>>
history  == <<ran, lapses, arrived>>
vars == <<register, process, counters, pc, req, reply, now, history>>

Init ==
    /\ RegisterInit
    /\ phase = "serving" /\ windowClosed = FALSE /\ report = None /\ starts = 1
    /\ slots = 0 /\ inFlight = 0
    /\ pc = [d \in Delivery |-> "idle"]
    /\ req = [d \in Delivery |-> None]
    /\ reply = [d \in Delivery |-> None]
    /\ now = 0
    /\ ran = {}
    /\ lapses = [a \in Attempt |-> 0]
    /\ arrived = [d \in Delivery |-> 0]

\* The pcs by what they hold: a slot, a claim on the attempt, a place in the
\* in-flight count.  An active delivery has a handler goroutine.
Counted  == {"executing", "resolved", "failed", "released"}
Claiming == {"claimed", "executing", "resolved", "counted", "failed"}
Slotted  == Claiming \cup {"check", "lookup", "window", "reserve", "released", "replying"}
Active   == Slotted \cup {"gate", "slot"}

Key(d)  == req[d].key
Bytes(d) == req[d].body
HoldsClaim(d) == pc[d] \in Claiming
Running == phase # "exited"

MoveTo(d, next) == pc' = [pc EXCEPT ![d] = next]

\* d's goroutine goes on to its next step, and nothing of it is answered yet.
GoTo(d, next) == MoveTo(d, next) /\ UNCHANGED reply

\* The answer to d is decided, and its goroutine goes on to give it.
Answer(d, answer, next) ==
    /\ MoveTo(d, next)
    /\ reply' = [reply EXCEPT ![d] = answer]

Decide(d, answer) == Answer(d, answer, "replying")

\* d is turned away before it takes a slot.
TurnAway(d) == Answer(d, "capacityExhausted", "done")

-----------------------------------------------------------------------------
(***************************************************************************)
(* The handler, up to the admission boundary.                              *)
(***************************************************************************)

\* net/http starts a handler.  A connection accepted before the listener
\* closed may still deliver its request while Shutdown waits.
Arrive(d) ==
    /\ pc[d] = "idle"
    /\ phase \in {"serving", "draining", "shutdown"}
    /\ \E r \in Request : req' = [req EXCEPT ![d] = r]
    /\ GoTo(d, "gate")
    /\ arrived' = [arrived EXCEPT ![d] = now]
    /\ UNCHANGED <<register, process, counters, now, ran, lapses>>

\* The draining channel is read once, first.
Gate(d) ==
    /\ pc[d] = "gate"
    /\ IF phase = "serving" THEN GoTo(d, "slot") ELSE TurnAway(d)
    /\ UNCHANGED <<register, process, counters, req, now, history>>

\* A slip: the slots compared one too late.
TakeSlotTooMany(d) ==
    /\ pc[d] = "slot"
    /\ IF slots <= MaxConcurrency
       THEN slots' = slots + 1 /\ GoTo(d, "check")
       ELSE TurnAway(d) /\ UNCHANGED slots
    /\ UNCHANGED <<register, process, inFlight, req, now, history>>

\* A slot is taken without waiting, or the delivery is refused.
TakeSlot(d) ==
    /\ pc[d] = "slot"
    /\ IF slots < MaxConcurrency
       THEN slots' = slots + 1 /\ GoTo(d, "check")
       ELSE TurnAway(d) /\ UNCHANGED slots
    /\ UNCHANGED <<register, process, inFlight, req, now, history>>

\* A slip: the credential verified, and not compared with the task.
ObjectionUnbound(r) ==
    IF ~r.shaped THEN "malformedRequest"
    ELSE IF FlawOf[r.body] = "contract" THEN "contractInvalid"
    ELSE IF AttemptOf[r.body] # r.key THEN "malformedRequest"
    ELSE IF r.credential = "invalid" THEN "invalidCredential"
    ELSE IF FlawOf[r.body] = "release" THEN "notAdmissible"
    ELSE "none"

\* The first check of transport, contract, credential and release that the
\* request fails, in the order Admit makes them; "none" when it passes all.
Objection(r) ==
    IF ~r.shaped THEN "malformedRequest"
    ELSE IF FlawOf[r.body] = "contract" THEN "contractInvalid"
    ELSE IF AttemptOf[r.body] # r.key THEN "malformedRequest"
    ELSE IF r.credential = "invalid" THEN "invalidCredential"
    ELSE IF r.credential = "foreign" \/ FlawOf[r.body] = "release" THEN "notAdmissible"
    ELSE "none"

CheckRequest(d) ==
    /\ pc[d] = "check"
    /\ IF Objection(req[d]) = "none"
       THEN GoTo(d, "lookup")
       ELSE Decide(d, Objection(req[d]))
    /\ UNCHANGED <<register, process, counters, req, now, history>>

Lookup(d) ==
    /\ pc[d] = "lookup"
    /\ \/ AnsweredOther(Key(d), Bytes(d)) /\ Decide(d, "idempotencyReused")
       \/ Replayable(Key(d), Bytes(d)) /\ Decide(d, outcomes[Key(d)].by)
       \/ ~Known(Key(d)) /\ GoTo(d, "window")
    /\ UNCHANGED <<register, process, counters, req, now, history>>

\* A slip: the deadline itself still inside the window.
CheckWindowInclusive(d) ==
    /\ pc[d] = "window"
    /\ IF FlawOf[Bytes(d)] = "unfenced" THEN Decide(d, "notAdmissible")
       ELSE IF now > ExpiresAt[Bytes(d)] THEN Decide(d, "admissionClosed")
       ELSE GoTo(d, "reserve")
    /\ UNCHANGED <<register, process, counters, req, now, history>>

\* withinAdmissionWindow reads the clock again.
CheckWindow(d) ==
    /\ pc[d] = "window"
    /\ IF FlawOf[Bytes(d)] = "unfenced" THEN Decide(d, "notAdmissible")
       ELSE IF now >= ExpiresAt[Bytes(d)] THEN Decide(d, "admissionClosed")
       ELSE GoTo(d, "reserve")
    /\ UNCHANGED <<register, process, counters, req, now, history>>

Admit(d) ==
    /\ Claimable(Key(d))
    /\ Claim(Key(d), Bytes(d))
    /\ ran' = ran \cup {d}
    /\ GoTo(d, "claimed")

RefuseOrReplay(d) ==
    /\ \/ AnsweredOther(Key(d), Bytes(d)) /\ Decide(d, "idempotencyReused")
       \/ ClaimedOther(Key(d), Bytes(d)) /\ Decide(d, "idempotencyReused")
       \/ Replayable(Key(d), Bytes(d)) /\ Decide(d, outcomes[Key(d)].by)
       \/ Executing(Key(d), Bytes(d)) /\ Decide(d, "capacityExhausted")
    /\ UNCHANGED <<register, ran>>

Reserve(d) ==
    /\ pc[d] = "reserve"
    /\ Admit(d) \/ RefuseOrReplay(d)
    /\ UNCHANGED <<process, counters, req, now, lapses, arrived>>

-----------------------------------------------------------------------------
(***************************************************************************)
(* The handler, from admission to the response.                            *)
(***************************************************************************)

CountAdmitted(d) ==
    /\ pc[d] = "claimed"
    /\ inFlight' = inFlight + 1
    /\ GoTo(d, "executing")
    /\ UNCHANGED <<register, process, slots, req, now, history>>

\* host.Resolve and the encoding of its result end with an answer, or with
\* an error and nothing to answer.
Resolve(d) ==
    /\ pc[d] = "executing"
    /\ GoTo(d, "resolved") \/ GoTo(d, "failed")
    /\ UNCHANGED <<register, process, counters, req, now, history>>

CountAnswered(d) ==
    /\ pc[d] = "resolved"
    /\ inFlight' = inFlight - 1
    /\ GoTo(d, "counted")
    /\ UNCHANGED <<register, process, slots, req, now, history>>

RecordAnswer(d) ==
    /\ pc[d] = "counted"
    /\ Record(Key(d), Bytes(d), d)
    /\ Decide(d, d)
    /\ lapses' = [a \in Attempt |->
                     IF a \in Evicted(Key(d)) THEN lapses[a] + 1 ELSE lapses[a]]
    /\ UNCHANGED <<process, counters, req, now, ran, arrived>>

\* Slips: the claim of a failed execution kept, or the execution retried.
ReleaseNothing(d) ==
    /\ pc[d] = "failed"
    /\ GoTo(d, "released")
    /\ UNCHANGED <<register, process, counters, req, now, history>>

RetryForEver(d) ==
    /\ pc[d] = "failed"
    /\ GoTo(d, "executing")
    /\ UNCHANGED <<register, process, counters, req, now, history>>

ReleaseClaim(d) ==
    /\ pc[d] = "failed"
    /\ Release(Key(d))
    /\ GoTo(d, "released")
    /\ lapses' = [lapses EXCEPT ![Key(d)] = @ + 1]
    /\ UNCHANGED <<process, counters, req, now, ran, arrived>>

\* A slip: the failed execution never counted out.
CountNothing(d) ==
    /\ pc[d] = "released"
    /\ Decide(d, "internalRefusal")
    /\ UNCHANGED <<register, process, counters, req, now, history>>

CountUnanswered(d) ==
    /\ pc[d] = "released"
    /\ inFlight' = inFlight - 1
    /\ Decide(d, "internalRefusal")
    /\ UNCHANGED <<register, process, slots, req, now, history>>

\* The response is written, whether or not it reaches the caller, the handler
\* returns, and its slot is freed.
Write(d) ==
    /\ pc[d] = "replying"
    /\ slots' = slots - 1
    /\ GoTo(d, "done")
    /\ UNCHANGED <<register, process, inFlight, req, now, history>>

\* The steps a delivery's goroutine takes once its handler is running.
Step(d) ==
    \/ Gate(d) \/ TakeSlot(d) \/ CheckRequest(d) \/ Lookup(d) \/ CheckWindow(d)
    \/ Reserve(d) \/ CountAdmitted(d) \/ Resolve(d) \/ CountAnswered(d)
    \/ RecordAnswer(d) \/ ReleaseClaim(d) \/ CountUnanswered(d) \/ Write(d)

-----------------------------------------------------------------------------
(***************************************************************************)
(* The process: its drain, its end and its next life.                      *)
(***************************************************************************)

untouched == <<register, counters, pc, req, reply, now, history>>

\* SIGTERM: the draining channel is closed first.
StartDrain ==
    /\ phase = "serving"
    /\ phase' = "draining"
    /\ UNCHANGED <<windowClosed, report, starts, untouched>>

\* Shutdown closes the listener and waits for the handlers.
BeginShutdown ==
    /\ phase = "draining"
    /\ phase' = "shutdown"
    /\ UNCHANGED <<windowClosed, report, starts, untouched>>

\* Shutdown finds no active connection left.
HandlersReturned ==
    /\ phase = "shutdown"
    /\ \A d \in Delivery : pc[d] \notin Active
    /\ phase' = "drained"
    /\ UNCHANGED <<windowClosed, report, starts, untouched>>

\* The released window ends the wait.
CloseWindow ==
    /\ phase = "shutdown"
    /\ phase' = "drained"
    /\ windowClosed' = TRUE
    /\ UNCHANGED <<report, starts, untouched>>

ReportDrain ==
    /\ phase = "drained" /\ report = None
    /\ report' = inFlight
    /\ UNCHANGED <<phase, windowClosed, starts, untouched>>

\* The process ends, and every handler, claim, answer and count with it.
EndProcess ==
    /\ phase' = "exited"
    /\ Forget
    /\ slots' = 0 /\ inFlight' = 0
    /\ pc' = [d \in Delivery |-> IF pc[d] \in Active THEN "lost" ELSE pc[d]]
    /\ lapses' = [a \in Attempt |->
                     IF Known(a) \/ Claimed(a) THEN lapses[a] + 1 ELSE lapses[a]]
    /\ UNCHANGED <<windowClosed, report, starts, req, reply, now, ran, arrived>>

\* A slip: the process waits for the work its window cut off.
ExitWhenAnswered == phase = "drained" /\ report = 0 /\ EndProcess

Exit == phase = "drained" /\ report # None /\ EndProcess

Crash == Running /\ EndProcess

Start ==
    /\ phase = "exited" /\ starts < MaxStarts
    /\ phase' = "serving" /\ windowClosed' = FALSE /\ report' = None
    /\ starts' = starts + 1
    /\ UNCHANGED untouched

Tick ==
    /\ now < Horizon
    /\ now' = now + 1
    /\ UNCHANGED <<register, process, counters, pc, req, reply, history>>

\* The platform starts no further process: nothing more happens.
Ended == phase = "exited" /\ starts = MaxStarts /\ UNCHANGED vars

Drain == BeginShutdown \/ HandlersReturned \/ CloseWindow \/ ReportDrain \/ Exit

Next ==
    \/ \E d \in Delivery : Arrive(d) \/ Step(d)
    \/ StartDrain \/ Drain \/ Crash \/ Start \/ Tick \/ Ended

(***************************************************************************)
(* Every goroutine keeps being scheduled.  Resolve returns because its     *)
(* context carries the release's timeout and every governed call honours   *)
(* it; the drain goroutine's window is a timer.  Arrivals, signals,        *)
(* crashes and restarts are never promised.                                *)
(***************************************************************************)
Fairness == (\A d \in Delivery : WF_vars(Step(d))) /\ WF_vars(Drain)

Spec == Init /\ [][Next]_vars /\ Fairness
-----------------------------------------------------------------------------
TypeOK ==
    /\ RegisterType
    /\ phase \in {"serving", "draining", "shutdown", "drained", "exited"}
    /\ windowClosed \in BOOLEAN
    /\ report \in Nat \cup {None}
    /\ starts \in 1..MaxStarts
    /\ slots \in 0..MaxConcurrency
    /\ inFlight \in Nat
    /\ pc \in [Delivery -> Active \cup {"idle", "done", "lost"}]
    /\ req \in [Delivery -> Request \cup {None}]
    /\ reply \in [Delivery -> Delivery \cup Refusal \cup {None}]
    /\ now \in 0..Horizon
    /\ ran \subseteq Delivery
    /\ lapses \in [Attempt -> Nat]
    /\ arrived \in [Delivery -> 0..Horizon]

\* An attempt is claimed exactly while a delivery of it executes, with that
\* delivery's bytes, and no two deliveries of one attempt execute at the same
\* time (admission.go:257-261).
OneExecutionPerAttempt ==
    /\ \A d \in Delivery : HoldsClaim(d) => pending[Key(d)] = Bytes(d)
    /\ \A a \in Attempt : Claimed(a) =>
          \E d \in Delivery : HoldsClaim(d) /\ Key(d) = a
    /\ \A d, e \in Delivery :
          HoldsClaim(d) /\ HoldsClaim(e) /\ Key(d) = Key(e) => d = e

\* An attempt is executed again only after the unit gave up what it knew of
\* it: its answer was evicted, its claim released without an answer, or the
\* process ended (admission.go:334-337).
ExecutionsAccountedFor ==
    \A a \in Attempt :
        Cardinality({d \in ran : Key(d) = a})
            = lapses[a] + (IF Known(a) \/ Claimed(a) THEN 1 ELSE 0)

\* Who may be answered: a well-formed request keyed by its task's attempt, with
\* a credential bound to that task, for a task addressed to this release.
Entitled(r) ==
    /\ r.shaped
    /\ r.key = AttemptOf[r.body]
    /\ r.credential = "bound"
    /\ FlawOf[r.body] \notin {"contract", "release"}

\* Whoever is answered with a result is entitled to one, and gets the result of
\* an execution of the same attempt and the same bytes (admission.go:235-250).
AnswersComeFromTheSameWork ==
    \A d \in Delivery : reply[d] \in Delivery =>
        /\ reply[d] \in ran
        /\ req[reply[d]].body = req[d].body
        /\ Entitled(req[d])

\* What the register will replay was produced by an execution of that attempt
\* and those bytes (admission.go:328-330).
RememberedAnswersAreReal ==
    \A a \in Attempt : Known(a) =>
        /\ outcomes[a].by \in ran
        /\ Key(outcomes[a].by) = a
        /\ Bytes(outcomes[a].by) = outcomes[a].body

\* A slot is taken for every running handler that got past the two gates, and
\* the count is what the drain reports (serve.go:138-161, metrics.go:47-67).
CountersMatchHandlers ==
    /\ slots = Cardinality({d \in Delivery : pc[d] \in Slotted})
    /\ inFlight = Cardinality({d \in Delivery : pc[d] \in Counted})

\* The handler's order: every delivery in a handler carries a request, only one
\* that passed every check before it is looked up, claimed or executed, and a
\* process that ended runs no handler (serve.go:144-181, admission.go:158-233).
Before == {"idle", "gate", "slot", "check", "lookup", "window", "reserve"}
Checked == {"lookup", "window", "reserve", "released"} \cup Claiming
HandlersFollowTheOrder ==
    /\ \A d \in Delivery :
          /\ pc[d] # "idle" => req[d] \in Request
          /\ pc[d] = "idle" => reply[d] = None
          /\ pc[d] \in Before => d \notin ran
          /\ HoldsClaim(d) => d \in ran
          /\ d \in ran \/ pc[d] \in Checked => Objection(req[d]) = "none"
    /\ phase = "exited" => \A d \in Delivery : pc[d] \notin Active

\* What the proofs show to be inductive.
IInv ==
    /\ TypeOK
    /\ RegisterCoherent
    /\ HandlersFollowTheOrder
    /\ CountersMatchHandlers
    /\ OneExecutionPerAttempt
    /\ RememberedAnswersAreReal
    /\ AnswersComeFromTheSameWork

\* IDEMPOTENCY_KEY_REUSED is answered only when other bytes really were
\* executed under that attempt (admission.go:245-264).
ReuseIsReal ==
    \A d \in Delivery : reply[d] = "idempotencyReused" =>
        \E e \in ran : Key(e) = Key(d) /\ Bytes(e) # Bytes(d)

\* A task whose admission window had closed before its request arrived is
\* never executed (admission.go:252-256).
ExpiredWorkNeverStarts ==
    \A d \in ran : arrived[d] < ExpiresAt[Bytes(d)]

\* A drain that ended with every handler returned reports nothing unanswered,
\* and leaves no attempt claimed (serve.go:75-77).
CleanDrainLeavesNothing ==
    phase = "drained" /\ ~windowClosed =>
        /\ report \in {None, 0}
        /\ \A a \in Attempt : ~Claimed(a)

\* An answer, once remembered, is never replaced: it is forgotten as the
\* oldest of a full register, or with the process (admission.go:404-420).
AnswersAreStable ==
    [][\A a \in Attempt : Known(a) =>
          \/ outcomes'[a] = outcomes[a]
          \/ outcomes'[a] = None /\ order[1] = a /\ Len(order) = Limit
          \/ phase' = "exited"]_vars

\* A delivery that reached a handler is answered, unless the process ends
\* under it (serve.go:64-67).
EveryDeliveryIsAnswered ==
    \A d \in Delivery : pc[d] = "gate" ~> pc[d] \in {"done", "lost"}

\* No attempt stays claimed: a delivery told to come back is not told so for
\* ever (admission.go:274-276).
ClaimsAreGivenBack ==
    \A a \in Attempt : Claimed(a) ~> ~Claimed(a)

\* A drain ends (serve.go:59-61).
DrainEnds == phase = "draining" ~> phase = "exited"
-----------------------------------------------------------------------------
(***************************************************************************)
(* The unit implements the ledger of attempts.  A claim is held by the     *)
(* delivery whose handler is executing it.                                 *)
(***************************************************************************)
Claimant(a) == CHOOSE d \in Delivery : HoldsClaim(d) /\ Key(d) = a

LedgerHolder ==
    [a \in Attempt |->
        IF Known(a)
        THEN [state |-> "answered", body |-> outcomes[a].body, by |-> outcomes[a].by]
        ELSE IF Claimed(a)
        THEN [state |-> "executing", body |-> pending[a], by |-> Claimant(a)]
        ELSE None]

LedgerAsked ==
    [d \in Delivery |-> IF req[d] = None THEN None ELSE Bytes(d)]

LedgerHeard ==
    [d \in Delivery |-> IF reply[d] \in Delivery THEN reply[d] ELSE None]

Ledger == INSTANCE AttemptLedger
    WITH holder <- LedgerHolder, asked <- LedgerAsked, heard <- LedgerHeard

ASSUME HolderAssumption == None \notin Ledger!Holder

\* Every step of the unit is a step of the ledger or changes nothing it shows:
\* what the ledger promises of safety.
StepsAreTheLedgers == Ledger!Init /\ [][Ledger!Next]_(Ledger!vars)

\* Every step of the unit is a step of the ledger or changes nothing it shows,
\* and no attempt is held for ever (admission.go:332-347).
ImplementsLedger == Ledger!Spec
-----------------------------------------------------------------------------
(***************************************************************************)
(* What the repository says of the unit and its interleavings refute.      *)
(***************************************************************************)

\* "work that was done and answered is answered again rather than reported as
\* expired" (admission.go:156-157).
AnsweredWorkIsNotExpired ==
    [][\A d \in Delivery :
          pc[d] = "window" /\ Replayable(Key(d), Bytes(d))
              => reply'[d] # "admissionClosed"]_vars
=============================================================================
