------------------------- MODULE GovernedTurnProofs -------------------------
(***************************************************************************)
(* Theorems about GovernedTurn, for every set of attempts, executions and  *)
(* outputs, and every way executions are shared among attempts.  IInv is   *)
(* inductive: an execution's step disturbs what is said of that execution  *)
(* alone, and what the control plane recorded is never taken back.         *)
(***************************************************************************)
EXTENDS GovernedTurn, TLAPS

Acts(e) == Open(e) \/ Work(e) \/ EndContext(e)

StandsStill(f) ==
    /\ pc'[f] = pc[f] /\ usage'[f] = usage[f]
    /\ heard'[f] = heard[f] /\ result'[f] = result[f] /\ due'[f] = due[f]

\* Its process ends, and it with it.
Falls(f) ==
    /\ pc'[f] = "lost" /\ usage'[f] = usage[f]
    /\ heard'[f] = heard[f] /\ result'[f] = result[f] /\ due'[f] = due[f]

ACrash == \E ended \in SUBSET Execution : Crash(ended)
-----------------------------------------------------------------------------
\* A step of one execution changes nothing that is said of another.
LEMMA OthersStandStill ==
    ASSUME TypeOK, NEW e \in Execution, Acts(e), NEW f \in Execution, f # e
    PROVE  StandsStill(f)
  <1> USE DEF TypeOK, GoTo, Ends, Fails, Failed, Decides, Decided, StandsStill
  <1>1. CASE Open(e)
    BY <1>1 DEF Open
  <1>2. CASE ReadBrief(e)
    BY <1>2 DEF ReadBrief, ConcludeDelegation
  <1>3. CASE InvokeModel(e)
    BY <1>3 DEF InvokeModel
  <1>4. CASE HearModel(e)
    BY <1>4 DEF HearModel, JudgeAnswer, Metered, Owed
  <1>5. CASE NoModelAnswer(e) \/ NoWriteAnswer(e) \/ Sign(e)
    BY <1>5 DEF NoModelAnswer, NoWriteAnswer, Sign
  <1>6. CASE Plan(e) \/ Compose(e) \/ Submit(e)
    BY <1>6 DEF Plan, Compose, Submit
  <1>7. CASE HearWrite(e)
    BY <1>7 DEF HearWrite
  <1>8. CASE EndContext(e)
    BY <1>8 DEF EndContext
  <1> QED
    BY <1>1, <1>2, <1>3, <1>4, <1>5, <1>6, <1>7, <1>8 DEF Acts, Work

\* What the control plane has, and what was sent, is never taken back; only
\* Buy adds a purchase, only Keep a record.
LEMMA ControlGrows ==
    ASSUME [Next]_vars
    PROVE  /\ task' = task
           /\ purchases \subseteq purchases' /\ records \subseteq records'
           /\ wire \subseteq wire'
           /\ \A e \in Execution : Acts(e) => purchases' = purchases /\ records' = records
  <1> USE DEF control
  <1>1. ASSUME NEW e \in Execution, Acts(e)
        PROVE  /\ task' = task /\ purchases' = purchases /\ records' = records
               /\ wire \subseteq wire'
    <2>1. CASE Open(e) \/ ReadBrief(e) \/ InvokeModel(e) \/ HearModel(e) \/ NoModelAnswer(e)
      BY <2>1 DEF Open, ReadBrief, InvokeModel, Post, HearModel, NoModelAnswer
    <2>2. CASE Plan(e) \/ Compose(e) \/ Submit(e) \/ HearWrite(e) \/ NoWriteAnswer(e)
      BY <2>2 DEF Plan, Compose, Submit, Post, HearWrite, NoWriteAnswer
    <2>3. CASE Sign(e) \/ EndContext(e)
      BY <2>3 DEF Sign, EndContext
    <2> QED
      BY <1>1, <2>1, <2>2, <2>3 DEF Acts, Work
  <1>2. CASE Buy
    BY <1>2, <1>1 DEF Buy
  <1>3. CASE Keep
    BY <1>3, <1>1 DEF Keep
  <1>4. CASE UNCHANGED vars
    BY <1>4, <1>1 DEF vars
  <1>5. CASE ACrash
    BY <1>5, <1>1 DEF ACrash, Crash
  <1> QED
    BY <1>1, <1>2, <1>3, <1>4, <1>5 DEF Next, AllEnded, Acts, ACrash
-----------------------------------------------------------------------------
(***************************************************************************)
(* The types.                                                              *)
(***************************************************************************)
Errors == DOMAIN Classified

\* A turn that ends leaves a typed outcome, and is still to be signed.
LEMMA EndsTyped ==
    ASSUME TypeOK, NEW e \in Execution, NEW outcome \in TurnOutcome, Ends(e, outcome)
    PROVE  /\ pc' = [pc EXCEPT ![e] = "sign"]
           /\ result' \in [Execution -> TurnOutcome \cup {None}]
  BY DEF TypeOK, Ends, GoTo

\* An execution that fails ends with an outcome a result can carry.
LEMMA FailsTyped ==
    ASSUME TypeOK, NEW e \in Execution, NEW error \in Errors, Fails(e, error)
    PROVE  /\ pc' = [pc EXCEPT ![e] = "sign"]
           /\ result' \in [Execution -> TurnOutcome \cup {None}]
           /\ result'[e].decision = "refuse"
  <1> DEFINE outcome == [status |-> Classified[error][1], reason |-> Classified[error][2],
                         decision |-> "refuse", artifact |-> None]
  <1>1. Classified[error][1] \in {"refused", "failed"}
    BY DEF Errors, Classified
  <1>2. outcome \in TurnOutcome
    BY <1>1 DEF TurnOutcome, Decision, Errors
  <1>3. Ends(e, outcome)
    BY DEF Fails, Failed
  <1> HIDE DEF outcome
  <1>4. result'[e] = outcome
    BY <1>3 DEF Ends, TypeOK
  <1>5. outcome.decision = "refuse"
    BY DEF outcome
  <1> QED
    BY <1>2, <1>3, <1>4, <1>5, EndsTyped

\* So does one that decides.
LEMMA DecidesTyped ==
    ASSUME TypeOK, NEW e \in Execution, NEW decision \in Decision \cup {"final"},
           NEW artifact \in Candidate \cup {Pinned, None}, Decides(e, decision, artifact)
    PROVE  /\ pc' = [pc EXCEPT ![e] = "sign"]
           /\ result' \in [Execution -> TurnOutcome \cup {None}]
           /\ result'[e].decision = decision /\ result'[e].artifact = artifact
  <1> DEFINE outcome == [status   |-> IF decision = "refuse" THEN "refused" ELSE "completed",
                         reason   |-> IF decision = "refuse" THEN "REFUSED_BY_POLICY"
                                      ELSE IF decision = "need_input" THEN "INPUT_REQUIRED"
                                      ELSE "COMPLETED",
                         decision |-> decision,
                         artifact |-> artifact]
  <1>1. Classified["refused"][2] = "REFUSED_BY_POLICY" /\ "refused" \in DOMAIN Classified
    BY DEF Classified
  <1>2. outcome \in TurnOutcome
    BY <1>1 DEF TurnOutcome
  <1>3. Ends(e, outcome)
    BY DEF Decides, Decided
  <1> HIDE DEF outcome
  <1>4. result'[e] = outcome
    BY <1>3 DEF Ends, TypeOK
  <1>5. outcome.decision = decision /\ outcome.artifact = artifact
    BY DEF outcome
  <1> QED
    BY <1>2, <1>3, <1>4, <1>5, EndsTyped

\* Every variable has its type before anything happens.
LEMMA InitTypes == Init => TypeOK
  <1> SUFFICES ASSUME Init PROVE TypeOK
    OBVIOUS
  <1>1. task \in [Attempt -> Task]
    BY TaskAssumption DEF Init
  <1>2. usage \in [Execution -> [calls : Seq(Invocation), writes : {0, 1}]]
    BY DEF Init
  <1> QED
    BY <1>1, <1>2 DEF Init, TypeOK, Ended

\* What is posted is a typed request.
LEMMA PostTyped ==
    ASSUME TypeOK, NEW e \in Execution,
           \/ Post(e, "model", None)
           \/ Post(e, "artifact", Built(e)) /\ heard[e] \in Output
    PROVE  wire' \subseteq Request
  <1>1. AttemptOf[e] \in Attempt
    BY TaskAssumption
  <1>2. CASE Post(e, "model", None)
    BY <1>1, <1>2 DEF Post, Identity, TypeOK, Request
  <1>3. CASE Post(e, "artifact", Built(e)) /\ heard[e] \in Output
    <2>1. Built(e) \in Candidate
      BY <1>3 DEF Built, Candidate, TypeOK
    <2> QED
      BY <1>1, <1>3, <2>1 DEF Post, Identity, TypeOK, Request
  <1> QED
    BY <1>2, <1>3

\* An answer that is accepted names an invocation bought for the attempt.
LEMMA OursAreBought ==
    ASSUME TypeOK, NEW e \in Execution, NEW answer \in ModelAnswers, Ours(e, answer)
    PROVE  \E p \in purchases :
              /\ p.attempt = AttemptOf[e] /\ answer.id = p.key
              /\ answer.verdict = p.verdict
              /\ answer.attested => answer.output = p.output
  <1>1. \/ \E p \in purchases : answer = Said(p, p.key, p.output, TRUE)
        \/ \E p \in purchases : answer = Said(p, None, p.output, TRUE)
        \/ \E p \in purchases, o \in Output : answer = Said(p, p.key, o, FALSE)
    <2>1. PICK p \in purchases : answer \in AnswersFrom(p)
      BY DEF ModelAnswers
    <2>2. CASE p.verdict = "ok"
      BY <2>1, <2>2 DEF AnswersFrom
    <2>3. CASE p.verdict # "ok"
      BY <2>1, <2>3 DEF AnswersFrom
    <2> QED
      BY <2>2, <2>3
  <1>2. CASE \E p \in purchases : answer = Said(p, p.key, p.output, TRUE)
    BY <1>2 DEF Said, Ours
  <1>3. CASE \E p \in purchases : answer = Said(p, None, p.output, TRUE)
    BY <1>3 DEF Said, Ours
  <1>4. CASE \E p \in purchases, o \in Output : answer = Said(p, p.key, o, FALSE)
    BY <1>4 DEF Said, Ours
  <1> QED
    BY <1>1, <1>2, <1>3, <1>4

\* An execution's step keeps the types.
LEMMA ActsTyped ==
    ASSUME IInv, NEW e \in Execution, Acts(e)
    PROVE  TypeOK'
  <1> DEFINE Pcs == {"idle", "brief", "invoke", "awaitModel", "plan", "compose",
                     "submit", "awaitWrite", "sign"} \cup Ended
             Steps == /\ wire' \subseteq Request
                      /\ pc' \in [Execution -> Pcs]
                      /\ over' \in [Execution -> BOOLEAN]
                      /\ usage' \in [Execution -> [calls : Seq(Invocation), writes : {0, 1}]]
                      /\ heard' \in [Execution -> Output \cup {None}]
                      /\ result' \in [Execution -> TurnOutcome \cup {None}]
                      /\ due' \in [Execution -> Invocation \cup {None}]
  <1>1. TypeOK /\ TurnsFollowTheOrder
    BY DEF IInv
  <1>2. task' = task /\ purchases' = purchases /\ records' = records
    <2>1. [Next]_vars
      BY DEF Next, Acts
    <2> QED
      BY <2>1, ControlGrows
  <1> SUFFICES Steps
    BY <1>1, <1>2 DEF TypeOK
  <1>3. \A p \in Pcs : [pc EXCEPT ![e] = p] \in [Execution -> Pcs]
    BY <1>1 DEF TypeOK
  <1>4. ASSUME NEW error \in Errors, Fails(e, error), UNCHANGED <<over, usage, heard, due>>,
               wire' \subseteq Request
        PROVE  Steps
    BY <1>1, <1>3, <1>4, FailsTyped DEF TypeOK
  <1>5. ASSUME NEW decision \in Decision \cup {"final"},
               NEW artifact \in Candidate \cup {Pinned, None}, Decides(e, decision, artifact),
               UNCHANGED <<wire, over, usage, heard, due>>
        PROVE  Steps
    BY <1>1, <1>3, <1>5, DecidesTyped DEF TypeOK
  <1>6. ASSUME NEW next \in Pcs, GoTo(e, next), UNCHANGED <<over, usage, heard, result, due>>,
               wire' \subseteq Request
        PROVE  Steps
    BY <1>1, <1>3, <1>6 DEF TypeOK, GoTo
  <1>7. wire \subseteq Request /\ AttemptOf[e] \in Attempt
    BY <1>1, TaskAssumption DEF TypeOK
  <1> HIDE DEF Pcs
  <1>8. {"brief", "invoke", "awaitModel", "plan", "compose", "submit", "awaitWrite", "sign",
         "returned", "lost"} \subseteq Pcs
    BY DEF Pcs, Ended
  <1>9. {"boundary", "context", "output", "proposal", "refused", "budget", "delegation",
         "unavailable", "write", "internal"} \subseteq Errors
    BY DEF Errors, Classified
  <1> HIDE DEF Steps
  <1>10. CASE Open(e)
    BY <1>6, <1>7, <1>8, <1>10 DEF Open
  <1>11. CASE ReadBrief(e)
    <2>1. CASE ConcludeDelegation(e)
      <3>1. {"continue", "refuse", "final"} \subseteq Decision \cup {"final"}
        BY DEF Decision
      <3> QED
        BY <1>4, <1>5, <1>7, <1>9, <1>11, <2>1, <3>1 DEF ReadBrief, ConcludeDelegation
    <2>2. CASE ~ConcludeDelegation(e)
      BY <1>4, <1>6, <1>7, <1>8, <1>9, <1>11, <2>2 DEF ReadBrief
    <2> QED
      BY <2>1, <2>2
  <1>12. CASE InvokeModel(e)
    BY <1>1, <1>4, <1>6, <1>7, <1>8, <1>9, <1>12, PostTyped DEF InvokeModel
  <1>13. CASE HearModel(e)
    <2>1. PICK answer \in ModelAnswers :
             /\ Owed(e, answer)
             /\ IF Ours(e, answer) THEN JudgeAnswer(e, answer)
                ELSE Fails(e, "unavailable") /\ UNCHANGED <<usage, heard>>
      BY <1>13 DEF HearModel
    <2>2. wire' \subseteq Request /\ over' = over
      BY <1>7, <1>13 DEF HearModel
    <2>3. due' \in [Execution -> Invocation \cup {None}]
      <3>1. CASE due' = [due EXCEPT ![e] = None]
        BY <1>1, <3>1 DEF TypeOK
      <3>2. CASE Ours(e, answer)
        <4>1. answer.id \in Invocation
          BY <1>1, <3>2, OursAreBought DEF TypeOK, Purchase
        <4> QED
          BY <1>1, <2>1, <4>1 DEF Owed, TypeOK
      <3> QED
        BY <2>1, <3>1, <3>2 DEF Owed, Ours
    <2>4. ASSUME NEW error \in Errors, Fails(e, error), UNCHANGED heard,
                 usage' \in [Execution -> [calls : Seq(Invocation), writes : {0, 1}]]
          PROVE  Steps
      BY <1>1, <1>3, <1>8, <2>2, <2>3, <2>4, FailsTyped DEF TypeOK, Steps
    <2>5. CASE ~Ours(e, answer)
      BY <1>1, <1>9, <2>1, <2>4, <2>5 DEF TypeOK
    <2>6. CASE Ours(e, answer)
      <3>1. PICK p \in purchases : /\ p.attempt = AttemptOf[e] /\ answer.id = p.key
                                   /\ answer.verdict = p.verdict
                                   /\ answer.attested => answer.output = p.output
        BY <1>1, <2>6, OursAreBought
      <3>2. p.key \in Invocation /\ p.verdict \in {"ok", "refused", "budget"}
            /\ p.output \in Output \cup {None}
        BY <1>1 DEF TypeOK, Purchase
      <3>3. Metered(e, answer) => usage' \in [Execution -> [calls : Seq(Invocation), writes : {0, 1}]]
        <4> SUFFICES ASSUME Metered(e, answer)
                     PROVE  usage' \in [Execution -> [calls : Seq(Invocation), writes : {0, 1}]]
          OBVIOUS
        <4>1. usage[e].calls \in Seq(Invocation) /\ usage[e].writes \in {0, 1}
          BY <1>1 DEF TypeOK
        <4>2. Append(usage[e].calls, answer.id) \in Seq(Invocation)
          BY <3>1, <3>2, <4>1
        <4>3. usage' = [usage EXCEPT ![e] = [usage[e] EXCEPT !.calls = Append(usage[e].calls, answer.id)]]
          BY DEF Metered
        <4> QED
          BY <1>1, <4>1, <4>2, <4>3 DEF TypeOK
      <3>4. CASE answer.verdict # "ok" /\ Fails(e, answer.verdict) /\ Metered(e, answer) /\ UNCHANGED heard
        BY <1>9, <2>4, <3>1, <3>2, <3>3, <3>4
      <3>5. CASE Fails(e, "internal") /\ UNCHANGED <<usage, heard>>
        BY <1>1, <1>9, <2>4, <3>5 DEF TypeOK
      <3>6. CASE Fails(e, "unavailable") /\ Metered(e, answer) /\ UNCHANGED heard
        BY <1>9, <2>4, <3>3, <3>6
      <3>7. CASE /\ answer.verdict = "ok" /\ Attested(answer)
                 /\ heard' = [heard EXCEPT ![e] = answer.output]
                 /\ Metered(e, answer) /\ GoTo(e, MyTask(e).turn) /\ UNCHANGED result
        <4>1. heard' \in [Execution -> Output \cup {None}]
          BY <1>1, <3>1, <3>2, <3>7 DEF TypeOK, Attested
        <4>2. MyTask(e).turn \in {"compose", "plan"}
          BY <1>1, <1>7, <1>13 DEF TypeOK, Task, MyTask, TurnsFollowTheOrder, HearModel
        <4>3. pc' = [pc EXCEPT ![e] = MyTask(e).turn] /\ result' = result
          BY <3>7 DEF GoTo
        <4> QED
          BY <1>1, <1>3, <1>8, <2>2, <2>3, <3>3, <3>7, <4>1, <4>2, <4>3 DEF TypeOK, Steps
      <3> QED
        BY <2>1, <2>6, <3>4, <3>5, <3>6, <3>7 DEF JudgeAnswer
    <2> QED
      BY <2>5, <2>6
  <1>14. CASE NoModelAnswer(e) \/ NoWriteAnswer(e)
    BY <1>4, <1>7, <1>9, <1>14 DEF NoModelAnswer, NoWriteAnswer
  <1>15. CASE Plan(e)
    <2>1. Decision \subseteq Decision \cup {"final"}
      OBVIOUS
    <2> QED
      BY <1>4, <1>5, <1>7, <1>9, <1>15, <2>1 DEF Plan
  <1>16. CASE Compose(e)
    BY <1>4, <1>6, <1>7, <1>8, <1>9, <1>16 DEF Compose
  <1>17. CASE Submit(e)
    <2>1. heard[e] \in Output
      BY <1>1, <1>17 DEF Submit, TypeOK, TurnsFollowTheOrder
    <2> QED
      BY <1>1, <1>4, <1>6, <1>7, <1>8, <1>9, <1>17, <2>1, PostTyped DEF Submit
  <1>18. CASE HearWrite(e)
    <2>1. PICK r \in records : /\ usage' = [usage EXCEPT ![e].writes = @ + 1]
                               /\ Decides(e, "final", r.document)
      BY <1>18 DEF HearWrite
    <2>2. r.document \in Candidate
      BY <1>1 DEF TypeOK, Record
    <2>3. usage[e].writes = 0 /\ usage[e].calls \in Seq(Invocation)
      BY <1>1, <1>18 DEF HearWrite, TurnsFollowTheOrder, Ended, TypeOK
    <2>4. usage' = [usage EXCEPT ![e] = [usage[e] EXCEPT !.writes = usage[e].writes + 1]]
      BY <2>1
    <2>5. usage' \in [Execution -> [calls : Seq(Invocation), writes : {0, 1}]]
      <3>1. [usage[e] EXCEPT !.writes = usage[e].writes + 1]
               = [calls |-> usage[e].calls, writes |-> 1]
        BY <1>1, <2>3 DEF TypeOK
      <3>2. [calls |-> usage[e].calls, writes |-> 1] \in [calls : Seq(Invocation), writes : {0, 1}]
        BY <2>3
      <3> QED
        BY <1>1, <2>4, <3>1, <3>2 DEF TypeOK
    <2>6. UNCHANGED <<wire, over, heard, due>>
      BY <1>18 DEF HearWrite
    <2> QED
      <3>1. pc' = [pc EXCEPT ![e] = "sign"] /\ result' \in [Execution -> TurnOutcome \cup {None}]
        BY <1>1, <2>1, <2>2, DecidesTyped
      <3> QED
        BY <1>1, <1>3, <1>8, <2>5, <2>6, <3>1 DEF TypeOK, Steps
  <1>19. CASE Sign(e)
    BY <1>6, <1>7, <1>8, <1>19 DEF Sign
  <1>20. CASE EndContext(e)
    BY <1>1, <1>20 DEF EndContext, TypeOK, Steps, Pcs
  <1> QED
    BY <1>10, <1>11, <1>12, <1>13, <1>14, <1>15, <1>16, <1>17, <1>18, <1>19, <1>20
    DEF Acts, Work

\* And keeps it at every step.
LEMMA NextTypes == ASSUME IInv, [Next]_vars PROVE TypeOK'
  <1>1. TypeOK
    BY DEF IInv
  <1>2. CASE \E e \in Execution : Acts(e)
    BY <1>2, ActsTyped
  <1>3. CASE Buy
    <2>1. PICK q \in wire, verdict \in {"ok", "refused", "budget"}, output \in Output \cup {None} :
             /\ q.op = "model"
             /\ verdict = "ok" <=> output # None
             /\ purchases' = purchases \cup {[key |-> q.key, attempt |-> q.attempt,
                                              verdict |-> verdict, output |-> output]}
      BY <1>3 DEF Buy
    <2>2. q.key \in Invocation /\ q.attempt \in Attempt
      BY <1>1, <2>1 DEF TypeOK, Request, Invocation
    <2>3. purchases' \subseteq Purchase
      BY <1>1, <2>1, <2>2 DEF TypeOK, Purchase
    <2> QED
      BY <1>1, <1>3, <2>3 DEF Buy, TypeOK
  <1>4. CASE Keep
    <2>1. PICK q \in wire :
             /\ q.op = "artifact"
             /\ records' = records \cup {[key |-> q.key, attempt |-> q.attempt,
                                          document |-> q.document]}
      BY <1>4 DEF Keep
    <2>2. q.key \in Attempt \X {"artifact"} /\ q.attempt \in Attempt /\ q.document \in Candidate
      BY <1>1, <2>1 DEF TypeOK, Request
    <2>3. records' \subseteq Record
      BY <1>1, <2>1, <2>2 DEF TypeOK, Record
    <2> QED
      BY <1>1, <1>4, <2>3 DEF Keep, TypeOK
  <1>5. CASE UNCHANGED vars
    BY <1>1, <1>5 DEF vars, control, TypeOK
  <1>6. CASE ACrash
    BY <1>1, <1>6 DEF ACrash, Crash, control, TypeOK, Ended
  <1> QED
    BY <1>2, <1>3, <1>4, <1>5, <1>6 DEF Next, AllEnded, Acts, ACrash
-----------------------------------------------------------------------------
(***************************************************************************)
(* What the control plane holds.                                           *)
(***************************************************************************)

\* A page of an attempt's stays one.
LEMMA PagesStayPages ==
    ASSUME [Next]_vars, NEW document, NEW a, IsPageOf(document, a)
    PROVE  IsPageOf(document, a)'
  BY ControlGrows DEF IsPageOf

\* Only the gateway buys, and only what it has not bought for that attempt.
LEMMA NextBoughtOnce == ASSUME IInv, [Next]_vars PROVE DecisionsAreBoughtOnce'
  <1>1. DecisionsAreBoughtOnce /\ NamesAndSubmissionsAreTheAttempts
    BY DEF IInv
  <1>2. CASE Buy
    <2>1. PICK q \in wire, verdict \in {"ok", "refused", "budget"}, output \in Output \cup {None} :
             /\ q.op = "model"
             /\ \A p \in purchases : p.key # q.key
             /\ purchases' = purchases \cup {[key |-> q.key, attempt |-> q.attempt,
                                              verdict |-> verdict, output |-> output]}
      BY <1>2 DEF Buy
    <2>2. \A p \in purchases : p.attempt # q.attempt
      BY <1>1, <2>1 DEF NamesAndSubmissionsAreTheAttempts
    <2> QED
      BY <1>1, <2>1, <2>2 DEF DecisionsAreBoughtOnce
  <1>3. CASE purchases' = purchases
    BY <1>1, <1>3 DEF DecisionsAreBoughtOnce
  <1>4. Buy \/ purchases' = purchases
    BY ControlGrows DEF Next, AllEnded, Keep, Crash, vars, control, Acts
  <1> QED
    BY <1>2, <1>3, <1>4

\* What an execution submits is a page of its attempt's.
LEMMA BuiltIsAPage ==
    ASSUME IInv, NEW e \in Execution, heard[e] # None, Meaning[heard[e]] = "page"
    PROVE  IsPageOf(Built(e), AttemptOf[e])
  BY DEF IInv, TurnsFollowTheOrder, IsPageOf, Built

\* A request that was not sent before is posted by an execution, which may.
LEMMA Posted ==
    ASSUME IInv, NEW e \in Execution, Acts(e)
    PROVE  \/ wire' = wire
           \/ /\ Post(e, "model", None) /\ May(e, "model")
              /\ MyTask(e).turn # "conclude" /\ Supplied(e)
           \/ /\ Post(e, "artifact", Built(e)) /\ May(e, "artifact")
              /\ MyTask(e).turn # "conclude" /\ Supplied(e)
              /\ IsPageOf(Built(e), AttemptOf[e])
  <1>1. CASE InvokeModel(e)
    BY <1>1 DEF InvokeModel, IInv, TurnsFollowTheOrder
  <1>2. CASE Submit(e)
    <2>1. MyTask(e).turn # "conclude" /\ Supplied(e) /\ heard[e] # None
      BY <1>2 DEF Submit, IInv, TurnsFollowTheOrder
    <2>2. CASE Meaning[heard[e]] = "page"
      BY <1>2, <2>1, <2>2, BuiltIsAPage DEF Submit
    <2>3. CASE Meaning[heard[e]] # "page"
      BY <1>2, <2>3 DEF Submit
    <2> QED
      BY <2>2, <2>3
  <1>3. CASE Open(e) \/ ReadBrief(e) \/ HearModel(e) \/ NoModelAnswer(e) \/ Plan(e)
    BY <1>3 DEF Open, ReadBrief, HearModel, NoModelAnswer, Plan
  <1>4. CASE Compose(e) \/ HearWrite(e) \/ NoWriteAnswer(e) \/ Sign(e) \/ EndContext(e)
    BY <1>4 DEF Compose, HearWrite, NoWriteAnswer, Sign, EndContext
  <1> QED
    BY <1>1, <1>2, <1>3, <1>4 DEF Acts, Work

\* A call that enters the wire is its execution's own, one the release names, and
\* for a turn that has what it needs; nothing is bought by sending it.
LEMMA NextWire ==
    ASSUME IInv, [Next]_vars, NEW q \in wire', q \notin wire
    PROVE  \E e \in Execution :
              /\ q.attempt = AttemptOf[e] /\ q.key = Identity(e, q.op)
              /\ May(e, q.op) /\ MyTask(e).turn # "conclude" /\ Supplied(e)
              /\ q.op = "artifact" => IsPageOf(q.document, AttemptOf[e])
              /\ purchases' = purchases
  <1>1. PICK e \in Execution : Acts(e)
    BY DEF Next, AllEnded, Buy, Keep, Crash, vars, Acts
  <1>2. PICK op \in {"model", "artifact"}, document \in {None, Built(e)} :
           /\ q = [op |-> op, key |-> Identity(e, op), attempt |-> AttemptOf[e],
                   document |-> document]
           /\ May(e, op) /\ MyTask(e).turn # "conclude" /\ Supplied(e)
           /\ op = "artifact" => IsPageOf(document, AttemptOf[e])
    <2>1. CASE Post(e, "model", None) /\ May(e, "model")
               /\ MyTask(e).turn # "conclude" /\ Supplied(e)
      BY <2>1 DEF Post
    <2>2. CASE Post(e, "artifact", Built(e)) /\ May(e, "artifact")
               /\ MyTask(e).turn # "conclude" /\ Supplied(e)
               /\ IsPageOf(Built(e), AttemptOf[e])
      BY <2>2 DEF Post
    <2> QED
      BY <1>1, <2>1, <2>2, Posted
  <1>3. purchases' = purchases
    BY <1>1, ControlGrows
  <1> QED
    BY <1>2, <1>3

\* A call is named for its attempt, and a submission is built on what that attempt bought.
LEMMA NextNames == ASSUME IInv, [Next]_vars PROVE NamesAndSubmissionsAreTheAttempts'
  <1>1. NamesAndSubmissionsAreTheAttempts /\ TypeOK
    BY DEF IInv
  <1>2. \A p \in purchases' : p.key = <<p.attempt, "model">>
    <2>1. CASE Buy
      BY <1>1, <2>1 DEF Buy, NamesAndSubmissionsAreTheAttempts
    <2>2. CASE purchases' = purchases
      BY <1>1, <2>2 DEF NamesAndSubmissionsAreTheAttempts
    <2>3. Buy \/ purchases' = purchases
      BY ControlGrows DEF Next, AllEnded, Keep, Crash, vars, control, Acts
    <2> QED
      BY <2>1, <2>2, <2>3
  <1>3. \A r \in records' : r.key = <<r.attempt, "artifact">>
    <2>1. CASE Keep
      BY <1>1, <2>1 DEF Keep, NamesAndSubmissionsAreTheAttempts
    <2>2. CASE records' = records
      BY <1>1, <2>2 DEF NamesAndSubmissionsAreTheAttempts
    <2>3. Keep \/ records' = records
      BY ControlGrows DEF Next, AllEnded, Buy, Crash, vars, control, Acts
    <2> QED
      BY <2>1, <2>2, <2>3
  <1>4. ASSUME NEW q \in wire'
        PROVE  q.key = <<q.attempt, q.op>> /\ (q.op = "artifact" => IsPageOf(q.document, q.attempt)')
    <2>1. CASE q \in wire
      BY <1>1, <2>1, PagesStayPages DEF NamesAndSubmissionsAreTheAttempts
    <2>2. CASE q \notin wire
      <3>1. PICK e \in Execution :
               /\ q.attempt = AttemptOf[e] /\ q.key = Identity(e, q.op)
               /\ q.op = "artifact" => IsPageOf(q.document, AttemptOf[e])
        BY <2>2, NextWire
      <3> QED
        BY <3>1, PagesStayPages DEF Identity
    <2> QED
      BY <2>1, <2>2
  <1> QED
    BY <1>2, <1>3, <1>4 DEF NamesAndSubmissionsAreTheAttempts

\* What is recorded was submitted, so it stands on what was bought.
LEMMA NextRecordsStand == ASSUME IInv, [Next]_vars PROVE RecordsStandOnBoughtOutput'
  <1>1. NamesAndSubmissionsAreTheAttempts /\ RecordsStandOnBoughtOutput
    BY DEF IInv
  <1>2. ASSUME NEW r \in records' PROVE IsPageOf(r.document, r.attempt)
    <2>1. CASE Keep
      BY <1>1, <1>2, <2>1 DEF Keep, NamesAndSubmissionsAreTheAttempts, RecordsStandOnBoughtOutput
    <2>2. CASE records' = records
      BY <1>1, <1>2, <2>2 DEF RecordsStandOnBoughtOutput
    <2>3. Keep \/ records' = records
      BY ControlGrows DEF Next, AllEnded, Buy, Crash, vars, control, Acts
    <2> QED
      BY <2>1, <2>2, <2>3
  <1> QED
    BY <1>2, PagesStayPages DEF RecordsStandOnBoughtOutput

\* Calls are sent by the steps that checked the release, and by no others.
LEMMA NextReleased == ASSUME IInv, [Next]_vars PROVE OnlyReleasedCallsLeave'
  <1>1. OnlyReleasedCallsLeave /\ task' = task
    BY ControlGrows DEF IInv
  <1>2. ASSUME NEW q \in wire'
        PROVE  /\ q.op \in task[q.attempt].released
               /\ task[q.attempt].turn # "conclude" /\ task[q.attempt].brief = "complete"
    <2>1. CASE q \in wire
      BY <1>1, <2>1 DEF OnlyReleasedCallsLeave
    <2>2. CASE q \notin wire
      <3>1. PICK e \in Execution : /\ q.attempt = AttemptOf[e] /\ May(e, q.op)
                                   /\ MyTask(e).turn # "conclude" /\ Supplied(e)
        BY <2>2, NextWire
      <3> QED
        BY <3>1 DEF May, MyTask, Supplied
    <2> QED
      BY <2>1, <2>2
  <1> QED
    BY <1>1, <1>2 DEF OnlyReleasedCallsLeave
-----------------------------------------------------------------------------
(***************************************************************************)
(* What is said of each execution.                                         *)
(***************************************************************************)

\* In a step each execution acts, falls or stands still.
LEMMA StillOrActs ==
    ASSUME IInv, [Next]_vars, NEW f \in Execution
    PROVE  Acts(f) \/ Falls(f) \/ StandsStill(f)
  <1>1. TypeOK
    BY DEF IInv
  <1>2. CASE \E e \in Execution : Acts(e)
    BY <1>1, <1>2, OthersStandStill
  <1>3. CASE Buy \/ Keep \/ UNCHANGED vars
    BY <1>3 DEF Buy, Keep, vars, control, StandsStill
  <1>4. CASE ACrash
    BY <1>4 DEF ACrash, Crash, StandsStill, Falls
  <1> QED
    BY <1>2, <1>3, <1>4 DEF Next, AllEnded, Acts, ACrash

\* A failure is reported with the reason of its error, a decision with none of
\* the reasons of a turn that rests on no answer.
LEMMA EndsWithItsReason ==
    ASSUME TypeOK, NEW e \in Execution
    PROVE  /\ \A error \in Errors : Fails(e, error) =>
                 /\ pc'[e] = "sign" /\ result'[e].reason = Classified[error][2]
                 /\ result'[e].decision = "refuse"
           /\ \A decision \in Decision \cup {"final"}, artifact \in Candidate \cup {Pinned, None} :
                 Decides(e, decision, artifact) =>
                    /\ pc'[e] = "sign"
                    /\ result'[e].decision = decision /\ result'[e].artifact = artifact
  <1>1. ASSUME NEW error \in Errors, Fails(e, error)
        PROVE  /\ pc'[e] = "sign" /\ result'[e].reason = Classified[error][2]
               /\ result'[e].decision = "refuse"
    BY <1>1 DEF Fails, Failed, Ends, GoTo, TypeOK
  <1>2. ASSUME NEW decision \in Decision \cup {"final"},
               NEW artifact \in Candidate \cup {Pinned, None}, Decides(e, decision, artifact)
        PROVE  /\ pc'[e] = "sign"
               /\ result'[e].decision = decision /\ result'[e].artifact = artifact
    BY <1>2, DecidesTyped DEF TypeOK
  <1> QED
    BY <1>1, <1>2

\* What an execution hears: an answer that is not its own, and nothing is due; or
\* one of its own, which is metered, and accepted only as it was bought, unless
\* it has no canonical form.
LEMMA HearsItsOwn ==
    ASSUME IInv, NEW e \in Execution, HearModel(e)
    PROVE  \/ /\ Fails(e, "unavailable") /\ UNCHANGED <<usage, heard>>
              /\ due'[e] = None
           \/ \E p \in purchases :
                 /\ p.attempt = AttemptOf[e] /\ due'[e] = p.key /\ p.key # None
                 /\ Fails(e, "internal") /\ UNCHANGED <<usage, heard>>
           \/ \E p \in purchases :
                 /\ p.attempt = AttemptOf[e] /\ due'[e] = p.key /\ p.key # None
                 /\ usage'[e].calls = <<p.key>> /\ usage'[e].writes = usage[e].writes
                 /\ \/ /\ \E error \in Errors : Fails(e, error)
                       /\ UNCHANGED heard
                    \/ /\ p.verdict = "ok" /\ heard'[e] = p.output
                       /\ p.output \in Output
                       /\ pc'[e] = MyTask(e).turn /\ UNCHANGED result
  <1>1. TypeOK /\ TurnsFollowTheOrder
    BY DEF IInv
  <1>2. PICK answer \in ModelAnswers :
           /\ Owed(e, answer)
           /\ IF Ours(e, answer) THEN JudgeAnswer(e, answer)
              ELSE Fails(e, "unavailable") /\ UNCHANGED <<usage, heard>>
    BY DEF HearModel
  <1>3. due'[e] = IF answer.attempt = AttemptOf[e] THEN answer.id ELSE None
    BY <1>1, <1>2 DEF Owed, TypeOK
  <1>4. CASE ~Ours(e, answer)
    BY <1>2, <1>3, <1>4 DEF Ours
  <1>5. CASE Ours(e, answer)
    <2>1. PICK p \in purchases : /\ p.attempt = AttemptOf[e] /\ answer.id = p.key
                                 /\ answer.verdict = p.verdict
                                 /\ answer.attested => answer.output = p.output
      BY <1>1, <1>5, OursAreBought
    <2>2. due'[e] = p.key /\ p.key # None
      BY <1>3, <1>5, <2>1 DEF Ours
    <2>3. Metered(e, answer) => usage'[e].calls = <<p.key>> /\ usage'[e].writes = usage[e].writes
      <3> SUFFICES ASSUME Metered(e, answer)
                   PROVE  usage'[e].calls = <<p.key>> /\ usage'[e].writes = usage[e].writes
        OBVIOUS
      <3>1. usage[e].calls = <<>>
        BY <1>1 DEF HearModel, TurnsFollowTheOrder
      <3>2. usage' = [usage EXCEPT ![e] = [usage[e] EXCEPT !.calls = Append(usage[e].calls, answer.id)]]
        BY DEF Metered
      <3> QED
        BY <1>1, <2>1, <3>1, <3>2 DEF TypeOK
    <2>4. p.verdict \in {"ok", "refused", "budget"} /\ p.output \in Output \cup {None}
      BY <1>1 DEF TypeOK, Purchase
    <2>5. {"refused", "budget", "unavailable"} \subseteq Errors
      BY DEF Errors, Classified
    <2>6. CASE /\ answer.verdict # "ok" /\ Fails(e, answer.verdict)
               /\ Metered(e, answer) /\ UNCHANGED heard
      BY <2>1, <2>2, <2>3, <2>4, <2>5, <2>6
    <2>7. CASE Fails(e, "internal") /\ UNCHANGED <<usage, heard>>
      BY <2>1, <2>2, <2>7
    <2>8. CASE Fails(e, "unavailable") /\ Metered(e, answer) /\ UNCHANGED heard
      BY <2>1, <2>2, <2>3, <2>5, <2>8
    <2>9. CASE /\ answer.verdict = "ok" /\ Attested(answer)
               /\ heard' = [heard EXCEPT ![e] = answer.output]
               /\ Metered(e, answer) /\ GoTo(e, MyTask(e).turn) /\ UNCHANGED result
      <3>1. heard'[e] = p.output /\ pc'[e] = MyTask(e).turn /\ result' = result
        BY <1>1, <2>1, <2>9 DEF Attested, GoTo, TypeOK
      <3>2. p.verdict = "ok" /\ p.output \in Output
        BY <1>1, <2>1, <2>9 DEF TypeOK, Purchase
      <3> QED
        BY <2>1, <2>2, <2>3, <2>9, <3>1, <3>2
    <2> QED
      BY <1>2, <1>5, <2>6, <2>7, <2>8, <2>9 DEF JudgeAnswer
  <1> QED
    BY <1>4, <1>5

\* The names of the errors a turn may fail with.
LEMMA ErrorsNamed ==
    /\ {"boundary", "context", "output", "proposal", "refused", "budget", "delegation",
        "unavailable", "write", "internal"} \subseteq Errors
    /\ {"continue", "refuse", "final"} \subseteq Decision \cup {"final"}
    /\ "final" \notin Decision
  BY DEF Errors, Classified, Decision

\* The brief is read and the turn goes on, or ends without having asked.
LEMMA BriefIsRead ==
    ASSUME TypeOK, NEW e \in Execution, ReadBrief(e)
    PROVE  \/ /\ pc'[e] = "invoke" /\ result' = result
              /\ MyTask(e).turn # "conclude" /\ Supplied(e)
           \/ MyTask(e).turn = "conclude" /\ pc'[e] = "sign"
           \/ \E error \in {"boundary", "context"} : Fails(e, error)
  <1>1. CASE ConcludeDelegation(e) /\ MyTask(e).turn = "conclude"
    BY <1>1, ErrorsNamed, EndsWithItsReason DEF ConcludeDelegation
  <1>2. CASE ~(ConcludeDelegation(e) /\ MyTask(e).turn = "conclude")
    BY <1>2 DEF ReadBrief, GoTo, TypeOK
  <1> QED
    BY <1>1, <1>2

\* Each step leaves a turn where its own order of steps says it is.
LEMMA NextOrder == ASSUME IInv, [Next]_vars PROVE TurnsFollowTheOrder'
  <1> DEFINE Order(e) ==
        /\ pc[e] \in {"idle", "brief", "invoke", "awaitModel"}
              => usage[e].calls = <<>> /\ heard[e] = None /\ due[e] = None
        /\ pc[e] \in {"invoke", "awaitModel", "plan", "compose", "submit", "awaitWrite"}
              => MyTask(e).turn # "conclude" /\ Supplied(e)
        /\ pc[e] \notin {"sign"} \cup Ended => usage[e].writes = 0
        /\ pc[e] \in {"plan", "compose", "submit", "awaitWrite"} => heard[e] # None
        /\ pc[e] = "awaitWrite" => Meaning[heard[e]] = "page"
        /\ heard[e] # None => \E p \in purchases :
              /\ p.attempt = AttemptOf[e] /\ p.verdict = "ok"
              /\ p.output = heard[e] /\ usage[e].calls = <<p.key>>
  <1>1. TypeOK /\ \A f \in Execution : Order(f)
    BY DEF IInv, TurnsFollowTheOrder
  <1>2. task' = task /\ purchases \subseteq purchases'
    BY ControlGrows
  <1>3. \A f \in Execution : MyTask(f)' = MyTask(f) /\ Supplied(f)' = Supplied(f)
    BY <1>2 DEF MyTask, Supplied
  <1> SUFFICES ASSUME NEW f \in Execution PROVE Order(f)'
    BY DEF TurnsFollowTheOrder
  <1>4. Order(f)
    BY <1>1
  <1>5. CASE StandsStill(f)
    BY <1>2, <1>3, <1>4, <1>5 DEF StandsStill
  <1>6. ASSUME pc'[f] \in {"sign"} \cup Ended, heard'[f] = heard[f],
               usage'[f].calls = usage[f].calls
        PROVE  Order(f)'
    BY <1>2, <1>4, <1>6 DEF Ended
  <1>7. CASE Open(f) \/ Sign(f) \/ Falls(f) \/ EndContext(f)
    <2>1. CASE Open(f)
      BY <1>1, <1>2, <1>3, <1>4, <2>1 DEF Open, GoTo, TypeOK, Ended
    <2>2. CASE Sign(f) \/ Falls(f)
      BY <1>1, <1>6, <2>2 DEF Sign, Falls, GoTo, TypeOK, Ended
    <2>3. CASE EndContext(f)
      BY <1>2, <1>3, <1>4, <2>3 DEF EndContext
    <2> QED
      BY <1>7, <2>1, <2>2, <2>3
  <1>8. CASE ReadBrief(f)
    <2>1. UNCHANGED <<usage, heard, due>> /\ pc[f] = "brief"
      BY <1>8 DEF ReadBrief
    <2>2. CASE pc'[f] = "sign"
      BY <1>6, <2>1, <2>2
    <2>3. CASE pc'[f] = "invoke" /\ MyTask(f).turn # "conclude" /\ Supplied(f)
      BY <1>2, <1>3, <1>4, <2>1, <2>3 DEF Ended
    <2> QED
      BY <1>1, <1>8, <2>2, <2>3, BriefIsRead, ErrorsNamed, EndsWithItsReason
  <1>9. CASE InvokeModel(f)
    <2>1. UNCHANGED <<usage, heard, due>> /\ pc[f] = "invoke"
      BY <1>9 DEF InvokeModel
    <2>2. CASE pc'[f] = "sign"
      BY <1>6, <2>1, <2>2
    <2>3. CASE pc'[f] = "awaitModel"
      BY <1>2, <1>3, <1>4, <2>1, <2>3 DEF Ended
    <2> QED
      BY <1>1, <1>9, <2>2, <2>3, ErrorsNamed, EndsWithItsReason DEF InvokeModel, GoTo, TypeOK
  <1>10. CASE HearModel(f)
    <2>1. pc[f] = "awaitModel" /\ heard[f] = None /\ usage[f].writes = 0
          /\ MyTask(f).turn # "conclude" /\ Supplied(f)
      BY <1>4, <1>10 DEF HearModel, Ended
    <2>2. CASE /\ Fails(f, "unavailable") \/ Fails(f, "internal")
               /\ UNCHANGED <<usage, heard>>
      BY <1>1, <1>6, <2>2, ErrorsNamed, EndsWithItsReason
    <2>3. ASSUME NEW p \in purchases,
                 p.attempt = AttemptOf[f], usage'[f].calls = <<p.key>>,
                 usage'[f].writes = usage[f].writes,
                 \/ (\E error \in Errors : Fails(f, error)) /\ UNCHANGED heard
                 \/ /\ p.verdict = "ok" /\ heard'[f] = p.output /\ p.output \in Output
                    /\ pc'[f] = MyTask(f).turn /\ UNCHANGED result
          PROVE  Order(f)'
      <3>1. CASE (\E error \in Errors : Fails(f, error)) /\ UNCHANGED heard
        <4>1. pc'[f] = "sign" /\ heard'[f] = None
          BY <1>1, <2>1, <3>1, EndsWithItsReason
        <4> QED
          BY <4>1
      <3>2. CASE p.verdict = "ok" /\ heard'[f] = p.output /\ p.output \in Output
                 /\ pc'[f] = MyTask(f).turn
        <4>1. MyTask(f).turn \in {"compose", "plan"}
          BY <1>1, <2>1, TaskAssumption DEF TypeOK, Task, MyTask
        <4>2. p \in purchases' /\ heard'[f] # None
          BY <1>2, <3>2, AbsentAssumption
        <4> QED
          BY <1>3, <2>1, <2>3, <3>2, <4>1, <4>2
      <3> QED
        BY <2>3, <3>1, <3>2
    <2> QED
      BY <1>10, <2>2, <2>3, HearsItsOwn
  <1>11. CASE NoModelAnswer(f) \/ NoWriteAnswer(f)
    <2>1. \E error \in Errors : Fails(f, error)
      BY <1>11, ErrorsNamed DEF NoModelAnswer, NoWriteAnswer
    <2>2. UNCHANGED <<usage, heard>>
      BY <1>11 DEF NoModelAnswer, NoWriteAnswer
    <2> QED
      BY <1>1, <1>6, <2>1, <2>2, EndsWithItsReason
  <1>12. CASE Plan(f)
    <2>1. pc'[f] = "sign"
      BY <1>1, <1>12, ErrorsNamed, EndsWithItsReason DEF Plan
    <2> QED
      BY <1>6, <1>12, <2>1 DEF Plan
  <1>13. CASE Compose(f) \/ Submit(f)
    <2>1. UNCHANGED <<usage, heard, due>> /\ pc[f] \in {"compose", "submit"}
      BY <1>13 DEF Compose, Submit
    <2>2. CASE pc'[f] = "sign"
      BY <1>6, <2>1, <2>2
    <2>3. CASE pc'[f] = "submit" \/ (pc'[f] = "awaitWrite" /\ Meaning[heard[f]] = "page")
      BY <1>2, <1>3, <1>4, <2>1, <2>3 DEF Ended
    <2>4. \/ \E error \in Errors : Fails(f, error)
          \/ GoTo(f, "submit")
          \/ GoTo(f, "awaitWrite") /\ Meaning[heard[f]] = "page"
      BY <1>13, ErrorsNamed DEF Compose, Submit
    <2> QED
      BY <1>1, <2>2, <2>3, <2>4, EndsWithItsReason DEF GoTo, TypeOK
  <1>14. CASE HearWrite(f)
    <2>1. PICK r \in records : /\ usage' = [usage EXCEPT ![f].writes = @ + 1]
                               /\ Decides(f, "final", r.document)
      BY <1>14 DEF HearWrite
    <2>2. r.document \in Candidate
      BY <1>1 DEF TypeOK, Record
    <2>3. pc'[f] = "sign"
      BY <1>1, <2>1, <2>2, EndsWithItsReason
    <2>4. usage'[f].calls = usage[f].calls
      <3>1. usage' = [usage EXCEPT ![f] = [usage[f] EXCEPT !.writes = usage[f].writes + 1]]
        BY <2>1
      <3>2. [usage[f] EXCEPT !.writes = usage[f].writes + 1].calls = usage[f].calls
        BY <1>1 DEF TypeOK
      <3> QED
        BY <1>1, <3>1, <3>2 DEF TypeOK
    <2>5. heard' = heard
      BY <1>14 DEF HearWrite
    <2> QED
      BY <1>6, <2>3, <2>4, <2>5
  <1> QED
    BY <1>5, <1>7, <1>8, <1>9, <1>10, <1>11, <1>12, <1>13, <1>14, StillOrActs DEF Acts, Work

\* How a turn that is not a concluding one ends: with an error, which rests on
\* no answer or on one that was metered; with the plan's decision; or with a
\* recorded page.
LEMMA HowTurnsEnd ==
    ASSUME IInv, NEW e \in Execution, Acts(e)
    PROVE  \/ result'[e] = result[e] /\ usage'[e].calls = usage[e].calls
           \/ result'[e] = result[e] /\ pc[e] = "awaitModel"
           \/ MyTask(e).turn = "conclude"
           \/ \E error \in Errors :
                 /\ Fails(e, error)
                 /\ \/ Classified[error][2] \in {"MODEL_UNAVAILABLE", "REFUSED_BY_GUARDRAIL", "INTERNAL_ERROR"}
                    \/ usage'[e].calls # <<>>
           \/ /\ usage'[e].calls # <<>>
              /\ \E decision \in Decision : Decides(e, decision, None)
           \/ /\ usage'[e].calls # <<>> /\ heard[e] # None
              /\ \E r \in records : r.document = Built(e) /\ Decides(e, "final", r.document)
  <1>1. TypeOK /\ TurnsFollowTheOrder
    BY DEF IInv
  <1>2. pc[e] \in {"plan", "compose", "submit", "awaitWrite"}
          => heard[e] # None /\ usage[e].calls # <<>>
    BY <1>1 DEF TurnsFollowTheOrder
  <1>3. \A error \in {"boundary", "context", "output", "proposal", "unavailable", "internal"} :
           Classified[error][2] \in {"MODEL_UNAVAILABLE", "REFUSED_BY_GUARDRAIL", "INTERNAL_ERROR"}
    BY DEF Classified
  <1>4. CASE Open(e) \/ Sign(e) \/ EndContext(e)
    BY <1>4 DEF Open, Sign, EndContext
  <1>5. CASE ReadBrief(e)
    BY <1>1, <1>3, <1>5, BriefIsRead, ErrorsNamed DEF ReadBrief
  <1>6. CASE InvokeModel(e) \/ NoModelAnswer(e)
    BY <1>3, <1>6, ErrorsNamed DEF InvokeModel, NoModelAnswer
  <1>7. CASE HearModel(e)
    <2>1. CASE Fails(e, "unavailable") \/ Fails(e, "internal")
      BY <1>3, <2>1, ErrorsNamed
    <2>2. CASE \E p \in purchases :
                 /\ usage'[e].calls = <<p.key>>
                 /\ (\E error \in Errors : Fails(e, error)) \/ UNCHANGED result
      <3>1. pc[e] = "awaitModel"
        BY <1>7 DEF HearModel
      <3> QED
        BY <2>2, <3>1
    <2> QED
      BY <1>7, <2>1, <2>2, HearsItsOwn
  <1>8. CASE NoWriteAnswer(e)
    BY <1>2, <1>8, ErrorsNamed DEF NoWriteAnswer
  <1>9. CASE Plan(e)
    BY <1>2, <1>3, <1>9, ErrorsNamed DEF Plan
  <1>10. CASE Compose(e) \/ Submit(e)
    BY <1>2, <1>3, <1>10, ErrorsNamed DEF Compose, Submit
  <1>11. CASE HearWrite(e)
    <2>1. PICK r \in records : /\ About(r, Built(e))
                               /\ usage' = [usage EXCEPT ![e].writes = @ + 1]
                               /\ Decides(e, "final", r.document)
      BY <1>11 DEF HearWrite
    <2>2. usage'[e].calls = usage[e].calls
      <3>1. usage' = [usage EXCEPT ![e] = [usage[e] EXCEPT !.writes = usage[e].writes + 1]]
        BY <2>1
      <3>2. [usage[e] EXCEPT !.writes = usage[e].writes + 1].calls = usage[e].calls
        BY <1>1 DEF TypeOK
      <3> QED
        BY <1>1, <3>1, <3>2 DEF TypeOK
    <2> QED
      BY <1>2, <1>11, <2>1, <2>2 DEF HearWrite, About
  <1> QED
    BY <1>4, <1>5, <1>6, <1>7, <1>8, <1>9, <1>10, <1>11 DEF Acts, Work

\* A turn ends final only by hearing of the record of its own document.
LEMMA NextFinal == ASSUME IInv, [Next]_vars PROVE FinalNamesWhatWasRecorded'
  <1>1. /\ TypeOK /\ FinalNamesWhatWasRecorded /\ TurnsFollowTheOrder
        /\ RecordsStandOnBoughtOutput /\ NamesAndSubmissionsAreTheAttempts
    BY DEF IInv
  <1>2. task' = task /\ records \subseteq records'
    BY ControlGrows
  <1> SUFFICES ASSUME NEW f \in Execution, result'[f] # None, result'[f].decision = "final",
                      MyTask(f).turn = "compose"
               PROVE  \E r \in records : r.attempt = AttemptOf[f] /\ r.document = result'[f].artifact
    BY <1>2 DEF FinalNamesWhatWasRecorded, MyTask
  <1>3. CASE result'[f] = result[f]
    BY <1>1, <1>3 DEF FinalNamesWhatWasRecorded
  <1>4. CASE \E error \in Errors : Fails(f, error)
    BY <1>1, <1>4, EndsWithItsReason
  <1>5. CASE \E decision \in Decision : Decides(f, decision, None)
    BY <1>1, <1>5, EndsWithItsReason, ErrorsNamed
  <1>6. ASSUME heard[f] # None, NEW r \in records, r.document = Built(f),
               Decides(f, "final", r.document)
        PROVE  r.attempt = AttemptOf[f] /\ r.document = result'[f].artifact
    <2>1. r.document = result'[f].artifact
      <3>1. r.document \in Candidate \cup {Pinned, None}
        BY <1>1 DEF TypeOK, Record
      <3>2. "final" \in Decision \cup {"final"}
        OBVIOUS
      <3> QED
        BY <1>1, <1>6, <3>1, <3>2, EndsWithItsReason
    <2>2. PICK p \in purchases : p.attempt = AttemptOf[f] /\ usage[f].calls = <<p.key>>
      BY <1>1, <1>6 DEF TurnsFollowTheOrder
    <2>3. PICK q \in purchases : /\ q.attempt = r.attempt
                                 /\ r.document = [invocations |-> <<q.key>>, output |-> q.output]
      BY <1>1 DEF RecordsStandOnBoughtOutput, IsPageOf
    <2>4. <<p.key>> = <<q.key>>
      <3>1. r.document.invocations = usage[f].calls
        BY <1>6 DEF Built
      <3> QED
        BY <2>2, <2>3, <3>1
    <2>5. p.key = <<p.attempt, "model">> /\ q.key = <<q.attempt, "model">>
      BY <1>1 DEF NamesAndSubmissionsAreTheAttempts
    <2>6. p.attempt = q.attempt
      <3>1. p.key = q.key
        BY <2>4
      <3> QED
        BY <2>5, <3>1
    <2> QED
      BY <2>1, <2>2, <2>3, <2>6
  <1>7. Acts(f) \/ Falls(f) \/ StandsStill(f)
    BY StillOrActs
  <1> QED
    BY <1>3, <1>4, <1>5, <1>6, <1>7, HowTurnsEnd DEF StandsStill, Falls

\* What a turn comes to is something.
LEMMA OutcomesAreSome ==
    /\ \A error \in Errors : Failed(error) # None
    /\ \A decision \in Decision \cup {"final"}, artifact \in Candidate \cup {Pinned, None} :
          Decided(decision, artifact) # None
  <1>1. ASSUME NEW error \in Errors PROVE Failed(error) \in TurnOutcome
    <2>1. Classified[error][1] \in {"refused", "failed"}
      BY DEF Errors, Classified
    <2> QED
      BY <2>1 DEF Failed, TurnOutcome, Decision, Errors
  <1>2. ASSUME NEW decision \in Decision \cup {"final"}, NEW artifact \in Candidate \cup {Pinned, None}
        PROVE  Decided(decision, artifact) \in TurnOutcome
    <2>1. Classified["refused"][2] = "REFUSED_BY_POLICY" /\ "refused" \in DOMAIN Classified
      BY DEF Classified
    <2> QED
      BY <2>1 DEF Decided, TurnOutcome
  <1> QED
    BY <1>1, <1>2, OutcomeAssumption

\* The step that hears an answer is the one that meters it, and nothing that
\* ended unmetered is resumed.
LEMMA DueIsSettled ==
    ASSUME IInv, [Next]_vars, NEW f \in Execution, ~HearModel(f)
    PROVE  /\ due'[f] = due[f] /\ usage'[f].calls = usage[f].calls /\ heard'[f] = heard[f]
           /\ due[f] # None /\ heard[f] = None => result'[f] = result[f]
  <1>1. TypeOK /\ TurnsFollowTheOrder
    BY DEF IInv
  <1>2. CASE StandsStill(f) \/ Falls(f)
    BY <1>2 DEF StandsStill, Falls
  <1>3. CASE Acts(f)
    <2>1. due'[f] = due[f] /\ heard'[f] = heard[f] /\ usage'[f].calls = usage[f].calls
      <3>1. CASE HearWrite(f)
        <4>1. usage' = [usage EXCEPT ![f] = [usage[f] EXCEPT !.writes = usage[f].writes + 1]]
          BY <3>1 DEF HearWrite
        <4>2. [usage[f] EXCEPT !.writes = usage[f].writes + 1].calls = usage[f].calls
          BY <1>1 DEF TypeOK
        <4>3. UNCHANGED <<heard, due>>
          BY <3>1 DEF HearWrite
        <4> QED
          BY <1>1, <4>1, <4>2, <4>3 DEF TypeOK
      <3>2. CASE Open(f) \/ ReadBrief(f) \/ InvokeModel(f) \/ NoModelAnswer(f) \/ Plan(f)
        BY <3>2 DEF Open, ReadBrief, InvokeModel, NoModelAnswer, Plan
      <3>3. CASE Compose(f) \/ Submit(f) \/ NoWriteAnswer(f) \/ Sign(f) \/ EndContext(f)
        BY <3>3 DEF Compose, Submit, NoWriteAnswer, Sign, EndContext
      <3> QED
        BY <1>3, <3>1, <3>2, <3>3 DEF Acts, Work
    <2>2. ASSUME due[f] # None, heard[f] = None PROVE result'[f] = result[f]
      <3>1. pc[f] \notin {"idle", "brief", "invoke", "awaitModel", "plan", "compose", "submit",
                          "awaitWrite"}
        BY <1>1, <2>2 DEF TurnsFollowTheOrder
      <3>2. Sign(f) \/ EndContext(f)
        BY <1>3, <3>1 DEF Acts, Work, Open, ReadBrief, InvokeModel, HearModel, NoModelAnswer, Plan,
           Compose, Submit, HearWrite, NoWriteAnswer
      <3> QED
        BY <3>2 DEF Sign, EndContext
    <2> QED
      BY <2>1, <2>2
  <1> QED
    BY <1>2, <1>3, StillOrActs

\* What is due is settled when its answer is heard, and is what is reported at
\* the end.
LEMMA NextUsage == ASSUME IInv, [Next]_vars PROVE UsageIsTheAttemptsOwn'
  <1>1. TypeOK /\ UsageIsTheAttemptsOwn /\ TurnsFollowTheOrder /\ TurnsFollowTheOrder'
    BY NextOrder DEF IInv
  <1>2. task' = task /\ purchases \subseteq purchases'
    BY ControlGrows
  <1> DEFINE Unanswered == {"MODEL_UNAVAILABLE", "REFUSED_BY_GUARDRAIL", "INTERNAL_ERROR"}
  <1> SUFFICES ASSUME NEW f \in Execution
               PROVE  /\ due'[f] = None => usage'[f].calls = <<>>
                      /\ due'[f] # None =>
                            /\ \E p \in purchases' : p.attempt = AttemptOf[f] /\ due'[f] = p.key
                            /\ \/ usage'[f].calls = <<due'[f]>>
                               \/ /\ usage'[f].calls = <<>> /\ heard'[f] = None
                                  /\ result'[f] # None /\ result'[f].reason = "INTERNAL_ERROR"
                      /\ heard'[f] # None => usage'[f].calls # <<>>
                      /\ usage'[f].calls = <<>> /\ MyTask(f).turn # "conclude"
                            /\ result'[f] # None => result'[f].reason \in Unanswered
    BY <1>2 DEF UsageIsTheAttemptsOwn, MyTask
  <1>3. heard'[f] # None => usage'[f].calls # <<>>
    BY <1>1 DEF TurnsFollowTheOrder
  <1>4. CASE HearModel(f)
    <2>1. usage[f].calls = <<>> /\ heard[f] = None
      BY <1>1, <1>4 DEF HearModel, TurnsFollowTheOrder
    <2>2. CASE Fails(f, "unavailable") /\ UNCHANGED <<usage, heard>> /\ due'[f] = None
      <3>1. result'[f].reason \in Unanswered
        BY <1>1, <2>2, EndsWithItsReason, ErrorsNamed DEF Classified
      <3> QED
        BY <1>3, <2>1, <2>2, <3>1
    <2>3. ASSUME NEW p \in purchases, p.attempt = AttemptOf[f], due'[f] = p.key, p.key # None,
                 Fails(f, "internal"), UNCHANGED <<usage, heard>>
          PROVE  /\ \E q \in purchases' : q.attempt = AttemptOf[f] /\ due'[f] = q.key
                 /\ due'[f] # None /\ usage'[f].calls = <<>> /\ heard'[f] = None
                 /\ result'[f] # None /\ result'[f].reason = "INTERNAL_ERROR"
      <3>1. result'[f].reason = "INTERNAL_ERROR"
        BY <1>1, <2>3, EndsWithItsReason, ErrorsNamed DEF Classified
      <3>2. result'[f] # None
        <4>1. result'[f] = Failed("internal")
          BY <1>1, <2>3 DEF Fails, Ends, TypeOK
        <4> QED
          BY <4>1, OutcomesAreSome, ErrorsNamed
      <3> QED
        BY <1>2, <2>1, <2>3, <3>1, <3>2
    <2>4. ASSUME NEW p \in purchases, p.attempt = AttemptOf[f], due'[f] = p.key, p.key # None,
                 usage'[f].calls = <<p.key>>
          PROVE  /\ \E q \in purchases' : q.attempt = AttemptOf[f] /\ due'[f] = q.key
                 /\ due'[f] # None /\ usage'[f].calls = <<due'[f]>> /\ usage'[f].calls # <<>>
      BY <1>2, <2>4
    <2> QED
      BY <1>3, <1>4, <2>2, <2>3, <2>4, HearsItsOwn
  <1>5. CASE ~HearModel(f)
    <2>1. /\ due'[f] = due[f] /\ usage'[f].calls = usage[f].calls /\ heard'[f] = heard[f]
          /\ due[f] # None /\ heard[f] = None => result'[f] = result[f]
      BY <1>5, DueIsSettled
    <2>2. ASSUME usage'[f].calls = <<>>, MyTask(f).turn # "conclude", result'[f] # None
          PROVE  result'[f].reason \in Unanswered
      <3>1. CASE result'[f] = result[f]
        BY <1>1, <2>1, <2>2, <3>1 DEF UsageIsTheAttemptsOwn
      <3>2. CASE \E error \in Errors :
                   /\ Fails(f, error)
                   /\ Classified[error][2] \in Unanswered \/ usage'[f].calls # <<>>
        BY <1>1, <2>2, <3>2, EndsWithItsReason
      <3>3. Acts(f) \/ Falls(f) \/ StandsStill(f)
        BY StillOrActs
      <3> QED
        BY <2>2, <3>1, <3>2, <3>3, HowTurnsEnd DEF StandsStill, Falls
    <2> QED
      BY <1>1, <1>2, <1>3, <2>1, <2>2 DEF UsageIsTheAttemptsOwn
  <1> QED
    BY <1>4, <1>5
-----------------------------------------------------------------------------
(***************************************************************************)
(* The theorems.                                                           *)
(***************************************************************************)

\* Nothing is bought, sent, recorded or decided at first.
LEMMA InitIInv == Init => IInv
  <1> SUFFICES ASSUME Init PROVE IInv
    OBVIOUS
  <1>1. TurnsFollowTheOrder /\ UsageIsTheAttemptsOwn /\ FinalNamesWhatWasRecorded
    BY DEF Init, TurnsFollowTheOrder, UsageIsTheAttemptsOwn, FinalNamesWhatWasRecorded
  <1> QED
    BY <1>1, InitTypes DEF Init, IInv, DecisionsAreBoughtOnce,
       NamesAndSubmissionsAreTheAttempts, RecordsStandOnBoughtOutput, OnlyReleasedCallsLeave

\* The invariant is kept by every step of an execution, of what happens to one
\* and of the control plane.
LEMMA NextIInv == IInv /\ [Next]_vars => IInv'
  BY NextTypes, NextBoughtOnce, NextNames, NextOrder, NextRecordsStand, NextFinal,
     NextUsage, NextReleased DEF IInv

\* The inductive invariant holds throughout, however executions interleave, end
\* and are repeated.
THEOREM Invariance == Spec => []IInv
  BY NextIInv, InitIInv, PTL DEF Spec

\* Every variable stays in its type: an outcome is always one a result can
\* carry, and an execution writes at most once.
THEOREM TypeCorrect == Spec => []TypeOK
  <1>1. IInv => TypeOK
    BY DEF IInv
  <1> QED
    BY <1>1, Invariance, PTL

\* The model decision of an attempt is bought once, by however many executions
\* it is asked for.
THEOREM BoughtOnce == Spec => []DecisionsAreBoughtOnce
  <1>1. IInv => DecisionsAreBoughtOnce
    BY DEF IInv
  <1> QED
    BY <1>1, Invariance, PTL

\* All the candidates ever sent for an attempt are one document: a document
\* holds the one output bought for it, and that purchase's name.
THEOREM OneCandidate == Spec => []OneCandidatePerAttempt
  <1>1. ASSUME IInv PROVE OneCandidatePerAttempt
    <2>1. ASSUME NEW q \in wire, NEW r \in wire, q.op = "artifact", r.op = "artifact",
                 q.attempt = r.attempt
          PROVE  q.document = r.document
      <3>1. IsPageOf(q.document, q.attempt) /\ IsPageOf(r.document, r.attempt)
        BY <1>1, <2>1 DEF IInv, NamesAndSubmissionsAreTheAttempts
      <3> QED
        BY <1>1, <2>1, <3>1 DEF IInv, DecisionsAreBoughtOnce, IsPageOf
    <2> QED
      BY <2>1 DEF OneCandidatePerAttempt
  <1> QED
    BY <1>1, Invariance, PTL

\* What the control plane records for an attempt was composed from the output
\* it bought for that attempt.
THEOREM RecordsStand == Spec => []RecordsStandOnBoughtOutput
  <1>1. IInv => RecordsStandOnBoughtOutput
    BY DEF IInv
  <1> QED
    BY <1>1, Invariance, PTL

\* A page is final only under a reference recorded for the same attempt, though
\* an execution believes any reference that is about its document.
THEOREM FinalsAreRecorded == Spec => []FinalNamesWhatWasRecorded
  <1>1. IInv => FinalNamesWhatWasRecorded
    BY DEF IInv
  <1> QED
    BY <1>1, Invariance, PTL

\* Whoever had an answer of its attempt's own reports the invocation it names,
\* which is the one that was bought, once: refused or not, believed or not.  The
\* execution whose answer has no canonical form is the one that reports none, and
\* ends as internal.
THEOREM UsageIsOwn == Spec => []UsageIsTheAttemptsOwn
  <1>1. IInv => UsageIsTheAttemptsOwn
    BY DEF IInv
  <1> QED
    BY <1>1, Invariance, PTL

\* No call a release does not name is ever sent.
THEOREM OnlyReleased == Spec => []OnlyReleasedCallsLeave
  <1>1. IInv => OnlyReleasedCallsLeave
    BY DEF IInv
  <1> QED
    BY <1>1, Invariance, PTL
-----------------------------------------------------------------------------
(***************************************************************************)
(* However often an attempt is executed, those of its executions that come *)
(* to a verdict come to one.  A verdict is determined: by the task alone   *)
(* when nothing is asked of the model, and otherwise by the task and the   *)
(* one decision that was bought.                                           *)
(***************************************************************************)
\* The turns that end without having asked.
Refusal == Failed("boundary")

Concluded(mine) ==
    IF mine.brief = "complete" /\ mine.delegation = "failed" THEN Failed("delegation")
    ELSE IF mine.brief = "complete" /\ mine.delegation = "refused" THEN Decided("refuse", None)
    ELSE IF mine.brief = "complete" /\ mine.delegation = "completed" THEN Decided("final", Pinned)
    ELSE IF mine.brief # "forbidden" /\ mine.delegation = "pending"
         THEN Decided("continue", None)
    ELSE Refusal

Asking(mine) ==
    mine.turn # "conclude" /\ mine.brief = "complete" /\ "model" \in mine.released

\* What a decision that was bought comes to.
BoughtAs(mine, p) ==
    IF p.verdict # "ok" THEN Failed(p.verdict)
    ELSE IF mine.turn = "plan" /\ Meaning[p.output] \in Decision
         THEN Decided(Meaning[p.output], None)
    ELSE IF mine.turn # "plan" /\ "artifact" \in mine.released /\ Meaning[p.output] = "page"
         THEN Decided("final", [invocations |-> <<p.key>>, output |-> p.output])
    ELSE Refusal

Determined(a, outcome) ==
    \/ task[a].turn = "conclude" /\ outcome = Concluded(task[a])
    \/ task[a].turn # "conclude" /\ ~Asking(task[a]) /\ outcome = Refusal
    \/ /\ Asking(task[a])
       /\ \E p \in purchases : p.attempt = a /\ outcome = BoughtAs(task[a], p)

VerdictsAreDetermined ==
    \A e \in Execution :
        result[e] # None /\ result[e].reason \notin Transient => Determined(AttemptOf[e], result[e])

StepsSuitTheTurn ==
    \A e \in Execution :
        /\ pc[e] \in {"awaitModel", "plan", "compose", "submit", "awaitWrite"}
              => Asking(MyTask(e))
        /\ pc[e] = "plan" => MyTask(e).turn = "plan"
        /\ pc[e] \in {"compose", "submit", "awaitWrite"} => MyTask(e).turn = "compose"
        /\ pc[e] = "submit" => Meaning[heard[e]] \in {"page", "oversized"}
        /\ pc[e] = "awaitWrite" => "artifact" \in MyTask(e).released

VInv == IInv /\ StepsSuitTheTurn /\ VerdictsAreDetermined
-----------------------------------------------------------------------------
\* Whatever a turn is refused for, the refusal is one.
LEMMA RefusalsAreAlike ==
    \A error \in {"boundary", "context", "output", "proposal"} : Failed(error) = Refusal
  BY DEF Failed, Refusal, Classified

\* A failure that is no verdict says nothing of the work.
LEMMA TransientFailures ==
    \A error \in {"unavailable", "write", "internal"} : Failed(error).reason \in Transient
  BY DEF Failed, Classified, Transient

\* A turn that ends comes to what it ends with.
LEMMA EndsWithIt ==
    ASSUME TypeOK, NEW e \in Execution, NEW outcome, Ends(e, outcome)
    PROVE  pc'[e] = "sign" /\ result'[e] = outcome
  BY DEF TypeOK, Ends, GoTo

\* An execution that fails for a reason ends with it.
LEMMA FailsWithIt ==
    ASSUME TypeOK, NEW e \in Execution, NEW error, Fails(e, error)
    PROVE  pc'[e] = "sign" /\ result'[e] = Failed(error)
  BY EndsWithIt DEF Fails

\* An execution that decides ends with what it decided.
LEMMA DecidesOnIt ==
    ASSUME TypeOK, NEW e \in Execution, NEW decision, NEW artifact, Decides(e, decision, artifact)
    PROVE  pc'[e] = "sign" /\ result'[e] = Decided(decision, artifact)
  BY EndsWithIt DEF Decides

\* What is determined stays so: a task is not changed, nor a purchase taken back.
LEMMA StaysDetermined ==
    ASSUME [Next]_vars, NEW f \in Execution, Determined(AttemptOf[f], result'[f])
    PROVE  Determined(AttemptOf[f], result[f])'
  BY ControlGrows DEF Determined

\* An execution that hears the model ends for the want of an answer, or as its
\* attempt's purchase says, or goes on with the output that was bought.
LEMMA HearsWhatWasBought ==
    ASSUME VInv, NEW e \in Execution, HearModel(e)
    PROVE  \/ Fails(e, "unavailable") \/ Fails(e, "internal")
           \/ \E p \in purchases :
                 p.attempt = AttemptOf[e] /\ p.verdict # "ok" /\ Fails(e, p.verdict)
           \/ GoTo(e, MyTask(e).turn) /\ UNCHANGED result
  <1>1. TypeOK
    BY DEF VInv, IInv
  <1>2. PICK answer \in ModelAnswers :
           \/ Fails(e, "unavailable") \/ Fails(e, "internal")
           \/ Ours(e, answer) /\ answer.verdict # "ok" /\ Fails(e, answer.verdict)
           \/ GoTo(e, MyTask(e).turn) /\ UNCHANGED result
    BY DEF HearModel, JudgeAnswer
  <1>3. CASE Ours(e, answer) /\ answer.verdict # "ok" /\ Fails(e, answer.verdict)
    <2>1. PICK p \in purchases : p.attempt = AttemptOf[e] /\ answer.verdict = p.verdict
      BY <1>1, <1>3, OursAreBought
    <2> QED
      BY <1>3, <2>1
  <1> QED
    BY <1>2, <1>3
-----------------------------------------------------------------------------
\* The steps of a turn are those of its task.
LEMMA NextSteps == ASSUME VInv, [Next]_vars PROVE StepsSuitTheTurn'
  <1>1. TypeOK /\ TurnsFollowTheOrder /\ StepsSuitTheTurn /\ IInv
    BY DEF VInv, IInv
  <1>2. task' = task
    BY ControlGrows
  <1> SUFFICES ASSUME NEW f \in Execution
               PROVE  /\ pc'[f] \in {"awaitModel", "plan", "compose", "submit", "awaitWrite"}
                            => Asking(MyTask(f))
                      /\ pc'[f] = "plan" => MyTask(f).turn = "plan"
                      /\ pc'[f] \in {"compose", "submit", "awaitWrite"} => MyTask(f).turn = "compose"
                      /\ pc'[f] = "submit" => Meaning[heard'[f]] \in {"page", "oversized"}
                      /\ pc'[f] = "awaitWrite" => "artifact" \in MyTask(f).released
    BY <1>2 DEF StepsSuitTheTurn, MyTask
  <1>3. CASE pc'[f] \in {"sign", "brief", "invoke"} \cup Ended
    BY <1>3 DEF Ended
  <1>4. CASE StandsStill(f)
    BY <1>1, <1>4 DEF StandsStill, StepsSuitTheTurn
  <1>5. CASE Open(f) \/ Sign(f) \/ Falls(f)
    BY <1>1, <1>3, <1>5 DEF Open, Sign, Falls, GoTo, TypeOK, Ended
  <1>6. CASE EndContext(f)
    BY <1>1, <1>6 DEF EndContext, StepsSuitTheTurn
  <1>7. CASE ReadBrief(f)
    BY <1>1, <1>3, <1>7, BriefIsRead, FailsWithIt
  <1>8. CASE InvokeModel(f)
    <2>1. CASE pc'[f] = "sign"
      BY <1>3, <2>1
    <2>2. CASE May(f, "model") /\ pc'[f] = "awaitModel"
      BY <1>1, <1>8, <2>2 DEF InvokeModel, TurnsFollowTheOrder, Asking, May, Supplied
    <2> QED
      BY <1>1, <1>8, <2>1, <2>2, FailsWithIt DEF InvokeModel, GoTo, TypeOK
  <1>9. CASE HearModel(f)
    <2>1. Asking(MyTask(f))
      BY <1>1, <1>9 DEF HearModel, StepsSuitTheTurn
    <2>2. CASE pc'[f] = "sign"
      BY <1>3, <2>2
    <2>3. CASE pc'[f] = MyTask(f).turn
      <3>1. MyTask(f).turn \in {"plan", "compose"}
        BY <1>1, <2>1, TaskAssumption DEF TypeOK, Task, MyTask, Asking
      <3> QED
        BY <2>1, <2>3, <3>1
    <2> QED
      BY <1>1, <1>9, <2>2, <2>3, FailsWithIt, HearsWhatWasBought DEF GoTo, TypeOK
  <1>10. CASE NoModelAnswer(f) \/ NoWriteAnswer(f)
    BY <1>1, <1>3, <1>10, FailsWithIt DEF NoModelAnswer, NoWriteAnswer
  <1>11. CASE Plan(f)
    BY <1>1, <1>3, <1>11, FailsWithIt, DecidesOnIt DEF Plan
  <1>12. CASE Compose(f)
    <2>1. heard' = heard /\ pc[f] = "compose"
      BY <1>12 DEF Compose
    <2>2. CASE pc'[f] = "sign"
      BY <1>3, <2>2
    <2>3. CASE pc'[f] = "submit" /\ Meaning[heard[f]] \in {"page", "oversized"}
      BY <1>1, <2>1, <2>3 DEF StepsSuitTheTurn
    <2> QED
      BY <1>1, <1>12, <2>2, <2>3, FailsWithIt DEF Compose, GoTo, TypeOK
  <1>13. CASE Submit(f)
    <2>1. heard' = heard /\ pc[f] = "submit"
      BY <1>13 DEF Submit
    <2>2. CASE pc'[f] = "sign"
      BY <1>3, <2>2
    <2>3. CASE pc'[f] = "awaitWrite" /\ May(f, "artifact")
      BY <1>1, <2>1, <2>3 DEF StepsSuitTheTurn, May
    <2> QED
      BY <1>1, <1>13, <2>2, <2>3, FailsWithIt DEF Submit, GoTo, TypeOK
  <1>14. CASE HearWrite(f)
    BY <1>1, <1>3, <1>14, DecidesOnIt DEF HearWrite
  <1> QED
    BY <1>1, <1>4, <1>5, <1>6, <1>7, <1>8, <1>9, <1>10, <1>11, <1>12, <1>13, <1>14, StillOrActs
    DEF Acts, Work
-----------------------------------------------------------------------------
\* A turn that reads its brief and ends there ends as its task determines.
LEMMA BriefDetermines ==
    ASSUME VInv, NEW e \in Execution, ReadBrief(e)
    PROVE  result'[e] = result[e] \/ Determined(AttemptOf[e], result'[e])
  <1>1. TypeOK
    BY DEF VInv, IInv
  <1> DEFINE mine == task[AttemptOf[e]]
  <1>2. CASE mine.brief = "forbidden"
    <2>1. result'[e] = Refusal
      BY <1>1, <1>2, FailsWithIt, RefusalsAreAlike DEF ReadBrief, MyTask
    <2>2. mine.turn = "conclude" => Concluded(mine) = Refusal
      BY <1>2 DEF Concluded
    <2>3. ~Asking(mine)
      BY <1>2 DEF Asking
    <2> QED
      BY <2>1, <2>2, <2>3 DEF Determined
  <1>3. CASE mine.brief # "forbidden" /\ mine.turn = "conclude"
    <2>1. ConcludeDelegation(e)
      BY <1>3 DEF ReadBrief, MyTask
    <2>2. CASE mine.delegation = "pending" /\ Decides(e, "continue", None)
      BY <1>1, <1>3, <2>2, DecidesOnIt DEF Determined, Concluded
    <2>3. CASE mine.delegation \in {"unknown", "foreign"} /\ (Fails(e, "context") \/ Fails(e, "proposal"))
      BY <1>1, <1>3, <2>3, FailsWithIt, RefusalsAreAlike DEF Determined, Concluded
    <2>4. CASE /\ mine.delegation \in {"refused", "failed", "completed"}
               /\ mine.brief = "incomplete" /\ Fails(e, "context")
      BY <1>1, <1>3, <2>4, FailsWithIt, RefusalsAreAlike DEF Determined, Concluded
    <2>5. CASE mine.brief = "complete" /\ mine.delegation = "refused" /\ Decides(e, "refuse", None)
      BY <1>1, <1>3, <2>5, DecidesOnIt DEF Determined, Concluded
    <2>6. CASE mine.brief = "complete" /\ mine.delegation = "failed" /\ Fails(e, "delegation")
      BY <1>1, <1>3, <2>6, FailsWithIt DEF Determined, Concluded
    <2>7. CASE mine.brief = "complete" /\ mine.delegation = "completed" /\ Decides(e, "final", Pinned)
      BY <1>1, <1>3, <2>7, DecidesOnIt DEF Determined, Concluded
    <2> QED
      BY <2>1, <2>2, <2>3, <2>4, <2>5, <2>6, <2>7 DEF ConcludeDelegation, MyTask
  <1>4. CASE mine.brief # "forbidden" /\ mine.turn # "conclude"
    <2>1. CASE UNCHANGED result
      BY <2>1
    <2>2. CASE mine.brief # "complete" /\ Fails(e, "context")
      BY <1>1, <1>4, <2>2, FailsWithIt, RefusalsAreAlike DEF Determined, Asking
    <2> QED
      BY <1>4, <2>1, <2>2 DEF ReadBrief, MyTask, Supplied
  <1> QED
    BY <1>2, <1>3, <1>4

\* A turn that ends on what it heard ends as the purchase determines.
LEMMA PurchaseDetermines ==
    ASSUME VInv, NEW e \in Execution,
           Plan(e) \/ Compose(e) \/ Submit(e) \/ HearWrite(e)
    PROVE  \/ result'[e] = result[e] \/ result'[e].reason \in Transient
           \/ Determined(AttemptOf[e], result'[e])
  <1>1. TypeOK /\ TurnsFollowTheOrder /\ StepsSuitTheTurn
    BY DEF VInv, IInv
  <1> DEFINE mine == task[AttemptOf[e]]
  <1>2. pc[e] \in {"plan", "compose", "submit", "awaitWrite"}
    BY DEF Plan, Compose, Submit, HearWrite
  <1>3. PICK p \in purchases : /\ p.attempt = AttemptOf[e] /\ p.verdict = "ok"
                               /\ p.output = heard[e] /\ usage[e].calls = <<p.key>>
    BY <1>1, <1>2 DEF TurnsFollowTheOrder
  <1>4. Asking(mine)
    BY <1>1, <1>2 DEF StepsSuitTheTurn, MyTask
  <1>5. ASSUME result'[e] = BoughtAs(mine, p) PROVE Determined(AttemptOf[e], result'[e])
    BY <1>3, <1>4, <1>5 DEF Determined
  <1>6. CASE Plan(e)
    <2>1. mine.turn = "plan"
      BY <1>1, <1>6 DEF Plan, StepsSuitTheTurn, MyTask
    <2>2. CASE Meaning[heard[e]] \in Decision /\ Decides(e, Meaning[heard[e]], None)
      BY <1>1, <1>3, <1>5, <2>1, <2>2, DecidesOnIt DEF BoughtAs
    <2>3. CASE Meaning[heard[e]] \notin Decision /\ (Fails(e, "output") \/ Fails(e, "proposal"))
      BY <1>1, <1>3, <1>5, <2>1, <2>3, FailsWithIt, RefusalsAreAlike DEF BoughtAs
    <2>4. "unusable" \notin Decision
      BY DEF Decision
    <2> QED
      BY <1>6, <2>2, <2>3, <2>4 DEF Plan
  <1>7. CASE Compose(e)
    <2>1. CASE UNCHANGED result
      BY <2>1
    <2>2. CASE Meaning[heard[e]] # "page" /\ (Fails(e, "output") \/ Fails(e, "proposal"))
      <3>1. mine.turn # "plan"
        BY <1>1, <1>7 DEF Compose, StepsSuitTheTurn, MyTask
      <3> QED
        BY <1>1, <1>3, <1>5, <2>2, <3>1, FailsWithIt, RefusalsAreAlike DEF BoughtAs
    <2> QED
      BY <1>7, <2>1, <2>2 DEF Compose
  <1>8. CASE Submit(e)
    <2>1. mine.turn # "plan"
      BY <1>1, <1>8 DEF Submit, StepsSuitTheTurn, MyTask
    <2>2. CASE ~May(e, "artifact") /\ Fails(e, "boundary")
      BY <1>1, <1>3, <1>5, <2>1, <2>2, FailsWithIt, RefusalsAreAlike DEF BoughtAs, May, MyTask
    <2>3. CASE Fails(e, "write") \/ Fails(e, "internal")
      BY <1>1, <2>3, FailsWithIt, TransientFailures
    <2>4. CASE UNCHANGED result
      BY <2>4
    <2> QED
      BY <1>8, <2>2, <2>3, <2>4 DEF Submit
  <1>9. CASE HearWrite(e)
    <2>1. PICK r \in records : About(r, Built(e)) /\ Decides(e, "final", r.document)
      BY <1>9 DEF HearWrite
    <2>2. r.document = [invocations |-> <<p.key>>, output |-> p.output]
      BY <1>3, <2>1 DEF About, Built
    <2>3. mine.turn # "plan" /\ "artifact" \in mine.released /\ Meaning[p.output] = "page"
      BY <1>1, <1>3, <1>9 DEF HearWrite, StepsSuitTheTurn, TurnsFollowTheOrder, MyTask
    <2>4. result'[e] = Decided("final", [invocations |-> <<p.key>>, output |-> p.output])
      BY <1>1, <2>1, <2>2, DecidesOnIt
    <2> QED
      BY <1>3, <1>5, <2>3, <2>4 DEF BoughtAs
  <1> QED
    BY <1>6, <1>7, <1>8, <1>9

\* A verdict follows from what the attempt was supplied and what it bought, at every step.
LEMMA NextVerdicts == ASSUME VInv, [Next]_vars PROVE VerdictsAreDetermined'
  <1>1. TypeOK /\ TurnsFollowTheOrder /\ StepsSuitTheTurn /\ VerdictsAreDetermined /\ IInv
    BY DEF VInv, IInv
  <1> SUFFICES ASSUME NEW f \in Execution, result'[f] # None, result'[f].reason \notin Transient
               PROVE  Determined(AttemptOf[f], result[f])'
    BY DEF VerdictsAreDetermined
  <1>2. CASE result'[f] = result[f]
    BY <1>1, <1>2, StaysDetermined DEF VerdictsAreDetermined
  <1>3. CASE Determined(AttemptOf[f], result'[f])
    BY <1>3, StaysDetermined
  <1>4. CASE Open(f) \/ Sign(f) \/ EndContext(f) \/ Falls(f) \/ StandsStill(f)
    BY <1>2, <1>4 DEF Open, Sign, EndContext, Falls, StandsStill
  <1>5. CASE ReadBrief(f)
    BY <1>2, <1>3, <1>5, BriefDetermines
  <1>6. CASE InvokeModel(f)
    <2>1. CASE ~May(f, "model") /\ Fails(f, "boundary")
      <3>1. result'[f] = Refusal
        BY <1>1, <2>1, FailsWithIt, RefusalsAreAlike
      <3>2. task[AttemptOf[f]].turn # "conclude" /\ ~Asking(task[AttemptOf[f]])
        BY <1>1, <1>6, <2>1 DEF InvokeModel, TurnsFollowTheOrder, May, MyTask, Asking
      <3> QED
        BY <1>3, <3>1, <3>2 DEF Determined
    <2>2. CASE Fails(f, "unavailable") \/ Fails(f, "internal")
      BY <1>1, <2>2, FailsWithIt, TransientFailures
    <2>3. CASE UNCHANGED result
      BY <1>2, <2>3
    <2> QED
      BY <1>6, <2>1, <2>2, <2>3 DEF InvokeModel
  <1>7. CASE HearModel(f)
    <2>1. CASE Fails(f, "unavailable") \/ Fails(f, "internal")
      BY <1>1, <2>1, FailsWithIt, TransientFailures
    <2>2. CASE UNCHANGED result
      BY <1>2, <2>2
    <2>3. ASSUME NEW p \in purchases, p.attempt = AttemptOf[f], p.verdict # "ok", Fails(f, p.verdict)
          PROVE  Determined(AttemptOf[f], result'[f])
      <3>1. Asking(task[AttemptOf[f]])
        BY <1>1, <1>7 DEF HearModel, StepsSuitTheTurn, MyTask
      <3>2. result'[f] = BoughtAs(task[AttemptOf[f]], p)
        BY <1>1, <2>3, FailsWithIt DEF BoughtAs
      <3> QED
        BY <2>3, <3>1, <3>2 DEF Determined
    <2> QED
      BY <1>3, <1>7, <2>1, <2>2, <2>3, HearsWhatWasBought
  <1>8. CASE NoModelAnswer(f) \/ NoWriteAnswer(f)
    BY <1>1, <1>8, FailsWithIt, TransientFailures DEF NoModelAnswer, NoWriteAnswer
  <1>9. CASE Plan(f) \/ Compose(f) \/ Submit(f) \/ HearWrite(f)
    BY <1>2, <1>3, <1>9, PurchaseDetermines
  <1> QED
    BY <1>1, <1>4, <1>5, <1>6, <1>7, <1>8, <1>9, StillOrActs DEF Acts, Work

\* No execution has a verdict at first.
LEMMA InitVInv == Init => VInv
  BY InitIInv DEF Init, VInv, StepsSuitTheTurn, VerdictsAreDetermined

\* The invariant of the verdicts is inductive.
LEMMA NextVInv == VInv /\ [Next]_vars => VInv'
  BY NextIInv, NextSteps, NextVerdicts DEF VInv

\* What is determined is one verdict: a decision is bought once.
LEMMA DeterminedAgree == VInv => VerdictsAgree
  <1> SUFFICES ASSUME VInv, NEW e \in Execution, NEW f \in Execution, AttemptOf[e] = AttemptOf[f],
                      result[e] # None, result[f] # None,
                      {result[e].reason, result[f].reason} \cap Transient = {}
               PROVE  result[e] = result[f]
    BY DEF VerdictsAgree
  <1>1. Determined(AttemptOf[e], result[e]) /\ Determined(AttemptOf[e], result[f])
    BY DEF VInv, VerdictsAreDetermined
  <1>2. \A p, q \in purchases : p.attempt = q.attempt => p = q
    BY DEF VInv, IInv, DecisionsAreBoughtOnce
  <1> QED
    BY <1>1, <1>2 DEF Determined, Asking
-----------------------------------------------------------------------------
\* Executions of one attempt that come to a verdict come to the same one.
THEOREM VerdictsAreOne == Spec => []VerdictsAgree
  BY InitVInv, NextVInv, DeterminedAgree, PTL DEF Spec
-----------------------------------------------------------------------------
(***************************************************************************)
(* The executions of an attempt, however many, do the work of AttemptWork  *)
(* once.  What it bought and kept is what the control plane has for it,    *)
(* and its verdict what any of its executions came to; a failure on the    *)
(* way to the control plane is no verdict.                                 *)
(***************************************************************************)
Comes(mine) == IF mine.turn = "conclude" THEN Concluded(mine) ELSE Refusal

PagesOf(mine, p) ==
    IF BoughtAs(mine, p).decision = "final" THEN {BoughtAs(mine, p).artifact} ELSE {}

BoughtFor == [a \in Attempt |-> {p \in purchases : p.attempt = a}]
KeptFor ==
    [a \in Attempt |-> {r.document : r \in {r \in records : r.attempt = a}}]

Settled(e) == result[e] # None /\ result[e].reason \notin Transient
CameTo ==
    [a \in Attempt |-> {result[e] : e \in {e \in Execution : AttemptOf[e] = a /\ Settled(e)}}]

Attempted == INSTANCE AttemptWork
    WITH bought <- BoughtFor, kept <- KeptFor, verdict <- CameTo,
         Asks <- Asking, Unasked <- Comes, Bought <- BoughtAs, Pages <- PagesOf

\* A turn that is not over came to nothing, and only pages are submitted.
ResultsComeLast ==
    /\ \A e \in Execution : pc[e] \notin {"sign"} \cup Ended => result[e] = None
    /\ \A q \in wire : q.op = "artifact" => task[q.attempt].turn = "compose"

WInv == VInv /\ ResultsComeLast-----------------------------------------------------------------------------
\* What a turn comes to is the last thing it does before it is signed.
LEMMA EndsLast ==
    ASSUME WInv, NEW e \in Execution, Acts(e)
    PROVE  result'[e] = result[e] \/ (result[e] = None /\ pc'[e] = "sign")
  <1>1. TypeOK /\ ResultsComeLast
    BY DEF WInv, VInv, IInv
  <1>2. CASE Open(e) \/ Sign(e) \/ EndContext(e)
    BY <1>2 DEF Open, Sign, EndContext
  <1>3. CASE ~(Open(e) \/ Sign(e) \/ EndContext(e))
    <2>1. result[e] = None
      BY <1>1, <1>3 DEF Acts, Work, ResultsComeLast, Ended, ReadBrief, InvokeModel, HearModel,
         NoModelAnswer, Plan, Compose, Submit, HearWrite, NoWriteAnswer
    <2>2. result' = result \/ pc'[e] = "sign"
      BY <1>1, <1>3 DEF Acts, Work, ReadBrief, ConcludeDelegation, InvokeModel, HearModel,
         NoModelAnswer, Plan, Compose, Submit, HearWrite, NoWriteAnswer,
         JudgeAnswer, Decides, Fails, Ends, GoTo, TypeOK
    <2> QED
      BY <2>1, <2>2
  <1> QED
    BY <1>2, <1>3

\* Only a turn that composes submits.
LEMMA OnlyPagesPosted ==
    ASSUME VInv, NEW e \in Execution, Acts(e)
    PROVE  \/ wire' = wire
           \/ \E document : Post(e, "model", document)
           \/ \E document : Post(e, "artifact", document) /\ MyTask(e).turn = "compose"
  <1>1. CASE InvokeModel(e)
    BY <1>1 DEF InvokeModel
  <1>2. CASE Submit(e)
    BY <1>2 DEF Submit, VInv, StepsSuitTheTurn
  <1>3. CASE ~(InvokeModel(e) \/ Submit(e))
    BY <1>3 DEF Acts, Work, Open, ReadBrief, HearModel, NoModelAnswer, Plan, Compose, HearWrite,
       NoWriteAnswer, Sign, EndContext
  <1> QED
    BY <1>1, <1>2, <1>3

\* Results come last, and pages alone are submitted, after every step.
LEMMA NextLast == ASSUME WInv, [Next]_vars PROVE ResultsComeLast'
  <1>1. TypeOK /\ IInv /\ ResultsComeLast /\ VInv
    BY DEF WInv, VInv, IInv
  <1>2. task' = task
    BY ControlGrows
  <1>3. ASSUME NEW f \in Execution, pc'[f] \notin {"sign"} \cup Ended PROVE result'[f] = None
    <2>1. CASE StandsStill(f) \/ Falls(f)
      BY <1>1, <1>3, <2>1 DEF StandsStill, Falls, ResultsComeLast, Ended
    <2>2. CASE Acts(f)
      <3>1. pc[f] \notin {"sign"} \cup Ended
        BY <1>1, <1>3, <2>2 DEF Acts, Work, Open, Sign, EndContext, Ended, ReadBrief, InvokeModel,
           HearModel, NoModelAnswer, Plan, Compose, Submit, HearWrite, NoWriteAnswer, GoTo, TypeOK
      <3> QED
        BY <1>1, <1>3, <2>2, <3>1, EndsLast DEF ResultsComeLast
    <2> QED
      BY <1>1, <2>1, <2>2, StillOrActs
  <1>4. ASSUME NEW q \in wire', q.op = "artifact" PROVE task[q.attempt].turn = "compose"
    <2>1. CASE q \in wire
      BY <1>1, <1>4, <2>1 DEF ResultsComeLast
    <2>2. CASE q \notin wire
      <3>1. PICK e \in Execution : Acts(e)
        BY <2>2 DEF Next, AllEnded, Buy, Keep, Crash, vars, Acts
      <3>2. CASE \E document : Post(e, "model", document)
        BY <1>4, <2>2, <3>2 DEF Post
      <3>3. CASE \E document : Post(e, "artifact", document) /\ MyTask(e).turn = "compose"
        BY <2>2, <3>3 DEF Post, MyTask
      <3> QED
        BY <1>1, <2>2, <3>1, <3>2, <3>3, OnlyPagesPosted
    <2> QED
      BY <2>1, <2>2
  <1> QED
    BY <1>2, <1>3, <1>4 DEF ResultsComeLast

\* Nothing was sent, and no execution came to anything, at first.
LEMMA InitWInv == Init => WInv
  BY InitVInv DEF Init, WInv, ResultsComeLast

\* The invariant under which turns do the work of attempts is inductive.
LEMMA NextWInv == WInv /\ [Next]_vars => WInv'
  BY NextVInv, NextLast DEF WInv
-----------------------------------------------------------------------------
\* A step that leaves the control plane and the results alone leaves the
\* attempts as they are.
LEMMA QuietOfTurns ==
    ASSUME UNCHANGED <<task, purchases, records, result>>
    PROVE  UNCHANGED Attempted!vars
  <1>1. BoughtFor' = BoughtFor /\ KeptFor' = KeptFor
    BY DEF BoughtFor, KeptFor
  <1>2. CameTo' = CameTo
    BY DEF CameTo, Settled
  <1> QED
    BY <1>1, <1>2 DEF Attempted!vars

\* The gateway's first purchase for an attempt is the attempt's.
LEMMA BuyIsTheAttempts ==
    ASSUME WInv, WInv', Buy
    PROVE  Attempted!Next
  <1>1. TypeOK /\ IInv /\ IInv'
    BY DEF WInv, VInv, IInv
  <1>2. PICK q \in wire, v \in {"ok", "refused", "budget"}, output \in Output \cup {None} :
           /\ q.op = "model"
           /\ \A p \in purchases : p.key # q.key
           /\ purchases' = purchases \cup {[key |-> q.key, attempt |-> q.attempt,
                                            verdict |-> v, output |-> output]}
    BY DEF Buy
  <1> DEFINE a == q.attempt
             new == [key |-> q.key, attempt |-> q.attempt, verdict |-> v, output |-> output]
  <1>3. a \in Attempt /\ new \in Purchase
    BY <1>1, <1>2 DEF IInv, TypeOK, Request
  <1>4. \A p \in purchases : p.attempt # a
    BY <1>1, <1>2 DEF IInv, NamesAndSubmissionsAreTheAttempts
  <1>5. Asking(task[a])
    BY <1>1, <1>2 DEF IInv, OnlyReleasedCallsLeave, Asking
  <1>6. BoughtFor[a] = {}
    BY <1>3, <1>4 DEF BoughtFor
  <1>7. BoughtFor' = [BoughtFor EXCEPT ![a] = {new}]
    <2>1. BoughtFor' = [b \in Attempt |-> {p \in purchases' : p.attempt = b}]
      BY DEF BoughtFor
    <2>2. ASSUME NEW b \in Attempt
          PROVE  {p \in purchases' : p.attempt = b} = IF b = a THEN {new} ELSE BoughtFor[b]
      BY <1>2, <1>4 DEF BoughtFor
    <2>3. [BoughtFor EXCEPT ![a] = {new}]
             = [b \in Attempt |-> IF b = a THEN {new} ELSE BoughtFor[b]]
      BY DEF BoughtFor
    <2> QED
      BY <2>1, <2>2, <2>3
  <1>8. UNCHANGED <<task, KeptFor, CameTo>>
    BY DEF Buy, KeptFor, CameTo, Settled
  <1>9. Attempted!Buy(a)
    BY <1>3, <1>5, <1>6, <1>7, <1>8 DEF Attempted!Buy
  <1> QED
    BY <1>3, <1>9 DEF Attempted!Next

\* What is recorded first for an attempt is the page of its purchase.
LEMMA KeepIsTheAttempts ==
    ASSUME WInv, Keep
    PROVE  Attempted!Next
  <1>1. TypeOK /\ IInv /\ ResultsComeLast
    BY DEF WInv, VInv, IInv
  <1>2. PICK q \in wire :
           /\ q.op = "artifact"
           /\ \A r \in records : r.key # q.key
           /\ records' = records \cup {[key |-> q.key, attempt |-> q.attempt,
                                        document |-> q.document]}
    BY DEF Keep
  <1> DEFINE a == q.attempt
  <1>3. a \in Attempt
    BY <1>1 DEF TypeOK, Request
  <1>4. \A r \in records : r.attempt # a
    BY <1>1, <1>2 DEF IInv, NamesAndSubmissionsAreTheAttempts
  <1>5. PICK p \in purchases :
           /\ p.attempt = a /\ p.verdict = "ok" /\ Meaning[p.output] = "page"
           /\ q.document = [invocations |-> <<p.key>>, output |-> p.output]
    BY <1>1, <1>2 DEF IInv, NamesAndSubmissionsAreTheAttempts, IsPageOf
  <1>6. task[a].turn = "compose" /\ "artifact" \in task[a].released
    BY <1>1, <1>2 DEF ResultsComeLast, IInv, OnlyReleasedCallsLeave
  <1>7. PagesOf(task[a], p) = {q.document}
    <2>1. BoughtAs(task[a], p) = Decided("final", q.document)
      BY <1>5, <1>6 DEF BoughtAs
    <2> QED
      BY <2>1 DEF PagesOf, Decided
  <1>8. KeptFor[a] = {}
    BY <1>3, <1>4 DEF KeptFor
  <1>9. KeptFor' = [KeptFor EXCEPT ![a] = {q.document}]
    <2>1. KeptFor' = [b \in Attempt |-> {r.document : r \in {r \in records' : r.attempt = b}}]
      BY DEF KeptFor
    <2>2. ASSUME NEW b \in Attempt
          PROVE  {r.document : r \in {r \in records' : r.attempt = b}}
                    = IF b = a THEN {q.document} ELSE KeptFor[b]
      <3> DEFINE new == [key |-> q.key, attempt |-> a, document |-> q.document]
      <3>1. records' = records \cup {new}
        BY <1>2
      <3>2. CASE b = a
        <4>1. {r \in records' : r.attempt = b} = {new}
          BY <1>4, <3>1, <3>2
        <4>2. {r.document : r \in {new}} = {q.document}
          OBVIOUS
        <4> QED
          BY <3>2, <4>1, <4>2
      <3>3. CASE b # a
        <4>1. {r \in records' : r.attempt = b} = {r \in records : r.attempt = b}
          BY <3>1, <3>3
        <4> QED
          BY <3>3, <4>1 DEF KeptFor
      <3> QED
        BY <3>2, <3>3
    <2>3. [KeptFor EXCEPT ![a] = {q.document}]
             = [b \in Attempt |-> IF b = a THEN {q.document} ELSE KeptFor[b]]
      BY DEF KeptFor
    <2> QED
      BY <2>1, <2>2, <2>3
  <1>10. p \in BoughtFor[a]
    BY <1>3, <1>5 DEF BoughtFor
  <1>11. UNCHANGED <<task, BoughtFor, CameTo>>
    BY DEF Keep, BoughtFor, CameTo, Settled
  <1>12. Attempted!Keep(a)
    BY <1>3, <1>7, <1>8, <1>9, <1>10, <1>11 DEF Attempted!Keep
  <1> QED
    BY <1>3, <1>12 DEF Attempted!Next
\* An execution that comes to a verdict settles its attempt, unless another did.
LEMMA VerdictIsTheAttempts ==
    ASSUME WInv, WInv', NEW e \in Execution, Acts(e), UNCHANGED <<task, purchases, records>>,
           result[e] = None, Settled(e)', CameTo[AttemptOf[e]] = {},
           CameTo' = [CameTo EXCEPT ![AttemptOf[e]] = {result'[e]}]
    PROVE  Attempted!Next
  <1> DEFINE a == AttemptOf[e]
  <1>1. a \in Attempt
    BY TaskAssumption
  <1>2. Determined(a, result'[e])
    BY DEF WInv, VInv, VerdictsAreDetermined, Settled, Determined
  <1>3. UNCHANGED <<BoughtFor, KeptFor>>
    BY DEF BoughtFor, KeptFor
  <1>4. CASE ~Asking(task[a])
    <2>1. result'[e] = Comes(task[a])
      BY <1>2, <1>4 DEF Determined, Comes
    <2> QED
      BY <1>1, <1>3, <1>4, <2>1 DEF Attempted!Next, Attempted!Settle
  <1>5. CASE Asking(task[a])
    <2>1. PICK p \in purchases : p.attempt = a /\ result'[e] = BoughtAs(task[a], p)
      BY <1>2, <1>5 DEF Determined, Asking
    <2>2. p \in BoughtFor[a]
      BY <1>1, <2>1 DEF BoughtFor
    <2>3. PagesOf(task[a], p) \subseteq KeptFor[a]
      <3>1. CASE result'[e].decision = "final"
        <4>1. task[a].turn = "compose"
          <5>1. task[a].turn \in {"compose", "plan"}
            BY <1>1, <1>5, TaskAssumption DEF WInv, VInv, IInv, TypeOK, Task, Asking
          <5>2. task[a].turn = "plan" => result'[e].decision \in Decision
            BY <2>1 DEF BoughtAs, Decided, Failed, Refusal, Decision
          <5> QED
            BY <3>1, <5>1, <5>2 DEF Decision
        <4>2. PICK r \in records : r.attempt = a /\ r.document = result'[e].artifact
          BY <3>1, <4>1 DEF WInv, VInv, IInv, FinalNamesWhatWasRecorded, Settled, MyTask
        <4> QED
          BY <1>1, <2>1, <4>2 DEF PagesOf, KeptFor
      <3>2. CASE result'[e].decision # "final"
        BY <2>1, <3>2 DEF PagesOf
      <3> QED
        BY <3>1, <3>2
    <2>4. Attempted!Settle(a)
      BY <1>3, <1>5, <2>1, <2>2, <2>3 DEF Attempted!Settle
    <2> QED
      BY <1>1, <2>4 DEF Attempted!Next
  <1> QED
    BY <1>4, <1>5

\* A step of an execution settles its attempt or is none of the attempts'.
LEMMA ActsAreTheAttempts ==
    ASSUME WInv, WInv', [Next]_vars, NEW e \in Execution, Acts(e)
    PROVE  Attempted!Next \/ UNCHANGED Attempted!vars
  <1> DEFINE a == AttemptOf[e]
  <1>1. TypeOK /\ TypeOK'
    BY DEF WInv, VInv, IInv
  <1>2. UNCHANGED <<task, purchases, records>>
    BY ControlGrows
  <1>3. \A f \in Execution : f # e => result'[f] = result[f]
    BY <1>1, OthersStandStill DEF StandsStill
  <1>4. UNCHANGED <<BoughtFor, KeptFor>>
    BY <1>2 DEF BoughtFor, KeptFor
  <1>5. CASE result'[e] = result[e]
    <2>1. result' = result
      BY <1>1, <1>3, <1>5 DEF TypeOK
    <2> QED
      BY <1>2, <2>1, QuietOfTurns
  <1>6. CASE result[e] = None
    <2>1. ~Settled(e) /\ \A f \in Execution : f # e => (Settled(f)' <=> Settled(f))
      BY <1>3, <1>6 DEF Settled
    <2>2. CameTo' = [b \in Attempt |->
                        {result'[f] : f \in {f \in Execution : AttemptOf[f] = b /\ Settled(f)'}}]
      BY DEF CameTo
    <2>3. CASE ~Settled(e)'
      <3>1. ASSUME NEW b \in Attempt
            PROVE  {result'[f] : f \in {f \in Execution : AttemptOf[f] = b /\ Settled(f)'}}
                      = {result[f] : f \in {f \in Execution : AttemptOf[f] = b /\ Settled(f)}}
        BY <1>3, <2>1, <2>3
      <3>2. CameTo' = CameTo
        BY <2>2, <3>1 DEF CameTo
      <3> QED
        BY <1>2, <1>4, <3>2 DEF Attempted!vars
    <2>4. CASE Settled(e)'
      <3>1. ASSUME NEW b \in Attempt
            PROVE  {result'[f] : f \in {f \in Execution : AttemptOf[f] = b /\ Settled(f)'}}
                      = IF b = a THEN CameTo[b] \cup {result'[e]} ELSE CameTo[b]
        BY <1>3, <2>1, <2>4 DEF CameTo
      <3>2. CASE CameTo[a] = {}
        <4>1. CameTo' = [CameTo EXCEPT ![a] = {result'[e]}]
          <5>1. [CameTo EXCEPT ![a] = {result'[e]}]
                   = [b \in Attempt |-> IF b = a THEN {result'[e]} ELSE CameTo[b]]
            BY DEF CameTo
          <5> QED
            BY <2>2, <3>1, <3>2, <5>1
        <4> QED
          BY <1>2, <1>6, <2>4, <3>2, <4>1, VerdictIsTheAttempts
      <3>3. CASE CameTo[a] # {}
        <4>1. a \in Attempt
          BY TaskAssumption
        <4>2. PICK f \in Execution : AttemptOf[f] = a /\ Settled(f) /\ result[f] \in CameTo[a]
          BY <3>3, <4>1 DEF CameTo
        <4>3. VerdictsAgree'
          <5>1. VInv' => VerdictsAgree'
            BY DeterminedAgree, PTL
          <5> QED
            BY <5>1 DEF WInv
        <4>4. result'[e] = result[f]
          <5>1. f # e /\ result'[f] = result[f] /\ Settled(f)'
            BY <1>3, <2>1, <4>2
          <5> QED
            BY <2>4, <4>2, <4>3, <5>1 DEF VerdictsAgree, Settled
        <4>5. CameTo' = CameTo
          <5>1. \A b \in Attempt :
                   CameTo[b] = IF b = a THEN CameTo[b] \cup {result'[e]} ELSE CameTo[b]
            BY <4>2, <4>4
          <5>2. CameTo = [b \in Attempt |-> CameTo[b]]
            BY DEF CameTo
          <5> QED
            BY <2>2, <3>1, <5>1, <5>2
        <4> QED
          BY <1>2, <1>4, <4>5 DEF Attempted!vars
      <3> QED
        BY <3>2, <3>3
    <2> QED
      BY <2>3, <2>4
  <1> QED
    BY <1>5, <1>6, EndsLast

\* A step of the turns is one of the attempts' or changes nothing of them.
LEMMA NextIsTheAttempts ==
    ASSUME WInv, WInv', [Next]_vars
    PROVE  [Attempted!Next]_(Attempted!vars)
  <1>1. CASE \E e \in Execution : Acts(e)
    BY <1>1, ActsAreTheAttempts
  <1>2. CASE Buy
    BY <1>2, BuyIsTheAttempts
  <1>3. CASE Keep
    BY <1>3, KeepIsTheAttempts
  <1>4. CASE ACrash \/ UNCHANGED vars
    BY <1>4, QuietOfTurns DEF ACrash, Crash, vars, control
  <1> QED
    BY <1>1, <1>2, <1>3, <1>4 DEF Next, AllEnded, Acts, ACrash

\* At first nothing was bought, kept or settled.
LEMMA InitIsTheAttempts == Init => Attempted!Init
  <1> SUFFICES ASSUME Init PROVE Attempted!Init
    OBVIOUS
  <1>1. \A e \in Execution : ~Settled(e)
    BY DEF Init, Settled
  <1>2. BoughtFor = [a \in Attempt |-> {}] /\ KeptFor = [a \in Attempt |-> {}]
    BY DEF Init, BoughtFor, KeptFor
  <1>3. CameTo = [a \in Attempt |-> {}]
    BY <1>1 DEF CameTo
  <1> QED
    BY <1>2, <1>3 DEF Init, Attempted!Init

\* Whatever takes the steps of turns does the work of the attempts.
LEMMA StepsDoTheAttemptsWork == Init /\ [][Next]_vars => Attempted!Spec
  <1>1. Init /\ [][Next]_vars => []WInv
    BY InitWInv, NextWInv, PTL
  <1>2. WInv /\ WInv' /\ [Next]_vars => [Attempted!Next]_(Attempted!vars)
    BY NextIsTheAttempts
  <1> QED
    BY <1>1, <1>2, InitIsTheAttempts, PTL DEF Attempted!Spec

\* However often an attempt is executed, and by whomever, its work is done
\* once: one decision is bought, one page kept, and one verdict reached, which
\* the task and the decision determine, and never one that names a page before
\* that page is kept (canonical.go:27-36, gateway.go:102-106, turn.go:91-107).
THEOREM TurnsDoTheAttemptsWork == Spec => Attempted!Spec
  BY StepsDoTheAttemptsWork, PTL DEF Spec
=============================================================================
