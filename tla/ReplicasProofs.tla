--------------------------- MODULE ReplicasProofs ---------------------------
(***************************************************************************)
(* Theorems about Replicas, for any number of replicas, attempts and       *)
(* deliveries.  Every step of the replicas is a step of GovernedTurn or    *)
(* leaves its turns alone, so what is proved of turns holds of replicas.   *)
(***************************************************************************)
EXTENDS Replicas, GovernedTurnProofs

\* An execution that is signed came to something.
SignedIsDecided == \A e \in Execution : pc[e] \in {"sign", "returned"} => result[e] # None

\* A caller hears a result of its own attempt, which was returned.
RepliesAreOwn ==
    \A e \in Execution : reply[e] # None /\ reply[e].word = "result" =>
        AttemptOf[reply[e].by] = AttemptOf[e] /\ pc[reply[e].by] = "returned"

RInv ==
    VInv /\ ReplicaTypeOK /\ SignedIsDecided /\ ClaimsAreHeld /\ RepliesAreOwn
-----------------------------------------------------------------------------
(***************************************************************************)
(* The steps of the replicas, as steps of turns.                           *)
(***************************************************************************)
LEMMA StepsAreTurns == ASSUME [ReplicaNext]_replicaVars PROVE [Next]_vars
  <1> USE DEF turns
  <1>1. ASSUME NEW e \in Execution, NEW r \in Replica, Deliver(e, r) PROVE [Next]_vars
    BY <1>1 DEF Deliver, Admit, RefuseOrReplay, Next
  <1>2. ASSUME NEW e \in Execution, Serve(e) \/ Timeout(e) \/ Leave(e) PROVE [Next]_vars
    BY <1>2 DEF Serve, Turn, Finish, Timeout, Leave, Next
  <1>3. ASSUME NEW r \in Replica, EndReplica(r) PROVE [Next]_vars
    <2>1. {e \in {e \in Execution : at[e] = r} : Running(e)} \in SUBSET Execution
      OBVIOUS
    <2> QED
      BY <1>3, <2>1 DEF EndReplica, Next
  <1>4. ASSUME NEW r \in Replica, NEW a \in Attempt, Evict(r, a) PROVE [Next]_vars
    BY <1>4 DEF Evict
  <1>5. CASE ControlPlane \/ AllServed \/ UNCHANGED replicaVars
    BY <1>5 DEF ControlPlane, AllServed, replicaVars, Next
  <1> QED
    BY <1>1, <1>2, <1>3, <1>4, <1>5 DEF ReplicaNext

\* What a step of turns does to the program counter of one of them.
LEMMA HowPcsMove ==
    ASSUME IInv, [Next]_vars, NEW f \in Execution
    PROVE  /\ pc[f] \in Ended => pc'[f] = pc[f]
           /\ pc[f] = "idle" /\ pc'[f] # "idle" => pc'[f] = "brief" /\ Open(f)
  <1>1. TypeOK
    BY DEF IInv
  <1>2. CASE StandsStill(f)
    BY <1>2 DEF StandsStill
  <1>3. CASE Open(f)
    BY <1>1, <1>3 DEF Open, GoTo, TypeOK, Ended
  <1>4. CASE EndContext(f)
    BY <1>4 DEF EndContext
  <1>5. CASE Work(f)
    BY <1>5 DEF Work, ReadBrief, InvokeModel, HearModel, NoModelAnswer, Plan, Compose, Submit,
       HearWrite, NoWriteAnswer, Sign, Ended
  <1>6. CASE ACrash
    BY <1>1, <1>6 DEF ACrash, Crash, Running, TypeOK
  <1>7. \/ \E e \in Execution : Acts(e)
        \/ ACrash \/ Buy \/ Keep \/ UNCHANGED vars
    BY DEF Next, AllEnded, Acts, ACrash
  <1>8. CASE \E e \in Execution : Acts(e)
    BY <1>1, <1>2, <1>3, <1>4, <1>5, <1>8, OthersStandStill DEF Acts
  <1>9. CASE Buy \/ Keep \/ UNCHANGED vars
    BY <1>2, <1>9 DEF Buy, Keep, vars, control, StandsStill
  <1> QED
    BY <1>6, <1>7, <1>8, <1>9

\* A step of work goes on, or signs, or comes to something.
LEMMA WorkComesToSomething ==
    ASSUME IInv, NEW e \in Execution, Work(e)
    PROVE  \/ pc'[e] \notin {"sign", "returned"}
           \/ pc[e] = "sign" /\ result' = result
           \/ result'[e] # None
  <1>1. TypeOK
    BY DEF IInv
  <1>2. \A error \in Errors : Fails(e, error) => result'[e] # None
    BY <1>1, FailsWithIt, OutcomesAreSome
  <1>3. \A decision \in Decision \cup {"final"}, artifact \in Candidate \cup {Pinned, None} :
           Decides(e, decision, artifact) => result'[e] # None
    BY <1>1, DecidesOnIt, OutcomesAreSome
  <1>4. CASE ReadBrief(e)
    BY <1>1, <1>2, <1>3, <1>4, ErrorsNamed DEF ReadBrief, ConcludeDelegation, GoTo, TypeOK
  <1>5. CASE InvokeModel(e) \/ NoModelAnswer(e) \/ NoWriteAnswer(e)
    BY <1>1, <1>2, <1>5, ErrorsNamed DEF InvokeModel, NoModelAnswer, NoWriteAnswer, GoTo, TypeOK
  <1>6. CASE HearModel(e)
    <2>1. MyTask(e).turn \notin {"sign", "returned"}
      BY <1>1, TaskAssumption DEF TypeOK, MyTask, Task
    <2> QED
      BY <1>1, <1>2, <1>6, <2>1, ErrorsNamed, HearsItsOwn DEF GoTo, TypeOK
  <1>7. CASE Plan(e)
    BY <1>1, <1>2, <1>3, <1>7, ErrorsNamed DEF Plan
  <1>8. CASE Compose(e) \/ Submit(e)
    BY <1>1, <1>2, <1>8, ErrorsNamed DEF Compose, Submit, GoTo, TypeOK
  <1>9. CASE HearWrite(e)
    <2>1. PICK r \in records : Decides(e, "final", r.document)
      BY <1>9 DEF HearWrite
    <2>2. r.document \in Candidate
      BY <1>1 DEF TypeOK, Record
    <2> QED
      BY <1>3, <2>1, <2>2
  <1>10. CASE Sign(e)
    BY <1>10 DEF Sign
  <1> QED
    BY <1>4, <1>5, <1>6, <1>7, <1>8, <1>9, <1>10 DEF Work

\* An outcome that is signed was decided, and is not decided again.
LEMMA NextSigned == ASSUME IInv, SignedIsDecided, [Next]_vars PROVE SignedIsDecided'
  <1>1. TypeOK
    BY DEF IInv
  <1> SUFFICES ASSUME NEW f \in Execution, pc'[f] \in {"sign", "returned"}
               PROVE  result'[f] # None
    BY DEF SignedIsDecided
  <1>2. CASE Open(f) \/ EndContext(f) \/ Falls(f) \/ StandsStill(f)
    BY <1>1, <1>2 DEF Open, EndContext, Falls, StandsStill, GoTo, TypeOK, SignedIsDecided
  <1>3. CASE Work(f)
    BY <1>3, WorkComesToSomething DEF SignedIsDecided
  <1> QED
    BY <1>2, <1>3, StillOrActs DEF Acts
-----------------------------------------------------------------------------
(***************************************************************************)
(* What the replicas know, and what their callers hear.                    *)
(***************************************************************************)
\* Only a running execution works, and no execution is moved by another's step.
LEMMA OnlyRunningWork ==
    ASSUME TypeOK, NEW e \in Execution
    PROVE  /\ Work(e) => Running(e)
           /\ Work(e) => \A f \in Execution \ {e} : pc'[f] = pc[f]
           /\ EndContext(e) => Running(e) /\ pc' = pc
           /\ Open(e) => pc[e] = "idle" /\ pc' = [pc EXCEPT ![e] = "brief"]
  <1>1. Work(e) => Running(e)
    BY DEF Work, ReadBrief, InvokeModel, HearModel, NoModelAnswer, Plan, Compose, Submit,
       HearWrite, NoWriteAnswer, Sign, Running, Ended
  <1>2. ASSUME Work(e), NEW f \in Execution \ {e} PROVE pc'[f] = pc[f]
    BY <1>2, OthersStandStill DEF Acts, StandsStill
  <1> QED
    BY <1>1, <1>2 DEF EndContext, Open, GoTo

\* What a caller is told is told to it alone, and is what it hears or nothing.
LEMMA TellsOne ==
    ASSUME reply \in [Execution -> Reply \cup {None}], NEW e \in Execution,
           NEW answer \in Reply, Tell(e, answer)
    PROVE  /\ reply' \in [Execution -> Reply \cup {None}]
           /\ \A f \in Execution : reply'[f] \in {reply[f], answer, Nothing}
           /\ \A f \in Execution \ {e} : reply'[f] = reply[f]
  <1>1. Nothing \in Reply
    BY DEF Reply
  <1> QED
    BY <1>1 DEF Tell

\* What a replica may say of an attempt is a reply it may give.
LEMMA WordsAreReplies ==
    /\ \A e \in Execution : Heard(e) \in Reply
    /\ {Nothing, Refused("inFlight"), Refused("unanswered")} \subseteq Reply
  BY DEF Reply

\* A delivery to a replica keeps the types, and leaves idle whoever was not sent.
LEMMA DeliverTypes ==
    ASSUME IInv, ReplicaTypeOK, NEW e \in Execution, NEW r \in Replica, Deliver(e, r)
    PROVE  /\ at' \in [Execution -> Replica \cup {None}]
           /\ ledger' \in [Replica -> [Attempt -> Entry \cup {None}]]
           /\ reply' \in [Execution -> Reply \cup {None}]
           /\ \A f \in Execution : at'[f] = None => pc'[f] = "idle" /\ reply'[f] = None
  <1>1. /\ TypeOK /\ AttemptOf[e] \in Attempt /\ at \in [Execution -> Replica \cup {None}]
        /\ ledger \in [Replica -> [Attempt -> Entry \cup {None}]]
        /\ reply \in [Execution -> Reply \cup {None}]
        /\ \A f \in Execution : at[f] = None => pc[f] = "idle" /\ reply[f] = None
    BY TaskAssumption DEF IInv, ReplicaTypeOK
  <1>2. at[e] = None /\ at' = [at EXCEPT ![e] = r] /\ r # None
    BY NoneAssumption DEF Deliver
  <1>3. CASE Admit(e, r)
    <2>1. [state |-> "executing", by |-> e] \in Entry
      BY DEF Entry
    <2>2. ledger' \in [Replica -> [Attempt -> Entry \cup {None}]]
      BY <1>1, <1>3, <2>1 DEF Admit
    <2>3. pc' = [pc EXCEPT ![e] = "brief"] /\ reply' = reply
      BY <1>1, <1>3, OnlyRunningWork DEF Admit
    <2> QED
      BY <1>1, <1>2, <2>2, <2>3 DEF TypeOK
  <1>4. CASE RefuseOrReplay(e, r)
    <2>1. PICK answer \in Reply : Tell(e, answer)
      <3>1. CASE Tell(e, Refused("inFlight"))
        BY <3>1, WordsAreReplies
      <3>2. CASE KnownAs(r, AttemptOf[e], "answered") /\ Tell(e, Heard(ledger[r][AttemptOf[e]].by))
        <4>1. ledger[r][AttemptOf[e]].by \in Execution
          BY <1>1, <3>2 DEF KnownAs, Entry
        <4> QED
          BY <3>2, <4>1, WordsAreReplies
      <3> QED
        BY <1>4, <3>1, <3>2 DEF RefuseOrReplay
    <2>2. pc' = pc /\ ledger' = ledger
      BY <1>4 DEF RefuseOrReplay, turns, vars
    <2>3. /\ reply' \in [Execution -> Reply \cup {None}]
          /\ \A f \in Execution \ {e} : reply'[f] = reply[f]
      BY <1>1, <2>1, TellsOne
    <2> QED
      BY <1>1, <1>2, <2>2, <2>3
  <1> QED
    BY <1>3, <1>4 DEF Deliver

\* An execution that is over leaves its replica's register and its deliveries typed.
LEMMA FinishTypes ==
    ASSUME IInv, ReplicaTypeOK, NEW e \in Execution, Finish(e)
    PROVE  /\ at[e] \in Replica /\ at' = at /\ pc' = pc
           /\ ledger' \in [Replica -> [Attempt -> Entry \cup {None}]]
           /\ reply' \in [Execution -> Reply \cup {None}]
           /\ \A f \in Execution \ {e} : reply'[f] = reply[f]
           /\ \/ /\ pc[e] = "returned" /\ reply'[e] \in {reply[e], Heard(e), Nothing}
                 /\ ledger' = [ledger EXCEPT ![at[e]][AttemptOf[e]] =
                                 [state |-> "answered", by |-> e]]
              \/ /\ reply'[e] \in {reply[e], Refused("unanswered"), Nothing}
                 /\ pc[e] = "lost"
                 /\ ledger' = [ledger EXCEPT ![at[e]][AttemptOf[e]] = None]
  <1>1. /\ AttemptOf[e] \in Attempt /\ at \in [Execution -> Replica \cup {None}]
        /\ ledger \in [Replica -> [Attempt -> Entry \cup {None}]]
        /\ reply \in [Execution -> Reply \cup {None}]
    BY TaskAssumption DEF ReplicaTypeOK
  <1>2. at[e] \in Replica /\ at' = at /\ pc' = pc
    BY <1>1 DEF Finish, Holds, turns, vars
  <1>3. CASE pc[e] = "returned" /\ Settle(e)
    <2>1. [state |-> "answered", by |-> e] \in Entry
      BY DEF Entry
    <2>2. ledger' \in [Replica -> [Attempt -> Entry \cup {None}]]
      BY <1>1, <1>2, <1>3, <2>1 DEF Settle
    <2>3. Tell(e, Heard(e)) /\ Heard(e) \in Reply
      BY <1>3, WordsAreReplies DEF Settle
    <2> QED
      BY <1>1, <1>2, <1>3, <2>2, <2>3, TellsOne DEF Settle
  <1>4. CASE pc[e] = "lost" /\ GiveUp(e)
    <2>1. ledger' \in [Replica -> [Attempt -> Entry \cup {None}]]
      BY <1>1, <1>2, <1>4 DEF GiveUp
    <2>2. Tell(e, Refused("unanswered")) /\ Refused("unanswered") \in Reply
      BY <1>4, WordsAreReplies DEF GiveUp
    <2> QED
      BY <1>1, <1>2, <1>4, <2>1, <2>2, TellsOne DEF GiveUp
  <1> QED
    BY <1>3, <1>4 DEF Finish

\* Every step keeps the types of what a replica holds.
LEMMA NextReplicaTypes ==
    ASSUME IInv, ReplicaTypeOK, [ReplicaNext]_replicaVars PROVE ReplicaTypeOK'
  <1> DEFINE Placed == /\ at' \in [Execution -> Replica \cup {None}]
                       /\ ledger' \in [Replica -> [Attempt -> Entry \cup {None}]]
                       /\ reply' \in [Execution -> Reply \cup {None}]
                       /\ \A f \in Execution : at'[f] = None => pc'[f] = "idle" /\ reply'[f] = None
  <1>1. /\ TypeOK /\ at \in [Execution -> Replica \cup {None}]
        /\ ledger \in [Replica -> [Attempt -> Entry \cup {None}]]
        /\ reply \in [Execution -> Reply \cup {None}]
        /\ \A f \in Execution : at[f] = None => pc[f] = "idle" /\ reply[f] = None
    BY DEF IInv, ReplicaTypeOK
  <1>2. TypeOK'
    BY StepsAreTurns, NextTypes
  <1>3. ASSUME NEW e \in Execution, NEW r \in Replica, Deliver(e, r) PROVE Placed
    BY <1>3, DeliverTypes
  <1>4. ASSUME NEW e \in Execution, Turn(e) \/ Timeout(e) PROVE Placed
    <2>1. /\ Running(e) /\ at' = at /\ ledger' = ledger /\ reply' = reply
          /\ \A f \in Execution \ {e} : pc'[f] = pc[f]
      BY <1>1, <1>4, OnlyRunningWork DEF Turn, Timeout
    <2> QED
      BY <1>1, <2>1 DEF Running
  <1>5. ASSUME NEW e \in Execution, Leave(e) PROVE Placed
    <2>1. pc' = pc /\ at' = at /\ ledger' = ledger /\ at[e] # None
          /\ reply' = [reply EXCEPT ![e] = Nothing]
      BY <1>1, <1>5, OnlyRunningWork DEF Leave, turns, vars
    <2> QED
      BY <1>1, <2>1, WordsAreReplies
  <1>6. ASSUME NEW e \in Execution, Finish(e) PROVE Placed
    BY <1>1, <1>6, FinishTypes, NoneAssumption
  <1>7. ASSUME NEW r \in Replica, NEW a \in Attempt, Evict(r, a) PROVE Placed
    BY <1>1, <1>7 DEF Evict, turns, vars
  <1>8. ASSUME NEW r \in Replica, EndReplica(r) PROVE Placed
    <2>1. /\ at' = at
          /\ ledger' = [ledger EXCEPT ![r] = [a \in Attempt |-> None]]
          /\ reply' = [f \in Execution |->
                          IF at[f] = r /\ reply[f] = None THEN Nothing ELSE reply[f]]
      BY <1>8 DEF EndReplica
    <2>2. \A f \in Execution : at[f] # r => pc'[f] = pc[f]
      BY <1>8 DEF EndReplica, Crash, turns, vars
    <2> QED
      BY <1>1, <2>1, <2>2, NoneAssumption, WordsAreReplies
  <1>9. ASSUME ControlPlane \/ AllServed \/ UNCHANGED replicaVars PROVE Placed
    <2>1. pc' = pc /\ at' = at /\ ledger' = ledger /\ reply' = reply
      BY <1>9 DEF ControlPlane, Buy, Keep, AllServed, replicaVars, vars
    <2> QED
      BY <1>1, <2>1
  <1> HIDE DEF Placed
  <1>10. Placed
    BY <1>3, <1>4, <1>5, <1>6, <1>7, <1>8, <1>9 DEF ReplicaNext, Serve
  <1> QED
    BY <1>2, <1>10 DEF Placed, ReplicaTypeOK

\* An ended replica ends what it runs, and nothing else.
LEMMA EndsItsOwn ==
    ASSUME ReplicaTypeOK, NEW r \in Replica, EndReplica(r)
    PROVE  /\ at' = at
           /\ ledger' = [ledger EXCEPT ![r] = [a \in Attempt |-> None]]
           /\ reply' = [f \in Execution |->
                           IF at[f] = r /\ reply[f] = None THEN Nothing ELSE reply[f]]
           /\ \A f \in Execution : pc'[f] = IF at[f] = r /\ Running(f) THEN "lost" ELSE pc[f]
  <1>1. pc \in [Execution -> {"idle", "brief", "invoke", "awaitModel", "plan", "compose",
                              "submit", "awaitWrite", "sign"} \cup Ended]
    BY DEF ReplicaTypeOK, TypeOK
  <1> DEFINE running == {f \in {f \in Execution : at[f] = r} : Running(f)}
  <1>2. CASE Crash(running)
    BY <1>2 DEF EndReplica, Crash
  <1>3. CASE running = {} /\ UNCHANGED turns
    BY <1>1, <1>3 DEF EndReplica, turns, vars
  <1> QED
    BY <1>2, <1>3 DEF EndReplica

\* Every step leaves each attempt claimed at a replica by the one execution it runs there.
LEMMA NextClaims ==
    ASSUME IInv, ReplicaTypeOK, ClaimsAreHeld, [ReplicaNext]_replicaVars PROVE ClaimsAreHeld'
  <1> DEFINE Held == \A f \in Execution :
                        pc'[f] \notin {"idle"} \cup Ended =>
                           /\ at'[f] # None
                           /\ ledger'[at'[f]][AttemptOf[f]] = [state |-> "executing", by |-> f]
             Known == \A q \in Replica, b \in Attempt :
                         ledger'[q][b] # None =>
                            /\ at'[ledger'[q][b].by] = q /\ AttemptOf[ledger'[q][b].by] = b
                            /\ ledger'[q][b].state = "answered" => pc'[ledger'[q][b].by] = "returned"
             Kept == Held /\ Known
  <1>1. /\ TypeOK /\ at \in [Execution -> Replica \cup {None}]
        /\ ledger \in [Replica -> [Attempt -> Entry \cup {None}]]
        /\ \A f \in Execution : at[f] = None => pc[f] = "idle"
        /\ \A f \in Execution : AttemptOf[f] \in Attempt
    BY TaskAssumption DEF IInv, ReplicaTypeOK
  <1>2. \A f \in Execution :
           pc[f] \notin {"idle"} \cup Ended =>
              /\ at[f] \in Replica
              /\ ledger[at[f]][AttemptOf[f]] = [state |-> "executing", by |-> f]
    BY <1>1 DEF ClaimsAreHeld, Running, Holds
  <1>3. \A q \in Replica, b \in Attempt :
           ledger[q][b] # None =>
              /\ ledger[q][b].by \in Execution
              /\ at[ledger[q][b].by] = q /\ AttemptOf[ledger[q][b].by] = b
              /\ ledger[q][b].state = "answered" => pc[ledger[q][b].by] = "returned"
    BY <1>1 DEF ClaimsAreHeld, Entry
  <1>4. \A f \in Execution : [state |-> "executing", by |-> f] # None
    BY NoneAssumption DEF Entry
  <1>5. ASSUME NEW e \in Execution, NEW r \in Replica, Deliver(e, r) PROVE Kept
    <2>1. at[e] = None /\ at' = [at EXCEPT ![e] = r] /\ r # None
      BY <1>5, NoneAssumption DEF Deliver
    <2>2. CASE Admit(e, r)
      <3>1. /\ ledger[r][AttemptOf[e]] = None /\ pc' = [pc EXCEPT ![e] = "brief"]
            /\ ledger' = [ledger EXCEPT ![r][AttemptOf[e]] = [state |-> "executing", by |-> e]]
        BY <1>1, <2>2, OnlyRunningWork DEF Admit
      <3>2. Held
        BY <1>1, <1>2, <1>4, <2>1, <3>1 DEF TypeOK
      <3>3. ASSUME NEW q \in Replica, NEW b \in Attempt, ledger'[q][b] # None
            PROVE  /\ at'[ledger'[q][b].by] = q /\ AttemptOf[ledger'[q][b].by] = b
                   /\ ledger'[q][b].state = "answered" => pc'[ledger'[q][b].by] = "returned"
        <4>1. CASE q = r /\ b = AttemptOf[e]
          <5>1. ledger'[q][b] = [state |-> "executing", by |-> e]
            BY <1>1, <3>1, <4>1
          <5> QED
            BY <1>1, <2>1, <4>1, <5>1
        <4>2. CASE ~(q = r /\ b = AttemptOf[e])
          <5>1. ledger'[q][b] = ledger[q][b]
            BY <1>1, <3>1, <4>2
          <5>2. ledger[q][b].by # e /\ ledger[q][b].by \in Execution
            BY <1>3, <2>1, <3>3, <5>1, NoneAssumption
          <5> QED
            BY <1>1, <1>3, <2>1, <3>1, <3>3, <5>1, <5>2 DEF TypeOK
        <4> QED
          BY <4>1, <4>2
      <3> QED
        BY <3>2, <3>3
    <2>3. CASE RefuseOrReplay(e, r)
      <3>1. pc' = pc /\ ledger' = ledger
        BY <2>3 DEF RefuseOrReplay, turns, vars
      <3>2. \A f \in Execution : at[f] # None => at'[f] = at[f]
        BY <1>1, <2>1
      <3> QED
        BY <1>1, <1>2, <1>3, <3>1, <3>2, NoneAssumption
    <2> QED
      BY <1>5, <2>2, <2>3 DEF Deliver
  <1>6. ASSUME NEW e \in Execution, Turn(e) \/ Timeout(e) PROVE Kept
    <2>1. /\ Running(e) /\ at' = at /\ ledger' = ledger
          /\ \A f \in Execution \ {e} : pc'[f] = pc[f]
      BY <1>1, <1>6, OnlyRunningWork DEF Turn, Timeout
    <2> QED
      BY <1>1, <1>2, <1>3, <2>1, NoneAssumption DEF Running, Ended
  <1>7. ASSUME NEW e \in Execution, Leave(e) PROVE Kept
    <2>1. pc' = pc /\ at' = at /\ ledger' = ledger
      BY <1>1, <1>7, OnlyRunningWork DEF Leave, turns, vars
    <2> QED
      BY <1>2, <1>3, <2>1, NoneAssumption
  <1>8. ASSUME NEW e \in Execution, Finish(e) PROVE Kept
    <2>1. /\ at[e] \in Replica /\ at' = at /\ pc' = pc /\ pc[e] \in Ended
          /\ ledger[at[e]][AttemptOf[e]] = [state |-> "executing", by |-> e]
      BY <1>8, FinishTypes DEF Finish, Holds, Ended
    <2>2. PICK known \in {None, [state |-> "answered", by |-> e]} :
             /\ ledger' = [ledger EXCEPT ![at[e]][AttemptOf[e]] = known]
             /\ known # None => pc[e] = "returned"
      BY <1>8, FinishTypes
    <2>3. Held
      BY <1>1, <1>2, <2>1, <2>2, NoneAssumption DEF Ended
    <2>4. ASSUME NEW q \in Replica, NEW b \in Attempt, ledger'[q][b] # None
          PROVE  /\ at'[ledger'[q][b].by] = q /\ AttemptOf[ledger'[q][b].by] = b
                 /\ ledger'[q][b].state = "answered" => pc'[ledger'[q][b].by] = "returned"
      <3>1. CASE q = at[e] /\ b = AttemptOf[e]
        <4>1. ledger'[q][b] = known /\ known.by = e
          BY <1>1, <2>1, <2>2, <2>4, <3>1
        <4> QED
          BY <2>1, <2>2, <2>4, <3>1, <4>1
      <3>2. CASE ~(q = at[e] /\ b = AttemptOf[e])
        <4>1. ledger'[q][b] = ledger[q][b]
          BY <1>1, <2>1, <2>2, <3>2
        <4> QED
          BY <1>3, <2>1, <2>4, <4>1
      <3> QED
        BY <3>1, <3>2
    <2> QED
      BY <2>3, <2>4
  <1>9. ASSUME NEW r \in Replica, NEW a \in Attempt, Evict(r, a) PROVE Kept
    <2>1. /\ pc' = pc /\ at' = at /\ ledger[r][a].state = "answered"
          /\ ledger' = [ledger EXCEPT ![r][a] = None]
      BY <1>9 DEF Evict, KnownAs, turns, vars
    <2>2. \A f \in Execution : [state |-> "executing", by |-> f].state # "answered"
      OBVIOUS
    <2>3. Held
      BY <1>1, <1>2, <2>1, <2>2, NoneAssumption
    <2>4. Known
      BY <1>1, <1>3, <2>1
    <2> QED
      BY <2>3, <2>4
  <1>10. ASSUME NEW r \in Replica, EndReplica(r) PROVE Kept
    <2>1. /\ at' = at /\ ledger' = [ledger EXCEPT ![r] = [a \in Attempt |-> None]]
          /\ \A f \in Execution : pc'[f] = IF at[f] = r /\ Running(f) THEN "lost" ELSE pc[f]
      BY <1>10, EndsItsOwn
    <2>2. Held
      BY <1>1, <1>2, <2>1, NoneAssumption DEF Running, Ended
    <2>3. \A q \in Replica, b \in Attempt :
             ledger'[q][b] # None => q # r /\ ledger'[q][b] = ledger[q][b]
      BY <1>1, <2>1
    <2>4. Known
      BY <1>3, <2>1, <2>3
    <2> QED
      BY <2>2, <2>4
  <1>11. ASSUME ControlPlane \/ AllServed \/ UNCHANGED replicaVars PROVE Kept
    <2>1. pc' = pc /\ at' = at /\ ledger' = ledger
      BY <1>11 DEF ControlPlane, Buy, Keep, AllServed, replicaVars, vars
    <2> QED
      BY <1>2, <1>3, <2>1, NoneAssumption
  <1> HIDE DEF Kept
  <1>12. Kept
    BY <1>5, <1>6, <1>7, <1>8, <1>9, <1>10, <1>11 DEF ReplicaNext, Serve
  <1> QED
    BY <1>12 DEF Kept, ClaimsAreHeld, Running, Holds

\* A caller comes to hear nothing, a refusal, or a result of its own attempt.
LEMMA HearsOwn ==
    ASSUME RInv, [ReplicaNext]_replicaVars, NEW f \in Execution
    PROVE  \/ reply'[f] \in {reply[f], Nothing, Refused("inFlight"), Refused("unanswered")}
           \/ \E x \in Execution :
                 reply'[f] = Heard(x) /\ pc[x] = "returned" /\ AttemptOf[x] = AttemptOf[f]
  <1> DEFINE Hears == \/ reply'[f] \in {reply[f], Nothing, Refused("inFlight"), Refused("unanswered")}
                      \/ \E x \in Execution :
                            reply'[f] = Heard(x) /\ pc[x] = "returned" /\ AttemptOf[x] = AttemptOf[f]
  <1>1. /\ IInv /\ ReplicaTypeOK /\ ClaimsAreHeld
        /\ reply \in [Execution -> Reply \cup {None}]
        /\ ledger \in [Replica -> [Attempt -> Entry \cup {None}]]
        /\ \A x \in Execution : AttemptOf[x] \in Attempt
    BY TaskAssumption DEF RInv, VInv, ReplicaTypeOK
  <1>2. ASSUME NEW e \in Execution, NEW r \in Replica, Deliver(e, r) PROVE Hears
    <2>1. CASE Admit(e, r)
      BY <2>1 DEF Admit
    <2>2. CASE Tell(e, Refused("inFlight"))
      BY <1>1, <2>2, TellsOne, WordsAreReplies
    <2>3. CASE KnownAs(r, AttemptOf[e], "answered") /\ Tell(e, Heard(ledger[r][AttemptOf[e]].by))
      <3>1. PICK x \in Execution : /\ x = ledger[r][AttemptOf[e]].by
                                   /\ pc[x] = "returned" /\ AttemptOf[x] = AttemptOf[e]
        BY <1>1, <2>3 DEF KnownAs, Entry, ClaimsAreHeld
      <3> QED
        BY <1>1, <2>3, <3>1, TellsOne, WordsAreReplies
    <2> QED
      BY <1>2, <2>1, <2>2, <2>3 DEF Deliver, RefuseOrReplay
  <1>3. ASSUME NEW e \in Execution, Turn(e) \/ Timeout(e) \/ Leave(e) PROVE Hears
    BY <1>1, <1>3 DEF Turn, Timeout, Leave
  <1>4. ASSUME NEW e \in Execution, Finish(e) PROVE Hears
    BY <1>1, <1>4, FinishTypes
  <1>5. ASSUME NEW r \in Replica, EndReplica(r) PROVE Hears
    BY <1>1, <1>5, EndsItsOwn
  <1>6. ASSUME NEW r \in Replica, NEW a \in Attempt, Evict(r, a) PROVE Hears
    BY <1>6 DEF Evict
  <1>7. ASSUME ControlPlane \/ AllServed \/ UNCHANGED replicaVars PROVE Hears
    BY <1>7 DEF ControlPlane, AllServed, replicaVars
  <1> HIDE DEF Hears
  <1>8. Hears
    BY <1>2, <1>3, <1>4, <1>5, <1>6, <1>7 DEF ReplicaNext, Serve
  <1> QED
    BY <1>8 DEF Hears

\* A result a caller hears is of its own attempt, signed by the execution that made it.
LEMMA NextReplies == ASSUME RInv, [ReplicaNext]_replicaVars PROVE RepliesAreOwn'
  <1>1. IInv /\ ReplicaTypeOK /\ RepliesAreOwn /\ reply \in [Execution -> Reply \cup {None}]
    BY DEF RInv, VInv, ReplicaTypeOK
  <1>2. \A x \in Execution : pc[x] = "returned" => pc'[x] = "returned"
    BY <1>1, StepsAreTurns, HowPcsMove DEF Ended
  <1> SUFFICES ASSUME NEW f \in Execution, reply'[f] # None, reply'[f].word = "result"
               PROVE  AttemptOf[reply'[f].by] = AttemptOf[f] /\ pc'[reply'[f].by] = "returned"
    BY DEF RepliesAreOwn
  <1>3. CASE reply'[f] = reply[f]
    <2>1. reply[f].by \in Execution
      BY <1>1, <1>3 DEF Reply, Heard, Refused, Nothing
    <2> QED
      BY <1>1, <1>2, <1>3, <2>1 DEF RepliesAreOwn
  <1>4. reply'[f] \notin {Nothing, Refused("inFlight"), Refused("unanswered")}
    BY DEF Nothing, Refused
  <1>5. CASE \E x \in Execution :
                reply'[f] = Heard(x) /\ pc[x] = "returned" /\ AttemptOf[x] = AttemptOf[f]
    BY <1>2, <1>5 DEF Heard
  <1> QED
    BY <1>3, <1>4, <1>5, HearsOwn
-----------------------------------------------------------------------------
\* No replica holds or answers anything at first.
LEMMA InitRInv == ReplicaInit => RInv
  <1> SUFFICES ASSUME ReplicaInit PROVE RInv
    OBVIOUS
  <1>1. VInv /\ TypeOK
    BY InitVInv DEF ReplicaInit, VInv, IInv
  <1> QED
    BY <1>1 DEF ReplicaInit, Init, RInv, ReplicaTypeOK, SignedIsDecided, ClaimsAreHeld,
       RepliesAreOwn, Running, Ended

\* The invariant of the replicas is inductive.
LEMMA NextRInv == RInv /\ [ReplicaNext]_replicaVars => RInv'
  BY StepsAreTurns, NextVInv, NextSigned, NextReplicaTypes, NextClaims, NextReplies
  DEF RInv, VInv

\* It holds in every reachable state.
THEOREM ReplicaInvariance == ReplicaSpec => []RInv
  BY InitRInv, NextRInv, PTL DEF ReplicaSpec

\* The replicas together do what turns do: what GovernedTurn's safety says of
\* the executions of a unit holds of the replicas that execute them.
THEOREM ReplicasRunTurns == ReplicaSpec => Init /\ [][Next]_vars
  <1>1. ReplicaInit => Init
    BY DEF ReplicaInit
  <1> QED
    BY <1>1, StepsAreTurns, PTL DEF ReplicaSpec

\* The replicas together do the work of each attempt once: one decision bought,
\* one page kept and one verdict reached, whichever of them executes it and
\* however often (canonical.go:27-36, gateway.go:102-106, turn.go:91-107).
THEOREM ReplicasDoTheAttemptsWork == ReplicaSpec => Attempted!Spec
  BY ReplicasRunTurns, StepsDoTheAttemptsWork, PTL

\* Replicas, deliveries, ledgers and replies are what their type says.
THEOREM ReplicasTyped == ReplicaSpec => []ReplicaTypeOK
  <1>1. RInv => ReplicaTypeOK
    BY DEF RInv
  <1> QED
    BY <1>1, ReplicaInvariance, PTL

\* Only calls the release names leave, whatever replica sends them.
THEOREM ReplicasReleased == ReplicaSpec => []OnlyReleasedCallsLeave
  <1>1. RInv => OnlyReleasedCallsLeave
    BY DEF RInv, VInv, IInv
  <1> QED
    BY <1>1, ReplicaInvariance, PTL

\* Two executions of one attempt at one time are two replicas'.
THEOREM OneAtAReplica == ReplicaSpec => []OneExecutionAtAReplica
  <1>1. ASSUME RInv PROVE OneExecutionAtAReplica
    <2> SUFFICES ASSUME NEW e \in Execution, NEW f \in Execution, Running(e), Running(f),
                        AttemptOf[e] = AttemptOf[f], at[e] = at[f]
                 PROVE  e = f
      BY DEF OneExecutionAtAReplica
    <2>1. [state |-> "executing", by |-> e] = [state |-> "executing", by |-> f]
      BY <1>1 DEF RInv, ClaimsAreHeld, Holds
    <2> QED
      BY <2>1
  <1> QED
    BY <1>1, ReplicaInvariance, PTL

\* The callers of an attempt that hear a verdict hear one, from whatever replica
\* and whether it was executed or remembered, and a page is recorded.
THEOREM OneVerdictIsHeard == ReplicaSpec => []CallersHearOneVerdict
  <1>1. ASSUME RInv PROVE CallersHearOneVerdict
    <2>1. /\ VerdictsAgree /\ FinalNamesWhatWasRecorded /\ RepliesAreOwn /\ SignedIsDecided
          /\ reply \in [Execution -> Reply \cup {None}]
      BY <1>1, DeterminedAgree DEF RInv, VInv, IInv, ReplicaTypeOK
    <2>2. \A e \in Execution : reply[e] # None /\ reply[e].word = "result" =>
             /\ reply[e].by \in Execution /\ AttemptOf[reply[e].by] = AttemptOf[e]
             /\ result[reply[e].by] # None
      BY <2>1 DEF Reply, Heard, Refused, Nothing, RepliesAreOwn, SignedIsDecided
    <2> QED
      BY <2>1, <2>2 DEF CallersHearOneVerdict, VerdictsAgree, FinalNamesWhatWasRecorded, MyTask
  <1> QED
    BY <1>1, ReplicaInvariance, PTL
=============================================================================
