--------------------------- MODULE TaskUnitProofs ---------------------------
(***************************************************************************)
(* Theorems about TaskUnit, for every number of deliveries, attempts,      *)
(* bodies, slots, remembered answers, clock ticks and lives.  IInv is      *)
(* inductive: one lemma per conjunct, one step per action that can disturb *)
(* it, and the rest by what the action leaves unchanged.                   *)
(***************************************************************************)
EXTENDS TaskUnit, TLAPS, FiniteSetTheorems

-----------------------------------------------------------------------------
(***************************************************************************)
(* What each operation of the register preserves.                          *)
(***************************************************************************)
\* An empty register is coherent: newReplayRegister, and a process that starts.
LEMMA EmptyIsCoherent ==
    ASSUME RegisterInit
    PROVE  RegisterType /\ RegisterCoherent
  BY LimitAssumption DEF RegisterInit, RegisterType, RegisterCoherent, Known, Claimed

\* A process that ends leaves an empty register to the next.
LEMMA ForgetIsCoherent ==
    ASSUME Forget
    PROVE  RegisterType' /\ RegisterCoherent'
  BY LimitAssumption DEF Forget, RegisterType, RegisterCoherent, Known, Claimed

\* A claim on an attempt that is neither answered nor claimed (reserve).
LEMMA ClaimIsCoherent ==
    ASSUME RegisterType, RegisterCoherent,
           NEW a \in Attempt, NEW b \in Body, Claimable(a), Claim(a, b)
    PROVE  RegisterType' /\ RegisterCoherent'
  BY DEF RegisterType, RegisterCoherent, Claimable, Claim, Known, Claimed

\* A claim withdrawn (release).
LEMMA ReleaseIsCoherent ==
    ASSUME RegisterType, RegisterCoherent, NEW a \in Attempt, Release(a)
    PROVE  RegisterType' /\ RegisterCoherent'
  BY DEF RegisterType, RegisterCoherent, Release, Known, Claimed

\* An answer remembered, the oldest forgotten when the register is full
\* (record).
LEMMA RecordIsCoherent ==
    ASSUME RegisterType, RegisterCoherent,
           NEW a \in Attempt, NEW b \in Body, NEW d \in Delivery, Record(a, b, d)
    PROVE  RegisterType' /\ RegisterCoherent'
  <1> USE DEF RegisterType, Outcome
  <1>1. pending' = [pending EXCEPT ![a] = None] /\ pending' \in [Attempt -> Body \cup {None}]
    BY DEF Record
  <1>2. [body |-> b, by |-> d] # None
    BY NoneAssumption
  <1>3. CASE Known(a)
    <2>1. order' = order /\ Evicted(a) = {}
      BY <1>3 DEF Record, Evicted
    <2>2. \A x \in Attempt : outcomes'[x] = IF x = a THEN [body |-> b, by |-> d] ELSE outcomes[x]
      BY <2>1 DEF Record
    <2>3. outcomes' \in [Attempt -> Outcome \cup {None}]
      BY <2>1 DEF Record
    <2> QED
      BY <1>1, <1>2, <1>3, <2>1, <2>2, <2>3 DEF RegisterCoherent, Known, Claimed
  <1>4. CASE ~Known(a) /\ Len(order) < Limit
    <2>1. Evicted(a) = {} /\ order' = Append(order, a)
      BY <1>4, LimitAssumption DEF Record, Evicted
    <2>2. \A x \in Attempt : outcomes'[x] = IF x = a THEN [body |-> b, by |-> d] ELSE outcomes[x]
      BY <2>1 DEF Record
    <2>3. outcomes' \in [Attempt -> Outcome \cup {None}]
      BY <2>1 DEF Record
    <2>4. /\ Len(order') = Len(order) + 1
          /\ order'[Len(order) + 1] = a
          /\ \A i \in 1..Len(order) : order'[i] = order[i]
      BY <2>1
    <2>5. \A i \in 1..Len(order) : order[i] # a
      BY <1>4 DEF RegisterCoherent
    <2>6. order' \in Seq(Attempt) /\ Len(order') <= Limit
      BY <1>4, <2>1, <2>4, LimitAssumption
    <2>7. \A i, j \in 1..Len(order') : order'[i] = order'[j] => i = j
      BY <2>4, <2>5 DEF RegisterCoherent
    <2>8. \A x \in Attempt : outcomes'[x] # None <=> \E i \in 1..Len(order') : order'[i] = x
      BY <1>2, <2>2, <2>4, <2>5 DEF RegisterCoherent, Known
    <2>9. \A x \in Attempt : ~(outcomes'[x] # None /\ pending'[x] # None)
      BY <1>1, <2>2 DEF RegisterCoherent, Known, Claimed
    <2> QED
      BY <1>1, <2>3, <2>6, <2>7, <2>8, <2>9 DEF RegisterCoherent, Known, Claimed
  <1>5. CASE ~Known(a) /\ Len(order) >= Limit
    <2>1. Len(order) = Limit /\ order # <<>>
      BY <1>5, LimitAssumption DEF RegisterCoherent
    <2>2. Evicted(a) = {order[1]} /\ order' = Append(Tail(order), a)
      <3>1. Evicted(a) = {Head(order)}
        BY <1>5 DEF Evicted
      <3>2. Evicted(a) # {}
        BY <3>1
      <3>3. Head(order) = order[1]
        BY <2>1
      <3>4. order' = Append(IF Evicted(a) = {} THEN order ELSE Tail(order), a)
        BY <1>5 DEF Record
      <3> QED
        BY <3>1, <3>2, <3>3, <3>4
    <2>3. \A x \in Attempt : outcomes'[x] = IF x = a THEN [body |-> b, by |-> d]
                                            ELSE IF x = order[1] THEN None ELSE outcomes[x]
      BY <2>2 DEF Record
    <2>4. outcomes' \in [Attempt -> Outcome \cup {None}]
      BY <2>2 DEF Record
    <2>5. /\ Len(order') = Len(order)
          /\ order'[Len(order)] = a
          /\ \A i \in 1..(Len(order) - 1) : order'[i] = order[i + 1]
          /\ order' \in Seq(Attempt)
      BY <2>1, <2>2, LimitAssumption
    <2>6. \A i \in 1..Len(order) : order[i] # a
      BY <1>5 DEF RegisterCoherent
    <2>7. \A i, j \in 1..Len(order') : order'[i] = order'[j] => i = j
      BY <2>1, <2>5, <2>6, LimitAssumption DEF RegisterCoherent
    <2>8. ASSUME NEW x \in Attempt
          PROVE  outcomes'[x] # None <=> \E i \in 1..Len(order') : order'[i] = x
      <3>1. CASE x = a
        BY <3>1, <1>2, <2>1, <2>3, <2>5, LimitAssumption
      <3>2. CASE x # a /\ x = order[1]
        BY <3>2, <2>1, <2>3, <2>5, LimitAssumption DEF RegisterCoherent
      <3>3. CASE x # a /\ x # order[1]
        <4>1. outcomes'[x] # None <=> \E i \in 1..Len(order) : order[i] = x
          BY <3>3, <2>3 DEF RegisterCoherent, Known
        <4>2. ASSUME NEW i \in 1..Len(order), order[i] = x
              PROVE  \E k \in 1..Len(order') : order'[k] = x
          <5>1. i # 1 /\ (i - 1) \in 1..(Len(order) - 1)
            BY <3>3, <4>2
          <5>2. order'[i - 1] = order[(i - 1) + 1] /\ (i - 1) + 1 = i
            BY <5>1, <2>5
          <5> QED
            BY <5>1, <5>2, <4>2, <2>5, <2>1, LimitAssumption
        <4>3. ASSUME NEW k \in 1..Len(order'), order'[k] = x
              PROVE  \E i \in 1..Len(order) : order[i] = x
          BY <3>3, <4>3, <2>1, <2>5, LimitAssumption
        <4> QED
          BY <4>1, <4>2, <4>3
      <3> QED
        BY <3>1, <3>2, <3>3
    <2>9. \A x \in Attempt : ~(outcomes'[x] # None /\ pending'[x] # None)
      BY <1>1, <2>3 DEF RegisterCoherent, Known, Claimed
    <2> QED
      BY <1>1, <2>1, <2>4, <2>5, <2>7, <2>8, <2>9 DEF RegisterCoherent, Known, Claimed
  <1> QED
    BY <1>3, <1>4, <1>5, LimitAssumption
-----------------------------------------------------------------------------
\* What one delivery entering or leaving a set of them does to its size.
LEMMA MoveCounts ==
    ASSUME NEW d \in Delivery, NEW F \in SUBSET Delivery, NEW G \in SUBSET Delivery,
           F \ {d} = G \ {d}
    PROVE  /\ Cardinality(F) \in Nat /\ Cardinality(G) \in Nat
           /\ (d \in F <=> d \in G) => Cardinality(G) = Cardinality(F)
           /\ d \notin F /\ d \in G => Cardinality(G) = Cardinality(F) + 1
           /\ d \in F /\ d \notin G => Cardinality(G) = Cardinality(F) - 1
  <1>1. IsFiniteSet(F) /\ IsFiniteSet(G)
    BY DeliveryAssumption, FS_Subset
  <1>2. Cardinality(F) \in Nat /\ Cardinality(G) \in Nat
    BY <1>1, FS_CardinalityType
  <1>3. ASSUME d \in F <=> d \in G PROVE G = F
    BY <1>3
  <1>4. ASSUME d \notin F, d \in G PROVE Cardinality(G) = Cardinality(F) + 1
    <2>1. G = F \cup {d}
      BY <1>4
    <2> QED
      BY <1>1, <1>4, <2>1, FS_AddElement
  <1>5. ASSUME d \in F, d \notin G PROVE Cardinality(G) = Cardinality(F) - 1
    <2>1. G = F \ {d}
      BY <1>5
    <2> QED
      BY <1>1, <1>5, <2>1, FS_RemoveElement
  <1> QED
    BY <1>2, <1>3, <1>4, <1>5

\* No delivery, no count.
LEMMA NoneCounts ==
    ASSUME NEW S, NEW f, \A e \in Delivery : f[e] \notin S
    PROVE  Cardinality({e \in Delivery : f[e] \in S}) = 0
  <1>1. {e \in Delivery : f[e] \in S} = {}
    OBVIOUS
  <1> QED
    BY <1>1, FS_EmptySet
-----------------------------------------------------------------------------
\* An idle unit with an empty register satisfies the invariant.
LEMMA InitIInv == Init => IInv
  <1> SUFFICES ASSUME Init PROVE IInv
    OBVIOUS
  <1>1. RegisterType /\ RegisterCoherent
    BY EmptyIsCoherent DEF Init
  <1>2. TypeOK
    <2>1. starts \in 1..MaxStarts /\ slots \in 0..MaxConcurrency /\ now \in 0..Horizon
      BY BoundsAssumption, ConcurrencyAssumption DEF Init
    <2>2. pc \in [Delivery -> Active \cup {"idle", "done", "lost"}]
      BY DEF Init
    <2>3. arrived \in [Delivery -> 0..Horizon] /\ lapses \in [Attempt -> Nat]
      BY BoundsAssumption DEF Init
    <2> QED
      BY <1>1, <2>1, <2>2, <2>3 DEF Init, TypeOK
  <1>3. HandlersFollowTheOrder
    BY DEF Init, HandlersFollowTheOrder, HoldsClaim, Checked, Active, Slotted, Claiming
  <1>4. CountersMatchHandlers
    <2>1. \A e \in Delivery : pc[e] \notin Slotted /\ pc[e] \notin Counted
      BY DEF Init, Slotted, Claiming, Counted
    <2> QED
      BY <2>1, NoneCounts DEF Init, CountersMatchHandlers
  <1>5. OneExecutionPerAttempt
    BY DEF Init, OneExecutionPerAttempt, RegisterInit, HoldsClaim, Claiming, Claimed
  <1>6. RememberedAnswersAreReal /\ AnswersComeFromTheSameWork
    BY NoneAssumption DEF Init, RegisterInit, RememberedAnswersAreReal, AnswersComeFromTheSameWork, Known
  <1> QED
    BY <1>1, <1>2, <1>3, <1>4, <1>5, <1>6 DEF IInv

-----------------------------------------------------------------------------
\* The request a handler carries has a key and a body.
LEMMA RequestTyped ==
    ASSUME IInv, NEW d \in Delivery, pc[d] # "idle"
    PROVE  req[d] \in Request /\ Key(d) \in Attempt /\ Bytes(d) \in Body
  BY RequestAssumption DEF IInv, HandlersFollowTheOrder, Key, Bytes

\* The register stays coherent: only Reserve, RecordAnswer, ReleaseClaim and the
\* end of the process touch it.
LEMMA NextRegister ==
    ASSUME IInv, [Next]_vars
    PROVE  RegisterType' /\ RegisterCoherent'
  <1>0. RegisterType /\ RegisterCoherent
    BY DEF IInv, TypeOK
  <1>1. ASSUME UNCHANGED register
        PROVE  RegisterType' /\ RegisterCoherent'
    BY <1>0, <1>1 DEF register, RegisterType, RegisterCoherent, Known, Claimed
  <1>2. ASSUME NEW d \in Delivery, Reserve(d)
        PROVE  RegisterType' /\ RegisterCoherent'
    <2>1. Key(d) \in Attempt /\ Bytes(d) \in Body
      BY <1>2, RequestTyped DEF Reserve
    <2>2. CASE Admit(d)
      BY <1>0, <2>1, <2>2, ClaimIsCoherent DEF Admit
    <2>3. CASE RefuseOrReplay(d)
      BY <1>1, <2>3 DEF RefuseOrReplay
    <2> QED
      BY <1>2, <2>2, <2>3 DEF Reserve
  <1>3. ASSUME NEW d \in Delivery, RecordAnswer(d)
        PROVE  RegisterType' /\ RegisterCoherent'
    BY <1>0, <1>3, RequestTyped, RecordIsCoherent DEF RecordAnswer
  <1>4. ASSUME NEW d \in Delivery, ReleaseClaim(d)
        PROVE  RegisterType' /\ RegisterCoherent'
    BY <1>0, <1>4, RequestTyped, ReleaseIsCoherent DEF ReleaseClaim
  <1>5. ASSUME EndProcess
        PROVE  RegisterType' /\ RegisterCoherent'
    BY <1>5, ForgetIsCoherent DEF EndProcess
  <1>6. ASSUME NEW d \in Delivery, Arrive(d) \/ Step(d)
        PROVE  RegisterType' /\ RegisterCoherent'
    BY <1>1, <1>2, <1>3, <1>4, <1>6
    DEF Step, Arrive, Gate, TakeSlot, CheckRequest, Lookup, CheckWindow, CountAdmitted,
        Resolve, CountAnswered, CountUnanswered, Write
  <1>7. ASSUME StartDrain \/ Drain \/ Crash \/ Start \/ Tick \/ Ended
        PROVE  RegisterType' /\ RegisterCoherent'
    BY <1>1, <1>5, <1>7
    DEF StartDrain, Drain, BeginShutdown, HandlersReturned, CloseWindow, ReportDrain, Exit,
        Crash, Start, Tick, Ended, untouched, vars
  <1>8. CASE UNCHANGED vars
    BY <1>1, <1>8 DEF vars
  <1> QED
    BY <1>6, <1>7, <1>8 DEF Next
-----------------------------------------------------------------------------
\* A delivery whose goroutine moves on changes the counts of slotted and of
\* counted handlers by what it leaves and enters.
LEMMA MoveKeepsCounts ==
    ASSUME IInv, NEW d \in Delivery, NEW x, MoveTo(d, x),
           \/ (pc[d] \in Slotted <=> x \in Slotted) /\ slots' = slots
           \/ pc[d] \notin Slotted /\ x \in Slotted /\ slots' = slots + 1
           \/ pc[d] \in Slotted /\ x \notin Slotted /\ slots' = slots - 1,
           \/ (pc[d] \in Counted <=> x \in Counted) /\ inFlight' = inFlight
           \/ pc[d] \notin Counted /\ x \in Counted /\ inFlight' = inFlight + 1
           \/ pc[d] \in Counted /\ x \notin Counted /\ inFlight' = inFlight - 1
    PROVE  CountersMatchHandlers' /\ slots' \in Nat /\ inFlight' \in Nat
  <1>1. pc \in [Delivery -> Active \cup {"idle", "done", "lost"}]
    BY DEF IInv, TypeOK
  <1>2. /\ slots = Cardinality({e \in Delivery : pc[e] \in Slotted})
        /\ inFlight = Cardinality({e \in Delivery : pc[e] \in Counted})
    BY DEF IInv, CountersMatchHandlers
  <1>3. slots' = Cardinality({e \in Delivery : pc'[e] \in Slotted}) /\ slots' \in Nat
    <2> DEFINE F == {e \in Delivery : pc[e] \in Slotted}
               G == {e \in Delivery : pc'[e] \in Slotted}
    <2>1. F \in SUBSET Delivery /\ G \in SUBSET Delivery /\ F \ {d} = G \ {d}
      BY <1>1 DEF MoveTo
    <2>2. (d \in F <=> pc[d] \in Slotted) /\ (d \in G <=> x \in Slotted) /\ slots = Cardinality(F)
      BY <1>1, <1>2 DEF MoveTo
    <2> HIDE DEF F, G
    <2>3. /\ Cardinality(F) \in Nat /\ Cardinality(G) \in Nat
          /\ (d \in F <=> d \in G) => Cardinality(G) = Cardinality(F)
          /\ d \notin F /\ d \in G => Cardinality(G) = Cardinality(F) + 1
          /\ d \in F /\ d \notin G => Cardinality(G) = Cardinality(F) - 1
      BY <2>1, MoveCounts
    <2>4. slots' = Cardinality(G)
      BY <2>2, <2>3
    <2> QED
      BY <2>3, <2>4 DEF G
  <1>4. inFlight' = Cardinality({e \in Delivery : pc'[e] \in Counted}) /\ inFlight' \in Nat
    <2> DEFINE F == {e \in Delivery : pc[e] \in Counted}
               G == {e \in Delivery : pc'[e] \in Counted}
    <2>1. F \in SUBSET Delivery /\ G \in SUBSET Delivery /\ F \ {d} = G \ {d}
      BY <1>1 DEF MoveTo
    <2>2. (d \in F <=> pc[d] \in Counted) /\ (d \in G <=> x \in Counted) /\ inFlight = Cardinality(F)
      BY <1>1, <1>2 DEF MoveTo
    <2> HIDE DEF F, G
    <2>3. /\ Cardinality(F) \in Nat /\ Cardinality(G) \in Nat
          /\ (d \in F <=> d \in G) => Cardinality(G) = Cardinality(F)
          /\ d \notin F /\ d \in G => Cardinality(G) = Cardinality(F) + 1
          /\ d \in F /\ d \notin G => Cardinality(G) = Cardinality(F) - 1
      BY <2>1, MoveCounts
    <2>4. inFlight' = Cardinality(G)
      BY <2>2, <2>3
    <2> QED
      BY <2>3, <2>4 DEF G
  <1> QED
    BY <1>3, <1>4 DEF CountersMatchHandlers

\* Every step that takes or frees a slot or a place in the count moves one handler with it.
LEMMA NextCounters ==
    ASSUME IInv, [Next]_vars
    PROVE  CountersMatchHandlers' /\ slots' \in 0..MaxConcurrency /\ inFlight' \in Nat
  <1>0. slots \in 0..MaxConcurrency /\ inFlight \in Nat
        /\ pc \in [Delivery -> Active \cup {"idle", "done", "lost"}]
    BY DEF IInv, TypeOK
  <1>1. ASSUME UNCHANGED <<counters, pc>>
        PROVE  CountersMatchHandlers' /\ slots' \in 0..MaxConcurrency /\ inFlight' \in Nat
    BY <1>0, <1>1 DEF IInv, CountersMatchHandlers, counters
  <1>9. /\ \A x \in {"check", "lookup", "window", "reserve", "claimed", "executing", "resolved",
                    "counted", "failed", "released", "replying"} : x \in Slotted
        /\ \A x \in {"idle", "gate", "slot", "done"} : x \notin Slotted
        /\ \A x \in {"executing", "resolved", "failed", "released"} : x \in Counted
        /\ \A x \in {"idle", "gate", "slot", "done", "check", "lookup", "window", "reserve",
                    "claimed", "counted", "replying"} : x \notin Counted
    BY DEF Slotted, Counted, Claiming
  <1>2. ASSUME NEW d \in Delivery, Arrive(d) \/ Step(d)
        PROVE  CountersMatchHandlers' /\ slots' \in Nat /\ inFlight' \in Nat
               /\ slots' <= MaxConcurrency
    <2>1. CASE Arrive(d)
      BY <2>1, <1>0, <1>9, ConcurrencyAssumption, MoveKeepsCounts DEF Arrive, GoTo, counters
    <2>2. CASE Gate(d)
      BY <2>2, <1>0, <1>9, ConcurrencyAssumption, MoveKeepsCounts DEF Gate, GoTo, TurnAway, Answer, counters
    <2>3. CASE TakeSlot(d)
      BY <2>3, <1>0, <1>9, ConcurrencyAssumption, MoveKeepsCounts DEF TakeSlot, GoTo, TurnAway, Answer
    <2>4. CASE CheckRequest(d)
      BY <2>4, <1>0, <1>9, ConcurrencyAssumption, MoveKeepsCounts DEF CheckRequest, GoTo, Decide, Answer, counters
    <2>5. CASE Lookup(d)
      BY <2>5, <1>0, <1>9, ConcurrencyAssumption, MoveKeepsCounts DEF Lookup, GoTo, Decide, Answer, counters
    <2>6. CASE CheckWindow(d)
      BY <2>6, <1>0, <1>9, ConcurrencyAssumption, MoveKeepsCounts DEF CheckWindow, GoTo, Decide, Answer, counters
    <2>7. CASE Reserve(d)
      BY <2>7, <1>0, <1>9, ConcurrencyAssumption, MoveKeepsCounts
      DEF Reserve, Admit, RefuseOrReplay, GoTo, Decide, Answer, counters
    <2>8. CASE CountAdmitted(d)
      BY <2>8, <1>0, <1>9, ConcurrencyAssumption, MoveKeepsCounts DEF CountAdmitted, GoTo
    <2>9. CASE Resolve(d)
      BY <2>9, <1>0, <1>9, ConcurrencyAssumption, MoveKeepsCounts DEF Resolve, GoTo, counters
    <2>10. CASE CountAnswered(d)
      BY <2>10, <1>0, <1>9, ConcurrencyAssumption, MoveKeepsCounts DEF CountAnswered, GoTo
    <2>11. CASE RecordAnswer(d)
      BY <2>11, <1>0, <1>9, ConcurrencyAssumption, MoveKeepsCounts DEF RecordAnswer, Decide, Answer, counters
    <2>12. CASE ReleaseClaim(d)
      BY <2>12, <1>0, <1>9, ConcurrencyAssumption, MoveKeepsCounts DEF ReleaseClaim, GoTo, counters
    <2>13. CASE CountUnanswered(d)
      BY <2>13, <1>0, <1>9, ConcurrencyAssumption, MoveKeepsCounts DEF CountUnanswered, Decide, Answer
    <2>14. CASE Write(d)
      BY <2>14, <1>0, <1>9, ConcurrencyAssumption, MoveKeepsCounts DEF Write, GoTo
    <2> QED
      BY <1>2, <2>1, <2>2, <2>3, <2>4, <2>5, <2>6, <2>7, <2>8, <2>9, <2>10, <2>11, <2>12,
         <2>13, <2>14 DEF Step
  <1>3. ASSUME EndProcess
        PROVE  CountersMatchHandlers' /\ slots' \in 0..MaxConcurrency /\ inFlight' \in Nat
    <2>1. \A e \in Delivery : pc'[e] \notin Slotted /\ pc'[e] \notin Counted
      BY <1>3, <1>0 DEF EndProcess, Active, Slotted, Counted, Claiming
    <2>2. /\ Cardinality({e \in Delivery : pc'[e] \in Slotted}) = 0
          /\ Cardinality({e \in Delivery : pc'[e] \in Counted}) = 0
      BY <2>1, NoneCounts
    <2> QED
      BY <1>3, <2>2, ConcurrencyAssumption DEF EndProcess, CountersMatchHandlers
  <1>4. ASSUME StartDrain \/ Drain \/ Crash \/ Start \/ Tick \/ Ended
        PROVE  CountersMatchHandlers' /\ slots' \in 0..MaxConcurrency /\ inFlight' \in Nat
    BY <1>1, <1>3, <1>4
    DEF StartDrain, Drain, BeginShutdown, HandlersReturned, CloseWindow, ReportDrain, Exit,
        Crash, Start, Tick, Ended, untouched, vars
  <1>5. CASE UNCHANGED vars
    BY <1>1, <1>5 DEF vars
  <1> QED
    BY <1>2, <1>4, <1>5, ConcurrencyAssumption DEF Next
-----------------------------------------------------------------------------
\* Every step keeps the types, so no more slots are taken than there are.
LEMMA NextTypes ==
    ASSUME IInv, [Next]_vars
    PROVE  TypeOK'
  <1>0. TypeOK
    BY DEF IInv
  <1>1. RegisterType' /\ slots' \in 0..MaxConcurrency /\ inFlight' \in Nat
    BY NextRegister, NextCounters
  <1>2. ASSUME NEW d \in Delivery, Arrive(d) \/ Step(d)
        PROVE  /\ pc' \in [Delivery -> Active \cup {"idle", "done", "lost"}]
               /\ req' \in [Delivery -> Request \cup {None}]
               /\ reply' \in [Delivery -> Delivery \cup Refusal \cup {None}]
               /\ ran' \subseteq Delivery
               /\ lapses' \in [Attempt -> Nat]
               /\ arrived' \in [Delivery -> 0..Horizon]
               /\ UNCHANGED <<process, now>>
    <2>0. ASSUME NEW x \in Active \cup {"idle", "done", "lost"}, MoveTo(d, x)
          PROVE  pc' \in [Delivery -> Active \cup {"idle", "done", "lost"}]
      BY <1>0, <2>0 DEF TypeOK, MoveTo
    <2>1. ASSUME NEW r \in Delivery \cup Refusal, reply' = [reply EXCEPT ![d] = r]
          PROVE  reply' \in [Delivery -> Delivery \cup Refusal \cup {None}]
      BY <1>0, <2>1 DEF TypeOK
    <2>2. \A x \in {"gate", "slot", "check", "lookup", "window", "reserve", "claimed",
                    "executing", "resolved", "counted", "failed", "released", "replying",
                    "done"} : x \in Active \cup {"idle", "done", "lost"}
      BY DEF Active, Slotted, Claiming
    <2>3. \A x \in {"idempotencyReused", "notAdmissible", "admissionClosed",
                    "capacityExhausted", "internalRefusal"} : x \in Refusal
      BY DEF Refusal
    <2>4. Objection(req[d]) = "none" \/ Objection(req[d]) \in Refusal
      BY DEF Objection, Refusal
    <2>5. ASSUME NEW a \in Attempt, Known(a)
          PROVE  outcomes[a].by \in Delivery
      BY <1>0, <2>5 DEF TypeOK, RegisterType, Known, Outcome
    <2>6. pc[d] # "idle" => Key(d) \in Attempt /\ Bytes(d) \in Body
      BY RequestTyped
    <2>7. CASE Arrive(d)
      BY <1>0, <2>0, <2>2, <2>7 DEF Arrive, GoTo, TypeOK
    <2>8. CASE Gate(d)
      BY <1>0, <2>0, <2>1, <2>2, <2>3, <2>8
      DEF Gate, GoTo, TurnAway, Answer, TypeOK, history
    <2>9. CASE TakeSlot(d)
      BY <1>0, <2>0, <2>1, <2>2, <2>3, <2>9
      DEF TakeSlot, GoTo, TurnAway, Answer, TypeOK, history
    <2>10. CASE CheckRequest(d)
      BY <1>0, <2>0, <2>1, <2>2, <2>4, <2>10
      DEF CheckRequest, GoTo, Decide, Answer, TypeOK, history
    <2>11. CASE Lookup(d)
      BY <1>0, <2>0, <2>1, <2>2, <2>3, <2>5, <2>6, <2>11
      DEF Lookup, Replayable, GoTo, Decide, Answer, TypeOK, history
    <2>12. CASE CheckWindow(d)
      BY <1>0, <2>0, <2>1, <2>2, <2>3, <2>12
      DEF CheckWindow, GoTo, Decide, Answer, TypeOK, history
    <2>13. CASE Reserve(d)
      BY <1>0, <2>0, <2>1, <2>2, <2>3, <2>5, <2>6, <2>13
      DEF Reserve, Admit, RefuseOrReplay, Replayable, GoTo, Decide, Answer, TypeOK
    <2>14. CASE CountAdmitted(d) \/ Resolve(d) \/ CountAnswered(d) \/ Write(d)
      BY <1>0, <2>0, <2>2, <2>14
      DEF CountAdmitted, Resolve, CountAnswered, Write, GoTo, TypeOK, history
    <2>15. CASE RecordAnswer(d)
      <3>1. lapses' \in [Attempt -> Nat]
        BY <1>0, <2>15 DEF RecordAnswer, TypeOK
      <3> QED
        BY <1>0, <2>0, <2>1, <2>2, <2>15, <3>1 DEF RecordAnswer, Decide, Answer, TypeOK
    <2>16. CASE ReleaseClaim(d)
      BY <1>0, <2>0, <2>2, <2>6, <2>16 DEF ReleaseClaim, GoTo, TypeOK
    <2>17. CASE CountUnanswered(d)
      BY <1>0, <2>0, <2>1, <2>2, <2>3, <2>17
      DEF CountUnanswered, Decide, Answer, TypeOK, history
    <2> QED
      BY <1>2, <2>7, <2>8, <2>9, <2>10, <2>11, <2>12, <2>13, <2>14, <2>15, <2>16, <2>17
      DEF Step
  <1>3. ASSUME NEW d \in Delivery, Arrive(d) \/ Step(d)
        PROVE  TypeOK'
    BY <1>0, <1>1, <1>2, <1>3 DEF TypeOK, process
  <1>4. ASSUME EndProcess
        PROVE  TypeOK'
    <2>1. pc' \in [Delivery -> Active \cup {"idle", "done", "lost"}]
      BY <1>0, <1>4 DEF EndProcess, TypeOK
    <2>2. lapses' \in [Attempt -> Nat]
      BY <1>0, <1>4 DEF EndProcess, TypeOK
    <2> QED
      BY <1>0, <1>1, <1>4, <2>1, <2>2 DEF EndProcess, TypeOK
  <1>5. ASSUME StartDrain \/ BeginShutdown \/ HandlersReturned \/ CloseWindow
        PROVE  TypeOK'
    BY <1>0, <1>1, <1>5
    DEF StartDrain, BeginShutdown, HandlersReturned, CloseWindow, untouched, history, TypeOK
  <1>6. ASSUME ReportDrain \/ Start \/ Tick
        PROVE  TypeOK'
    <2>1. CASE ReportDrain
      BY <1>0, <1>1, <2>1 DEF ReportDrain, untouched, history, TypeOK
    <2>2. CASE Start
      <3>1. starts' \in 1..MaxStarts
        BY <1>0, <2>2, BoundsAssumption DEF Start, TypeOK
      <3> QED
        BY <1>0, <1>1, <2>2, <3>1 DEF Start, untouched, history, TypeOK
    <2>3. CASE Tick
      <3>1. now' \in 0..Horizon
        BY <1>0, <2>3, BoundsAssumption DEF Tick, TypeOK
      <3> QED
        BY <1>0, <1>1, <2>3, <3>1 DEF Tick, process, history, TypeOK
    <2> QED
      BY <1>6, <2>1, <2>2, <2>3
  <1>7. CASE UNCHANGED vars
    BY <1>0, <1>1, <1>7 DEF vars, process, history, TypeOK
  <1> QED
    BY <1>3, <1>4, <1>5, <1>6, <1>7 DEF Next, Drain, Exit, Crash, Ended
-----------------------------------------------------------------------------
\* The order of the handler: what a delivery carries and has passed by the time
\* it reaches each step.
LEMMA NextOrder ==
    ASSUME IInv, [Next]_vars
    PROVE  HandlersFollowTheOrder'
  <1>0. TypeOK /\ HandlersFollowTheOrder
    BY DEF IInv
  <1>1. ASSUME NEW d \in Delivery, NEW x, GoTo(d, x), x # "idle",
               phase' = phase, phase # "exited", pc[d] # "idle",
               x \in Before => pc[d] \in Before,
               x \in Claiming => pc[d] \in Claiming,
               x \in Checked => Objection(req[d]) = "none",
               UNCHANGED <<req, ran>>
        PROVE  HandlersFollowTheOrder'
    BY <1>0, <1>1 DEF HandlersFollowTheOrder, HoldsClaim, GoTo, MoveTo, TypeOK
  <1>6. ASSUME NEW d \in Delivery, NEW x, NEW r, Answer(d, r, x), x # "idle",
               phase' = phase, phase # "exited", pc[d] # "idle",
               x \in Before => pc[d] \in Before,
               x \in Claiming => pc[d] \in Claiming,
               x \in Checked => Objection(req[d]) = "none",
               UNCHANGED <<req, ran>>
        PROVE  HandlersFollowTheOrder'
    BY <1>0, <1>6 DEF HandlersFollowTheOrder, HoldsClaim, Answer, MoveTo, TypeOK
  <1>2. \A d \in Delivery : pc[d] \in Active => phase # "exited"
    BY <1>0 DEF HandlersFollowTheOrder
  <1>3. ASSUME NEW d \in Delivery, Arrive(d) \/ Step(d)
        PROVE  HandlersFollowTheOrder'
    <2>0. \A x \in Checked : pc[d] = x => Objection(req[d]) = "none"
      BY <1>0 DEF HandlersFollowTheOrder
    <2> USE DEF Before, Checked, Active, Slotted, Claiming
    <2>1. CASE Arrive(d)
      BY <1>0, <2>1 DEF Arrive, GoTo, MoveTo, HandlersFollowTheOrder, HoldsClaim, TypeOK, process
    <2>2. CASE Gate(d) \/ TakeSlot(d) \/ CheckRequest(d)
      BY <1>1, <1>6, <1>2, <2>0, <2>2
      DEF Gate, TakeSlot, CheckRequest, TurnAway, Decide, process, history
    <2>3. CASE Lookup(d) \/ CheckWindow(d)
      BY <1>1, <1>6, <1>2, <2>0, <2>3 DEF Lookup, CheckWindow, Decide, process, history
    <2>4. CASE Reserve(d)
      <3>1. CASE Admit(d)
        BY <1>0, <1>2, <2>0, <2>4, <3>1
        DEF Reserve, Admit, GoTo, MoveTo, HandlersFollowTheOrder, HoldsClaim, TypeOK, process
      <3>2. CASE RefuseOrReplay(d)
        BY <1>1, <1>6, <1>2, <2>0, <2>4, <3>2 DEF Reserve, RefuseOrReplay, Decide, process
      <3> QED
        BY <2>4, <3>1, <3>2 DEF Reserve
    <2>5. CASE CountAdmitted(d) \/ Resolve(d) \/ CountAnswered(d)
      BY <1>1, <1>6, <1>2, <2>0, <2>5 DEF CountAdmitted, Resolve, CountAnswered, process, history
    <2>6. CASE RecordAnswer(d) \/ ReleaseClaim(d)
      BY <1>1, <1>6, <1>2, <2>0, <2>6 DEF RecordAnswer, ReleaseClaim, Decide, process
    <2>7. CASE CountUnanswered(d) \/ Write(d)
      BY <1>1, <1>6, <1>2, <2>0, <2>7 DEF CountUnanswered, Write, Decide, process, history
    <2> QED
      BY <1>3, <2>1, <2>2, <2>3, <2>4, <2>5, <2>6, <2>7 DEF Step
  <1>4. ASSUME EndProcess
        PROVE  HandlersFollowTheOrder'
    BY <1>0, <1>4
    DEF EndProcess, HandlersFollowTheOrder, HoldsClaim, TypeOK, Before, Checked, Active, Slotted,
        Claiming
  <1>5. ASSUME StartDrain \/ BeginShutdown \/ HandlersReturned \/ CloseWindow \/ ReportDrain
               \/ Start \/ Tick \/ UNCHANGED vars
        PROVE  HandlersFollowTheOrder'
    <2>1. UNCHANGED <<pc, req, ran, reply>> /\ (phase' = "exited" => phase = "exited")
      BY <1>5
      DEF StartDrain, BeginShutdown, HandlersReturned, CloseWindow, ReportDrain, Start, Tick,
          untouched, history, process, vars
    <2> QED
      BY <1>0, <2>1 DEF HandlersFollowTheOrder, HoldsClaim, Key
  <1> QED
    BY <1>3, <1>4, <1>5 DEF Next, Drain, Exit, Crash, Ended
-----------------------------------------------------------------------------
\* A step that moves one delivery neither into nor out of its claim, and leaves
\* the claims alone, keeps one execution per attempt.
LEMMA QuietMove ==
    ASSUME IInv, NEW d \in Delivery, NEW x, MoveTo(d, x),
           pc[d] \in Claiming <=> x \in Claiming,
           UNCHANGED <<pending, req>>
    PROVE  OneExecutionPerAttempt'
  <1>1. \A e \in Delivery : HoldsClaim(e)' <=> HoldsClaim(e)
    BY DEF IInv, TypeOK, MoveTo, HoldsClaim
  <1> QED
    BY <1>1 DEF IInv, OneExecutionPerAttempt, Claimed, Key, Bytes

\* An attempt is claimed by the one delivery whose handler executes it.
LEMMA NextOneExecution ==
    ASSUME IInv, [Next]_vars
    PROVE  OneExecutionPerAttempt'
  <1>0. TypeOK /\ OneExecutionPerAttempt /\ RegisterType
    BY DEF IInv, TypeOK
  <1>9. /\ \A x \in {"idle", "gate", "slot", "check", "lookup", "window", "reserve", "released",
                     "replying", "done"} : x \notin Claiming
        /\ \A x \in {"claimed", "executing", "resolved", "counted", "failed"} : x \in Claiming
    BY DEF Claiming
  <1>1. ASSUME NEW d \in Delivery, Arrive(d)
        PROVE  OneExecutionPerAttempt'
    <2>1. \A e \in Delivery : HoldsClaim(e)' <=> HoldsClaim(e)
      BY <1>0, <1>1, <1>9 DEF Arrive, GoTo, MoveTo, TypeOK, HoldsClaim
    <2>2. \A e \in Delivery : HoldsClaim(e) => req'[e] = req[e]
      BY <1>0, <1>1, <1>9 DEF Arrive, TypeOK, HoldsClaim
    <2>3. pending' = pending
      BY <1>1 DEF Arrive, register
    <2> QED
      BY <1>0, <2>1, <2>2, <2>3 DEF OneExecutionPerAttempt, Claimed, Key, Bytes
  <1>2. ASSUME NEW d \in Delivery, Reserve(d), Admit(d)
        PROVE  OneExecutionPerAttempt'
    <2>1. Key(d) \in Attempt /\ Bytes(d) \in Body
      BY <1>2, RequestTyped DEF Reserve
    <2>2. \A e \in Delivery : HoldsClaim(e)' <=> HoldsClaim(e) \/ e = d
      BY <1>0, <1>2, <1>9 DEF Admit, GoTo, MoveTo, TypeOK, HoldsClaim
    <2>3. pending' = [pending EXCEPT ![Key(d)] = Bytes(d)] /\ pending[Key(d)] = None
      BY <1>2 DEF Admit, Claim, Claimable, Claimed
    <2>4. ASSUME NEW e \in Delivery, HoldsClaim(e)
          PROVE  Key(e) # Key(d) /\ Key(e) \in Attempt
      <3>1. pc[e] # "idle"
        BY <2>4, <1>9 DEF HoldsClaim
      <3>2. Key(e) \in Attempt /\ Bytes(e) \in Body /\ pending[Key(e)] = Bytes(e)
        BY <3>1, <2>4, <1>0, RequestTyped DEF OneExecutionPerAttempt
      <3> QED
        BY <3>2, <2>3, NoneAssumption
    <2>5. UNCHANGED req
      BY <1>2 DEF Reserve
    <2>6. \A e \in Delivery : HoldsClaim(e)' => pending'[Key(e)'] = Bytes(e)'
      BY <1>0, <2>1, <2>2, <2>3, <2>4, <2>5
      DEF OneExecutionPerAttempt, RegisterType, Key, Bytes
    <2>7. \A a \in Attempt : pending'[a] # None =>
             \E e \in Delivery : HoldsClaim(e)' /\ Key(e)' = a
      BY <1>0, <2>1, <2>2, <2>3, <2>5
      DEF OneExecutionPerAttempt, RegisterType, Claimed, Key
    <2>8. \A e, f \in Delivery : HoldsClaim(e)' /\ HoldsClaim(f)' /\ Key(e)' = Key(f)' => e = f
      BY <1>0, <2>2, <2>4, <2>5 DEF OneExecutionPerAttempt, Key
    <2> QED
      BY <2>6, <2>7, <2>8 DEF OneExecutionPerAttempt, Claimed
  <1>3. ASSUME NEW d \in Delivery, RecordAnswer(d) \/ ReleaseClaim(d)
        PROVE  OneExecutionPerAttempt'
    <2>1. Key(d) \in Attempt
      BY <1>3, RequestTyped DEF RecordAnswer, ReleaseClaim
    <2>2. \A e \in Delivery : HoldsClaim(e)' <=> HoldsClaim(e) /\ e # d
      BY <1>0, <1>3, <1>9
      DEF RecordAnswer, ReleaseClaim, GoTo, Decide, Answer, MoveTo, TypeOK, HoldsClaim
    <2>3. pending' = [pending EXCEPT ![Key(d)] = None] /\ UNCHANGED req
      BY <1>3 DEF RecordAnswer, ReleaseClaim, Record, Release
    <2>4. HoldsClaim(d)
      BY <1>3, <1>9 DEF RecordAnswer, ReleaseClaim, HoldsClaim
    <2>5. \A e \in Delivery : HoldsClaim(e) /\ e # d => Key(e) # Key(d)
      BY <1>0, <2>4 DEF OneExecutionPerAttempt
    <2>6. \A e \in Delivery : HoldsClaim(e)' => pending'[Key(e)'] = Bytes(e)'
      BY <1>0, <2>1, <2>2, <2>3, <2>5
      DEF OneExecutionPerAttempt, RegisterType, Key, Bytes
    <2>7. \A a \in Attempt : pending'[a] # None =>
             \E e \in Delivery : HoldsClaim(e)' /\ Key(e)' = a
      BY <1>0, <2>1, <2>2, <2>3
      DEF OneExecutionPerAttempt, RegisterType, Claimed, Key
    <2>8. \A e, f \in Delivery : HoldsClaim(e)' /\ HoldsClaim(f)' /\ Key(e)' = Key(f)' => e = f
      BY <1>0, <2>2, <2>3 DEF OneExecutionPerAttempt, Key
    <2> QED
      BY <2>6, <2>7, <2>8 DEF OneExecutionPerAttempt, Claimed
  <1>4. ASSUME NEW d \in Delivery, Step(d), ~(Reserve(d) /\ Admit(d)),
               ~RecordAnswer(d), ~ReleaseClaim(d)
        PROVE  OneExecutionPerAttempt'
    <2>1. CASE Gate(d) \/ TakeSlot(d) \/ CheckRequest(d)
      BY <2>1, <1>9, QuietMove
      DEF Gate, TakeSlot, CheckRequest, GoTo, TurnAway, Decide, Answer, register
    <2>2. CASE Lookup(d) \/ CheckWindow(d)
      BY <2>2, <1>9, QuietMove DEF Lookup, CheckWindow, GoTo, Decide, Answer, register
    <2>3. CASE Reserve(d)
      BY <2>3, <1>4, <1>9, QuietMove DEF Reserve, RefuseOrReplay, Decide, Answer, register
    <2>4. CASE CountAdmitted(d) \/ Resolve(d) \/ CountAnswered(d)
      BY <2>4, <1>9, QuietMove DEF CountAdmitted, Resolve, CountAnswered, GoTo, register
    <2>5. CASE CountUnanswered(d) \/ Write(d)
      BY <2>5, <1>9, QuietMove DEF CountUnanswered, Write, GoTo, Decide, Answer, register
    <2> QED
      BY <1>4, <2>1, <2>2, <2>3, <2>4, <2>5 DEF Step
  <1>5. ASSUME EndProcess
        PROVE  OneExecutionPerAttempt'
    <2>1. \A e \in Delivery : ~HoldsClaim(e)'
      BY <1>0, <1>5 DEF EndProcess, HoldsClaim, TypeOK, Active, Slotted, Claiming
    <2>2. \A a \in Attempt : pending'[a] = None
      BY <1>5 DEF EndProcess, Forget
    <2> QED
      BY <2>1, <2>2 DEF OneExecutionPerAttempt, Claimed
  <1>6. ASSUME StartDrain \/ BeginShutdown \/ HandlersReturned \/ CloseWindow \/ ReportDrain
               \/ Start \/ Tick \/ UNCHANGED vars
        PROVE  OneExecutionPerAttempt'
    <2>1. UNCHANGED <<pc, req, pending>>
      BY <1>6
      DEF StartDrain, BeginShutdown, HandlersReturned, CloseWindow, ReportDrain, Start, Tick,
          untouched, register, vars
    <2> QED
      BY <1>0, <2>1 DEF OneExecutionPerAttempt, HoldsClaim, Claimed, Key, Bytes
  <1> QED
    BY <1>1, <1>2, <1>3, <1>4, <1>5, <1>6 DEF Next, Drain, Exit, Crash, Ended
-----------------------------------------------------------------------------
\* A step that leaves the outcomes, what was executed and the requests alone,
\* and answers nobody with a result.
LEMMA NothingAnswered ==
    ASSUME IInv, UNCHANGED <<outcomes, req>>, ran \subseteq ran',
           \A e \in Delivery : reply'[e] \in Delivery => reply'[e] = reply[e]
    PROVE  RememberedAnswersAreReal' /\ AnswersComeFromTheSameWork'
  BY DEF IInv, RememberedAnswersAreReal, AnswersComeFromTheSameWork, Known, Key, Bytes

(***************************************************************************)
(* A request that passes every check is entitled to an answer.             *)
(***************************************************************************)
LEMMA EntitledWhenChecked ==
    ASSUME NEW r \in Request, Objection(r) = "none"
    PROVE  Entitled(r)
  <1>1. r.shaped \in BOOLEAN /\ r.credential \in {"bound", "foreign", "invalid"}
    BY RequestAssumption
  <1> QED
    BY <1>1 DEF Objection, Entitled

\* A step that replays what is remembered for the bytes of a checked delivery.
LEMMA RememberedAnswered ==
    ASSUME IInv, NEW d \in Delivery, pc[d] \in Checked, pc[d] # "idle",
           Replayable(Key(d), Bytes(d)), Answer(d, outcomes[Key(d)].by, "replying"),
           UNCHANGED <<outcomes, req, ran>>
    PROVE  RememberedAnswersAreReal' /\ AnswersComeFromTheSameWork'
  <1> DEFINE by == outcomes[Key(d)].by
  <1>1. Key(d) \in Attempt
    BY RequestTyped
  <1>2. by \in ran /\ Bytes(by) = Bytes(d)
    BY <1>1 DEF IInv, RememberedAnswersAreReal, Replayable
  <1>3. Entitled(req[d])
    BY EntitledWhenChecked DEF IInv, HandlersFollowTheOrder
  <1>4. reply' = [reply EXCEPT ![d] = by] /\ reply \in [Delivery -> Delivery \cup Refusal \cup {None}]
    BY DEF Answer, IInv, TypeOK
  <1>5. AnswersComeFromTheSameWork'
    BY <1>2, <1>3, <1>4 DEF IInv, AnswersComeFromTheSameWork, Bytes
  <1>6. RememberedAnswersAreReal'
    BY DEF IInv, RememberedAnswersAreReal, Known, Key, Bytes
  <1> QED
    BY <1>5, <1>6

\* What is remembered and what is answered come from an execution of the same work.
LEMMA NextAnswers ==
    ASSUME IInv, [Next]_vars
    PROVE  RememberedAnswersAreReal' /\ AnswersComeFromTheSameWork'
  <1>0. /\ TypeOK /\ HandlersFollowTheOrder
        /\ RememberedAnswersAreReal /\ AnswersComeFromTheSameWork
        /\ reply \in [Delivery -> Delivery \cup Refusal \cup {None}]
        /\ ran \subseteq Delivery
        /\ outcomes \in [Attempt -> Outcome \cup {None}]
    BY DEF IInv, TypeOK, RegisterType
  <1>9. ASSUME NEW d \in Delivery, NEW r \in Refusal, reply' = [reply EXCEPT ![d] = r]
        PROVE  \A e \in Delivery : reply'[e] \in Delivery => reply'[e] = reply[e]
    BY <1>0, <1>9, RefusalAssumption
  <1>8. \A x \in {"idempotencyReused", "notAdmissible", "admissionClosed", "capacityExhausted",
                  "internalRefusal"} : x \in Refusal
    BY DEF Refusal
  <1>1. ASSUME NEW d \in Delivery, Arrive(d)
        PROVE  RememberedAnswersAreReal' /\ AnswersComeFromTheSameWork'
    <2>1. d \notin ran /\ reply[d] \notin Delivery /\ UNCHANGED <<outcomes, ran, reply>>
      BY <1>0, <1>1, NoneAssumption
      DEF Arrive, GoTo, HandlersFollowTheOrder, Before, register
    <2>2. \A e \in Delivery : e # d => req'[e] = req[e]
      BY <1>0, <1>1 DEF Arrive, TypeOK
    <2>3. \A e \in ran : req'[e] = req[e]
      BY <1>0, <2>1, <2>2
    <2> QED
      BY <1>0, <2>1, <2>2, <2>3
      DEF RememberedAnswersAreReal, AnswersComeFromTheSameWork, Known, Key, Bytes
  <1>2. ASSUME NEW d \in Delivery, Lookup(d)
        PROVE  RememberedAnswersAreReal' /\ AnswersComeFromTheSameWork'
    <2>1. CASE Replayable(Key(d), Bytes(d)) /\ Decide(d, outcomes[Key(d)].by)
      BY <1>2, <2>1, RememberedAnswered DEF Lookup, Decide, register, history, Checked
    <2>2. CASE Decide(d, "idempotencyReused") \/ GoTo(d, "window")
      BY <1>2, <1>8, <1>9, <2>2, NothingAnswered
      DEF Lookup, Decide, Answer, GoTo, register, history
    <2> QED
      BY <1>2, <2>1, <2>2 DEF Lookup
  <1>3. ASSUME NEW d \in Delivery, Reserve(d)
        PROVE  RememberedAnswersAreReal' /\ AnswersComeFromTheSameWork'
    <2>1. CASE Admit(d)
      BY <1>3, <2>1, NothingAnswered DEF Reserve, Admit, Claim, GoTo
    <2>2. CASE /\ RefuseOrReplay(d)
               /\ Replayable(Key(d), Bytes(d)) /\ Decide(d, outcomes[Key(d)].by)
      BY <1>3, <2>2, RememberedAnswered DEF Reserve, RefuseOrReplay, Decide, register, Checked
    <2>3. CASE /\ RefuseOrReplay(d)
               /\ Decide(d, "idempotencyReused") \/ Decide(d, "capacityExhausted")
      BY <1>3, <1>8, <1>9, <2>3, NothingAnswered
      DEF Reserve, RefuseOrReplay, Decide, Answer, register
    <2> QED
      BY <1>3, <2>1, <2>2, <2>3 DEF Reserve, RefuseOrReplay
  <1>4. ASSUME NEW d \in Delivery, RecordAnswer(d)
        PROVE  RememberedAnswersAreReal' /\ AnswersComeFromTheSameWork'
    <2>1. d \in ran /\ Entitled(req[d]) /\ Key(d) \in Attempt
      BY <1>0, <1>4, RequestTyped, EntitledWhenChecked DEF RecordAnswer, HandlersFollowTheOrder, HoldsClaim, Claiming
    <2>2. UNCHANGED <<req, ran>> /\ reply' = [reply EXCEPT ![d] = d]
      BY <1>4 DEF RecordAnswer, Decide, Answer
    <2>3. \A a \in Attempt :
             \/ a = Key(d) /\ outcomes'[a] = [body |-> Bytes(d), by |-> d]
             \/ outcomes'[a] = outcomes[a] \/ outcomes'[a] = None
      BY <1>4 DEF RecordAnswer, Record
    <2>4. RememberedAnswersAreReal'
      BY <1>0, <2>1, <2>2, <2>3 DEF RememberedAnswersAreReal, Known, Key, Bytes
    <2>5. AnswersComeFromTheSameWork'
      BY <1>0, <2>1, <2>2 DEF AnswersComeFromTheSameWork
    <2> QED
      BY <2>4, <2>5
  <1>5. ASSUME NEW d \in Delivery, Gate(d) \/ TakeSlot(d) \/ CheckRequest(d) \/ CheckWindow(d)
        PROVE  RememberedAnswersAreReal' /\ AnswersComeFromTheSameWork'
    <2>1. Objection(req[d]) = "none" \/ Objection(req[d]) \in Refusal
      BY DEF Objection, Refusal
    <2> QED
      BY <1>5, <1>8, <1>9, <2>1, NothingAnswered
      DEF Gate, TakeSlot, CheckRequest, CheckWindow, GoTo, TurnAway, Decide, Answer, register,
          history
  <1>6. ASSUME NEW d \in Delivery,
               \/ CountAdmitted(d) \/ Resolve(d) \/ CountAnswered(d) \/ ReleaseClaim(d)
               \/ CountUnanswered(d) \/ Write(d)
        PROVE  RememberedAnswersAreReal' /\ AnswersComeFromTheSameWork'
    BY <1>6, <1>8, <1>9, NothingAnswered
    DEF CountAdmitted, Resolve, CountAnswered, ReleaseClaim, Release, CountUnanswered, Write,
        GoTo, Decide, Answer, register, history
  <1>7. ASSUME EndProcess
        PROVE  RememberedAnswersAreReal' /\ AnswersComeFromTheSameWork'
    <2>1. UNCHANGED <<req, ran, reply>> /\ \A a \in Attempt : outcomes'[a] = None
      BY <1>7 DEF EndProcess, Forget
    <2> QED
      BY <1>0, <2>1 DEF RememberedAnswersAreReal, AnswersComeFromTheSameWork, Known
  <1>10. ASSUME StartDrain \/ BeginShutdown \/ HandlersReturned \/ CloseWindow \/ ReportDrain
                \/ Start \/ Tick \/ UNCHANGED vars
         PROVE  RememberedAnswersAreReal' /\ AnswersComeFromTheSameWork'
    <2>1. UNCHANGED <<outcomes, req, ran, reply>>
      BY <1>10
      DEF StartDrain, BeginShutdown, HandlersReturned, CloseWindow, ReportDrain, Start, Tick,
          untouched, register, history, vars
    <2> QED
      BY <2>1, NothingAnswered
  <1> QED
    BY <1>1, <1>2, <1>3, <1>4, <1>5, <1>6, <1>7, <1>10 DEF Next, Step, Drain, Exit, Crash, Ended
-----------------------------------------------------------------------------
\* IInv holds in every reachable state.
THEOREM Invariance == Spec => []IInv
  <1>1. Init => IInv
    BY InitIInv
  <1>2. IInv /\ [Next]_vars => IInv'
    <2> SUFFICES ASSUME IInv, [Next]_vars PROVE IInv'
      OBVIOUS
    <2> QED
      BY NextRegister, NextCounters, NextTypes, NextOrder, NextOneExecution, NextAnswers
      DEF IInv
  <1> QED
    BY <1>1, <1>2, PTL DEF Spec

\* The unit's state keeps its type: in particular no more slots are taken than
\* the release declares, and the in-flight count never falls below zero.
THEOREM TypeCorrect == Spec => []TypeOK
  <1>1. IInv => TypeOK
    BY DEF IInv
  <1> QED
    BY <1>1, Invariance, PTL

\* The replay register is coherent whatever handlers interleave on it.
THEOREM RegisterStaysCoherent == Spec => []RegisterCoherent
  <1>1. IInv => RegisterCoherent
    BY DEF IInv
  <1> QED
    BY <1>1, Invariance, PTL

\* No two deliveries of one attempt are ever executing at once, and no claim
\* outlives the execution it was made for.
THEOREM ExecutesOnceAtATime == Spec => []OneExecutionPerAttempt
  <1>1. IInv => OneExecutionPerAttempt
    BY DEF IInv
  <1> QED
    BY <1>1, Invariance, PTL

\* A caller is only ever given the result of executing its own attempt and
\* bytes, and only when it may ask.
THEOREM AnswersAreFaithful ==
    Spec => [](AnswersComeFromTheSameWork /\ RememberedAnswersAreReal)
  <1>1. IInv => AnswersComeFromTheSameWork /\ RememberedAnswersAreReal
    BY DEF IInv
  <1> QED
    BY <1>1, Invariance, PTL

\* The slots and the in-flight count are exactly the handlers that hold them.
THEOREM CountersAreExact == Spec => []CountersMatchHandlers
  <1>1. IInv => CountersMatchHandlers
    BY DEF IInv
  <1> QED
    BY <1>1, Invariance, PTL
-----------------------------------------------------------------------------
\* A remembered answer is forgotten or kept, never replaced.
LEMMA NextStable ==
    ASSUME IInv, Next, NEW a \in Attempt, Known(a)
    PROVE  \/ outcomes'[a] = outcomes[a]
           \/ outcomes'[a] = None /\ order[1] = a /\ Len(order) = Limit
           \/ phase' = "exited"
  <1>1. RegisterType /\ RegisterCoherent
    BY DEF IInv, TypeOK
  <1>2. ASSUME NEW d \in Delivery, RecordAnswer(d)
        PROVE  \/ outcomes'[a] = outcomes[a]
               \/ outcomes'[a] = None /\ order[1] = a /\ Len(order) = Limit
    <2>1. HoldsClaim(d) /\ Key(d) \in Attempt /\ Bytes(d) \in Body
      BY <1>2, RequestTyped DEF RecordAnswer, HoldsClaim, Claiming
    <2>2. ~Known(Key(d))
      BY <1>1, <2>1, NoneAssumption DEF IInv, OneExecutionPerAttempt, RegisterCoherent, Claimed
    <2>3. Record(Key(d), Bytes(d), d)
      BY <1>2 DEF RecordAnswer
    <2>4. outcomes'[a] = IF a \in Evicted(Key(d)) THEN None ELSE outcomes[a]
      BY <2>2, <2>3 DEF Record
    <2>5. a \in Evicted(Key(d)) => Len(order) = Limit /\ a = Head(order) /\ order # <<>>
      BY <1>1, LimitAssumption DEF Evicted, RegisterType, RegisterCoherent
    <2> QED
      BY <1>1, <2>4, <2>5 DEF RegisterType
  <1>3. CASE UNCHANGED outcomes
    BY <1>3
  <1>4. ASSUME NEW d \in Delivery, Arrive(d) \/ Step(d), ~RecordAnswer(d)
        PROVE  UNCHANGED outcomes
    BY <1>4
    DEF Step, Arrive, Gate, TakeSlot, CheckRequest, Lookup, CheckWindow, Reserve, Admit, Claim,
        RefuseOrReplay, CountAdmitted, Resolve, CountAnswered, ReleaseClaim, Release,
        CountUnanswered, Write, register
  <1>5. ASSUME EndProcess PROVE phase' = "exited"
    BY <1>5 DEF EndProcess
  <1>6. ASSUME StartDrain \/ BeginShutdown \/ HandlersReturned \/ CloseWindow \/ ReportDrain
               \/ Start \/ Tick \/ Ended
        PROVE  UNCHANGED outcomes
    BY <1>6
    DEF StartDrain, BeginShutdown, HandlersReturned, CloseWindow, ReportDrain, Start, Tick,
        Ended, untouched, register, vars
  <1> QED
    BY <1>2, <1>3, <1>4, <1>5, <1>6 DEF Next, Drain, Exit, Crash

\* Recorded answers are stable: every replay of an attempt the unit still
\* remembers is the same answer.
THEOREM AnswersStayPut == Spec => AnswersAreStable
  <1>1. IInv /\ [Next]_vars => [\A a \in Attempt : Known(a) =>
                          \/ outcomes'[a] = outcomes[a]
                          \/ outcomes'[a] = None /\ order[1] = a /\ Len(order) = Limit
                          \/ phase' = "exited"]_vars
    BY NextStable
  <1> QED
    BY <1>1, Invariance, PTL DEF Spec, AnswersAreStable

-----------------------------------------------------------------------------
\* What a delivery brought stays what it brought, and what ran has run.
LEMMA HistoryStays ==
    ASSUME IInv, [Next]_vars
    PROVE  /\ ran \subseteq ran' /\ now <= now'
           /\ \A e \in Delivery : pc[e] # "idle" =>
                 pc'[e] # "idle" /\ req'[e] = req[e] /\ arrived'[e] = arrived[e]
  <1>0. /\ pc \in [Delivery -> Active \cup {"idle", "done", "lost"}] /\ now \in 0..Horizon
        /\ req \in [Delivery -> Request \cup {None}] /\ arrived \in [Delivery -> 0..Horizon]
    BY DEF IInv, TypeOK
  <1>1. ASSUME NEW d \in Delivery, NEW x, x # "idle", MoveTo(d, x)
        PROVE  \A e \in Delivery : pc[e] # "idle" => pc'[e] # "idle"
    BY <1>0, <1>1 DEF MoveTo
  <1>2. ASSUME NEW d \in Delivery, Arrive(d)
        PROVE  /\ ran' = ran /\ now' = now
               /\ \A e \in Delivery : pc[e] # "idle" =>
                     pc'[e] # "idle" /\ req'[e] = req[e] /\ arrived'[e] = arrived[e]
    BY <1>0, <1>1, <1>2 DEF Arrive, GoTo
  <1>3. ASSUME NEW d \in Delivery, Step(d)
        PROVE  /\ ran \subseteq ran' /\ UNCHANGED <<req, arrived, now>>
               /\ \E x : x # "idle" /\ MoveTo(d, x)
    <2>1. \A x : GoTo(d, x) => MoveTo(d, x)
      BY DEF GoTo
    <2>2. /\ \A x : Decide(d, x) => MoveTo(d, "replying")
          /\ TurnAway(d) => MoveTo(d, "done")
      BY DEF Decide, TurnAway, Answer
    <2> QED
      BY <1>3, <2>1, <2>2
      DEF Step, Gate, TakeSlot, CheckRequest, Lookup, CheckWindow, Reserve, Admit,
          RefuseOrReplay, CountAdmitted, Resolve, CountAnswered, RecordAnswer, ReleaseClaim,
          CountUnanswered, Write, history
  <1>4. ASSUME EndProcess
        PROVE  /\ UNCHANGED <<req, arrived, now, ran>>
               /\ \A e \in Delivery : pc[e] # "idle" => pc'[e] # "idle"
    BY <1>0, <1>4 DEF EndProcess
  <1>5. ASSUME StartDrain \/ BeginShutdown \/ HandlersReturned \/ CloseWindow \/ ReportDrain
               \/ Start \/ UNCHANGED vars
        PROVE  UNCHANGED <<pc, req, arrived, now, ran>>
    BY <1>5
    DEF StartDrain, BeginShutdown, HandlersReturned, CloseWindow, ReportDrain, Start, untouched,
        history, vars
  <1>6. ASSUME Tick
        PROVE  UNCHANGED <<pc, req, arrived, ran>> /\ now' = now + 1
    BY <1>6 DEF Tick, history
  <1> QED
    BY <1>0, <1>1, <1>2, <1>3, <1>4, <1>5, <1>6 DEF Next, Drain, Exit, Crash, Ended

\* Bytes are turned away as reused only for bytes that ran: the register
\* remembers or claims no others.
LEMMA NextReuse ==
    ASSUME IInv, ReuseIsReal, [Next]_vars
    PROVE  ReuseIsReal'
  <1>0. /\ reply \in [Delivery -> Delivery \cup Refusal \cup {None}] /\ ran \subseteq Delivery
        /\ HandlersFollowTheOrder /\ OneExecutionPerAttempt /\ RememberedAnswersAreReal
    BY DEF IInv, TypeOK
  <1>1. \A e \in ran : pc[e] # "idle"
    BY <1>0 DEF HandlersFollowTheOrder, Before
  <1> SUFFICES ASSUME NEW d \in Delivery, reply'[d] = "idempotencyReused"
               PROVE  (\E e \in ran : Key(e) = Key(d) /\ Bytes(e) # Bytes(d))'
    BY DEF ReuseIsReal
  <1>2. ASSUME pc[d] # "idle", NEW e \in ran, Key(e) = Key(d), Bytes(e) # Bytes(d)
        PROVE  (\E f \in ran : Key(f) = Key(d) /\ Bytes(f) # Bytes(d))'
    BY <1>0, <1>1, <1>2, HistoryStays DEF Key, Bytes
  <1>3. CASE reply[d] = "idempotencyReused"
    <2>1. pc[d] # "idle"
      BY <1>0, <1>3, RefusalAssumption DEF HandlersFollowTheOrder, Refusal
    <2> QED
      BY <1>2, <1>3, <2>1 DEF ReuseIsReal
  <1>4. CASE Lookup(d) \/ Reserve(d)
    <2>1. pc[d] # "idle" /\ Key(d) \in Attempt
      BY <1>4, RequestTyped DEF Lookup, Reserve
    <2>2. ASSUME AnsweredOther(Key(d), Bytes(d))
          PROVE  \E e \in ran : Key(e) = Key(d) /\ Bytes(e) # Bytes(d)
      BY <1>0, <2>1, <2>2 DEF AnsweredOther, RememberedAnswersAreReal
    <2>3. ASSUME ClaimedOther(Key(d), Bytes(d))
          PROVE  \E e \in ran : Key(e) = Key(d) /\ Bytes(e) # Bytes(d)
      BY <1>0, <2>1, <2>3 DEF ClaimedOther, OneExecutionPerAttempt, HandlersFollowTheOrder
    <2>4. ASSUME Replayable(Key(d), Bytes(d)), Decide(d, outcomes[Key(d)].by)
          PROVE  FALSE
      <3>1. outcomes[Key(d)].by \in Delivery
        BY <1>0, <2>1, <2>4 DEF Replayable, RememberedAnswersAreReal
      <3>2. reply'[d] = outcomes[Key(d)].by
        BY <1>0, <2>4 DEF Decide, Answer
      <3> QED
        BY <3>1, <3>2, RefusalAssumption DEF Refusal
    <2>5. ASSUME Decide(d, "capacityExhausted")
          PROVE  FALSE
      BY <1>0, <2>5 DEF Decide, Answer
    <2>6. CASE reply' = reply
      BY <1>3, <2>6
    <2> QED
      BY <1>2, <1>4, <2>1, <2>2, <2>3, <2>4, <2>5, <2>6
      DEF Lookup, Reserve, Admit, RefuseOrReplay, GoTo
  <1>5. ASSUME NEW e \in Delivery, Arrive(e) \/ Step(e), ~(e = d /\ (Lookup(e) \/ Reserve(e)))
        PROVE  reply'[d] = reply[d]
    <2>1. CASE e # d
      <3>1. \A x, next : Answer(e, x, next) => reply'[d] = reply[d]
        BY <1>0, <2>1 DEF Answer
      <3>2. \A x : GoTo(e, x) => reply' = reply
        BY DEF GoTo
      <3> QED
        BY <1>5, <3>1, <3>2
        DEF Arrive, Step, Gate, TakeSlot, CheckRequest, Lookup, CheckWindow, Reserve, Admit,
            RefuseOrReplay, CountAdmitted, Resolve, CountAnswered, RecordAnswer, ReleaseClaim,
            CountUnanswered, Write, Decide, TurnAway
    <2>2. CASE e = d
      <3>1. \A x, next : Answer(d, x, next) => x = "idempotencyReused"
        BY <1>0 DEF Answer
      <3>2. \A x : GoTo(d, x) => reply' = reply
        BY DEF GoTo
      <3>3. Objection(req[d]) # "idempotencyReused" /\ d # "idempotencyReused"
        BY RefusalAssumption DEF Objection, Refusal
      <3> QED
        BY <1>5, <2>2, <3>1, <3>2, <3>3
        DEF Arrive, Step, Gate, TakeSlot, CheckRequest, CheckWindow, CountAdmitted, Resolve,
            CountAnswered, RecordAnswer, ReleaseClaim, CountUnanswered, Write, Decide, TurnAway
    <2> QED
      BY <2>1, <2>2
  <1>6. ASSUME StartDrain \/ Drain \/ Crash \/ Start \/ Tick \/ Ended \/ UNCHANGED vars
        PROVE  reply' = reply
    BY <1>6
    DEF StartDrain, Drain, BeginShutdown, HandlersReturned, CloseWindow, ReportDrain, Exit,
        Crash, EndProcess, Start, Tick, Ended, untouched, vars
  <1> QED
    BY <1>3, <1>4, <1>5, <1>6 DEF Next

\* Whoever is told that its key was reused shared it with other bytes that ran.
THEOREM ReuseIsNeverClaimedFalsely == Spec => []ReuseIsReal
  <1>1. Init => ReuseIsReal
    BY RefusalAssumption DEF Init, ReuseIsReal, Refusal
  <1>2. IInv /\ ReuseIsReal /\ [Next]_vars => ReuseIsReal'
    BY NextReuse
  <1> QED
    BY <1>1, <1>2, Invariance, PTL DEF Spec

-----------------------------------------------------------------------------
\* What makes the window's deadline inductive: nobody arrives later than now, and
\* what is about to be reserved was found inside its window.
ArrivedInTime(d) == arrived[d] < ExpiresAt[Bytes(d)]
WindowsAreChecked ==
    \A d \in Delivery :
        /\ arrived[d] <= now
        /\ pc[d] = "reserve" \/ d \in ran => ArrivedInTime(d)

\* Only the check of the window leads to the reservation, and only a reservation
\* to an execution.
LEMMA NextWindows ==
    ASSUME IInv, WindowsAreChecked, [Next]_vars
    PROVE  WindowsAreChecked'
  <1>0. /\ pc \in [Delivery -> Active \cup {"idle", "done", "lost"}] /\ now \in 0..Horizon
        /\ arrived \in [Delivery -> 0..Horizon] /\ arrived' \in [Delivery -> 0..Horizon]
        /\ now' \in 0..Horizon /\ Horizon \in Nat /\ ran \subseteq Delivery
        /\ HandlersFollowTheOrder
    BY NextTypes, BoundsAssumption DEF IInv, TypeOK
  <1>1. \A e \in ran : pc[e] # "idle"
    BY <1>0 DEF HandlersFollowTheOrder, Before
  <1> SUFFICES ASSUME NEW d \in Delivery
               PROVE  /\ arrived'[d] <= now'
                      /\ pc'[d] = "reserve" \/ d \in ran' => ArrivedInTime(d)'
    BY DEF WindowsAreChecked
  <1>2. arrived[d] <= now /\ (pc[d] = "reserve" \/ d \in ran => ArrivedInTime(d))
    BY DEF WindowsAreChecked
  <1>3. pc[d] # "idle" => arrived'[d] <= now' /\ (ArrivedInTime(d)' <=> ArrivedInTime(d))
    BY <1>0, <1>2, HistoryStays DEF ArrivedInTime, Bytes
  <1>4. CASE pc[d] = "idle"
    <2>1. d \notin ran
      BY <1>1, <1>4
    <2>2. CASE Arrive(d)
      BY <1>0, <2>1, <2>2 DEF Arrive, GoTo, MoveTo
    <2>3. ASSUME NEW e \in Delivery, e # d, Arrive(e)
          PROVE  pc'[d] = pc[d] /\ ran' = ran /\ arrived'[d] = arrived[d] /\ now' = now
      BY <1>0, <2>3 DEF Arrive, GoTo, MoveTo
    <2>4. ASSUME NEW e \in Delivery, Step(e)
          PROVE  pc'[d] = pc[d] /\ d \notin ran' /\ arrived' = arrived /\ now' = now
      <3>1. e # d
        BY <1>4, <2>4
        DEF Step, Gate, TakeSlot, CheckRequest, Lookup, CheckWindow, Reserve, CountAdmitted,
            Resolve, CountAnswered, RecordAnswer, ReleaseClaim, CountUnanswered, Write
      <3>2. \A x : GoTo(e, x) => pc'[d] = pc[d]
        BY <1>0, <3>1 DEF GoTo, MoveTo
      <3>3. /\ \A x : Decide(e, x) => pc'[d] = pc[d]
            /\ TurnAway(e) => pc'[d] = pc[d]
        BY <1>0, <3>1 DEF Decide, TurnAway, Answer, MoveTo
      <3> QED
        BY <2>1, <2>4, <3>1, <3>2, <3>3
        DEF Step, Gate, TakeSlot, CheckRequest, Lookup, CheckWindow, Reserve, Admit,
            RefuseOrReplay, CountAdmitted, Resolve, CountAnswered, RecordAnswer, ReleaseClaim,
            CountUnanswered, Write, history
    <2>5. ASSUME StartDrain \/ Drain \/ Crash \/ Start \/ Tick \/ Ended \/ UNCHANGED vars
          PROVE  pc'[d] = pc[d] /\ ran' = ran /\ arrived' = arrived /\ now <= now'
      BY <1>0, <1>4, <2>5, HistoryStays
      DEF StartDrain, Drain, BeginShutdown, HandlersReturned, CloseWindow, ReportDrain, Exit,
          Crash, EndProcess, Start, Tick, Ended, untouched, history, vars, Active, Slotted, Claiming
    <2> QED
      BY <1>0, <1>2, <1>4, <2>1, <2>2, <2>3, <2>4, <2>5 DEF Next
  <1>5. CASE pc[d] # "idle" /\ d \notin ran /\ d \in ran'
    <2>1. pc[d] = "reserve"
      BY <1>5
      DEF Next, Arrive, Step, Gate, TakeSlot, CheckRequest, Lookup, CheckWindow, Reserve, Admit,
          RefuseOrReplay, CountAdmitted, Resolve, CountAnswered, RecordAnswer, ReleaseClaim,
          CountUnanswered, Write, StartDrain, Drain, BeginShutdown, HandlersReturned, CloseWindow,
          ReportDrain, Exit, Crash, EndProcess, Start, Tick, Ended, untouched, history, vars
    <2> QED
      BY <1>2, <1>3, <1>5, <2>1
  <1>6. CASE pc[d] # "idle" /\ pc'[d] = "reserve" /\ pc[d] # "reserve"
    <2>1. CheckWindow(d)
      <3>1. ASSUME NEW e \in Delivery, Arrive(e) \/ Step(e)
            PROVE  e = d /\ CheckWindow(d)
        <4>1. \A x : GoTo(e, x) => e = d /\ x = "reserve"
          BY <1>0, <1>6 DEF GoTo, MoveTo
        <4>2. /\ \A x : ~Decide(e, x)
              /\ ~TurnAway(e)
          BY <1>0, <1>6 DEF Decide, TurnAway, Answer, MoveTo
        <4> QED
          BY <3>1, <4>1, <4>2
          DEF Arrive, Step, Gate, TakeSlot, CheckRequest, Lookup, CheckWindow, Reserve, Admit,
              RefuseOrReplay, CountAdmitted, Resolve, CountAnswered, RecordAnswer, ReleaseClaim,
              CountUnanswered, Write
      <3>2. ASSUME StartDrain \/ Drain \/ Crash \/ Start \/ Tick \/ Ended \/ UNCHANGED vars
            PROVE  pc'[d] \in {pc[d], "lost"}
        BY <1>0, <3>2
        DEF StartDrain, Drain, BeginShutdown, HandlersReturned, CloseWindow, ReportDrain, Exit,
            Crash, EndProcess, Start, Tick, Ended, untouched, vars
      <3> QED
        BY <1>6, <3>1, <3>2 DEF Next
    <2>2. ~(now >= ExpiresAt[Bytes(d)])
      BY <1>0, <1>6, <2>1 DEF CheckWindow, GoTo, Decide, Answer, MoveTo
    <2>3. ExpiresAt[Bytes(d)] \in Nat
      BY <1>6, RequestTyped, BodyAssumption
    <2> QED
      BY <1>0, <1>2, <1>3, <1>6, <2>2, <2>3 DEF ArrivedInTime
  <1>7. CASE pc[d] # "idle" /\ (d \in ran \/ pc[d] = "reserve")
    BY <1>2, <1>3, <1>7
  <1>8. CASE pc[d] # "idle" /\ d \notin ran' /\ pc'[d] # "reserve"
    BY <1>3, <1>8
  <1> QED
    BY <1>4, <1>5, <1>6, <1>7, <1>8

\* No task is executed whose window had closed before its request arrived.
THEOREM ExpiredWorkIsRefused == Spec => []ExpiredWorkNeverStarts
  <1>1. Init => WindowsAreChecked
    BY DEF Init, WindowsAreChecked
  <1>2. IInv /\ WindowsAreChecked /\ [Next]_vars => WindowsAreChecked'
    BY NextWindows
  <1>3. IInv /\ WindowsAreChecked => ExpiredWorkNeverStarts
    BY DEF IInv, TypeOK, WindowsAreChecked, ArrivedInTime, ExpiredWorkNeverStarts
  <1> QED
    BY <1>1, <1>2, <1>3, Invariance, PTL DEF Spec

-----------------------------------------------------------------------------
\* What makes a clean drain inductive: nothing is reported before the drain is
\* over, and a drain that found every handler returned is joined by no other.
DrainsAreQuiet ==
    /\ phase \in {"serving", "draining", "shutdown"} => report = None
    /\ phase = "drained" /\ ~windowClosed =>
          /\ report \in {None, 0}
          /\ \A d \in Delivery : pc[d] \notin Active

\* Handlers only start before the drain is over, so none is left to be counted.
LEMMA NextDrains ==
    ASSUME IInv, DrainsAreQuiet, [Next]_vars
    PROVE  DrainsAreQuiet'
  <1>0. /\ pc \in [Delivery -> Active \cup {"idle", "done", "lost"}]
        /\ phase \in {"serving", "draining", "shutdown", "drained", "exited"}
        /\ CountersMatchHandlers
    BY DEF IInv, TypeOK
  <1>1. ASSUME NEW d \in Delivery, Arrive(d)
        PROVE  phase' = phase /\ report' = report /\ phase # "drained"
    BY <1>1 DEF Arrive, process
  <1>2. ASSUME NEW d \in Delivery, Step(d)
        PROVE  UNCHANGED process /\ pc[d] \in Active
    BY <1>2
    DEF Step, Gate, TakeSlot, CheckRequest, Lookup, CheckWindow, Reserve, CountAdmitted,
        Resolve, CountAnswered, RecordAnswer, ReleaseClaim, CountUnanswered, Write, process,
        Active, Slotted, Claiming
  <1>3. CASE ReportDrain
    <2>1. ASSUME ~windowClosed
          PROVE  inFlight = 0 /\ \A d \in Delivery : pc[d] \notin Active
      <3>1. \A d \in Delivery : pc[d] \notin Active
        BY <1>3, <2>1 DEF ReportDrain, DrainsAreQuiet
      <3>2. Counted \subseteq Active
        BY DEF Counted, Active, Slotted, Claiming
      <3>3. \A d \in Delivery : pc[d] \notin Counted
        BY <3>1, <3>2
      <3> QED
        BY <1>0, <3>1, <3>3, NoneCounts DEF CountersMatchHandlers
    <2> QED
      BY <1>3, <2>1 DEF ReportDrain, DrainsAreQuiet, untouched
  <1>4. CASE HandlersReturned
    BY <1>4 DEF HandlersReturned, DrainsAreQuiet, untouched
  <1>5. CASE StartDrain \/ BeginShutdown \/ CloseWindow \/ Start
    BY <1>5 DEF StartDrain, BeginShutdown, CloseWindow, Start, DrainsAreQuiet
  <1>6. CASE EndProcess
    BY <1>6 DEF EndProcess, DrainsAreQuiet
  <1>7. CASE Tick \/ UNCHANGED vars
    BY <1>7 DEF Tick, vars, process, DrainsAreQuiet
  <1>8. CASE \E d \in Delivery : Arrive(d)
    BY <1>1, <1>8 DEF DrainsAreQuiet
  <1>9. CASE \E d \in Delivery : Step(d)
    BY <1>2, <1>9 DEF DrainsAreQuiet, process
  <1> QED
    BY <1>3, <1>4, <1>5, <1>6, <1>7, <1>8, <1>9 DEF Next, Drain, Exit, Crash, Ended

\* A drain that ended with every handler returned reports nothing unanswered and
\* leaves no claim behind.
THEOREM CleanDrainsLeaveNothing == Spec => []CleanDrainLeavesNothing
  <1>1. Init => DrainsAreQuiet
    BY DEF Init, DrainsAreQuiet
  <1>2. IInv /\ DrainsAreQuiet /\ [Next]_vars => DrainsAreQuiet'
    BY NextDrains
  <1>3. IInv /\ DrainsAreQuiet => CleanDrainLeavesNothing
    BY DEF IInv, OneExecutionPerAttempt, HoldsClaim, DrainsAreQuiet, CleanDrainLeavesNothing,
           Active, Slotted
  <1> QED
    BY <1>1, <1>2, <1>3, Invariance, PTL DEF Spec

-----------------------------------------------------------------------------
\* The executions of an attempt, and the one the register still knows of.
RanOf(a) == {d \in ran : Key(d) = a}
Remembered(a) == IF Known(a) \/ Claimed(a) THEN 1 ELSE 0

\* What ran under an attempt is what had run, and whatever is admitted now.
LEMMA RanOfStays ==
    ASSUME IInv, [Next]_vars, NEW a \in Attempt
    PROVE  /\ ran' = ran => RanOf(a)' = RanOf(a)
           /\ \A d \in Delivery : ran' = ran \cup {d} /\ pc[d] # "idle" =>
                 RanOf(a)' = IF Key(d) = a THEN RanOf(a) \cup {d} ELSE RanOf(a)
  <1>1. \A e \in ran : e \in Delivery /\ pc[e] # "idle"
    BY DEF IInv, TypeOK, HandlersFollowTheOrder, Before
  <1>2. \A e \in ran : Key(e)' = Key(e)
    BY <1>1, HistoryStays DEF Key
  <1>3. \A d \in Delivery : pc[d] # "idle" => Key(d)' = Key(d)
    BY HistoryStays DEF Key
  <1> QED
    BY <1>2, <1>3 DEF RanOf

\* Every attempt's executions are those the register gave up and the one it has.
LEMMA NextAccounts ==
    ASSUME IInv, ExecutionsAccountedFor, [Next]_vars
    PROVE  ExecutionsAccountedFor'
  <1>0. /\ RegisterType /\ RegisterCoherent /\ HandlersFollowTheOrder /\ OneExecutionPerAttempt
        /\ lapses \in [Attempt -> Nat] /\ ran \subseteq Delivery
    BY DEF IInv, TypeOK
  <1> SUFFICES ASSUME NEW a \in Attempt
               PROVE  Cardinality(RanOf(a)') = lapses'[a] + Remembered(a)'
    BY DEF ExecutionsAccountedFor, RanOf, Remembered
  <1>1. Cardinality(RanOf(a)) = lapses[a] + Remembered(a)
    BY DEF ExecutionsAccountedFor, RanOf, Remembered
  <1>2. lapses[a] \in Nat /\ Remembered(a) \in {0, 1}
    BY <1>0 DEF Remembered
  <1>3. ASSUME ran' = ran, UNCHANGED <<register, lapses>>
        PROVE  Cardinality(RanOf(a)') = lapses'[a] + Remembered(a)'
    <2>1. Remembered(a)' = Remembered(a)
      BY <1>3 DEF Remembered, Known, Claimed, register
    <2> QED
      BY <1>1, <1>3, <2>1, RanOfStays
  <1>4. ASSUME NEW d \in Delivery, Reserve(d), Admit(d)
        PROVE  Cardinality(RanOf(a)') = lapses'[a] + Remembered(a)'
    <2>1. pc[d] # "idle" /\ d \notin ran /\ ran' = ran \cup {d} /\ lapses' = lapses
      BY <1>0, <1>4 DEF Reserve, Admit, HandlersFollowTheOrder, Before
    <2>2. Key(d) \in Attempt /\ Bytes(d) \in Body
      BY <1>4, RequestTyped DEF Reserve
    <2>3. /\ outcomes' = outcomes /\ pending' = [pending EXCEPT ![Key(d)] = Bytes(d)]
          /\ outcomes[Key(d)] = None /\ pending[Key(d)] = None /\ Bytes(d) # None
      BY <1>4, <2>2, NoneAssumption DEF Admit, Claim, Claimable, Known, Claimed
    <2>4. CASE a = Key(d)
      <3>1. Remembered(a) = 0 /\ Remembered(a)' = 1
        BY <1>0, <2>3, <2>4 DEF Remembered, Known, Claimed, RegisterType
      <3>2. RanOf(a)' = RanOf(a) \cup {d} /\ d \notin RanOf(a)
        BY <2>1, <2>4, RanOfStays DEF RanOf
      <3>3. IsFiniteSet(RanOf(a))
        BY <1>0, DeliveryAssumption, FS_Subset DEF RanOf
      <3>4. Cardinality(RanOf(a)') = Cardinality(RanOf(a)) + 1
        BY <3>2, <3>3, FS_AddElement
      <3> QED
        BY <1>1, <1>2, <2>1, <3>1, <3>4
    <2>5. CASE a # Key(d)
      <3>1. Remembered(a)' = Remembered(a)
        BY <1>0, <2>3, <2>5 DEF Remembered, Known, Claimed, RegisterType
      <3>2. RanOf(a)' = RanOf(a)
        BY <2>1, <2>5, RanOfStays
      <3> QED
        BY <1>1, <2>1, <3>1, <3>2
    <2> QED
      BY <2>4, <2>5
  <1>5. ASSUME NEW d \in Delivery, RecordAnswer(d)
        PROVE  Cardinality(RanOf(a)') = lapses'[a] + Remembered(a)'
    <2>1. HoldsClaim(d) /\ Key(d) \in Attempt /\ Bytes(d) \in Body
      BY <1>5, RequestTyped DEF RecordAnswer, HoldsClaim, Claiming
    <2>2. Claimed(Key(d)) /\ ~Known(Key(d))
      BY <1>0, <2>1, NoneAssumption DEF OneExecutionPerAttempt, RegisterCoherent, Claimed
    <2>3. /\ pending' = [pending EXCEPT ![Key(d)] = None] /\ ran' = ran
          /\ outcomes'[a] = IF a = Key(d) THEN [body |-> Bytes(d), by |-> d]
                            ELSE IF a \in Evicted(Key(d)) THEN None ELSE outcomes[a]
          /\ lapses'[a] = IF a \in Evicted(Key(d)) THEN lapses[a] + 1 ELSE lapses[a]
      BY <1>5 DEF RecordAnswer, Record
    <2>4. a \in Evicted(Key(d)) => Known(a) /\ a # Key(d) /\ ~Claimed(a)
      <3>1. a \in Evicted(Key(d)) => a = order[1] /\ 1 \in 1..Len(order)
        BY <1>0, LimitAssumption DEF Evicted, RegisterType
      <3> QED
        BY <1>0, <2>2, <3>1 DEF RegisterCoherent
    <2>5. [body |-> Bytes(d), by |-> d] # None
      BY <2>1, NoneAssumption DEF Outcome
    <2>6. CASE a = Key(d)
      <3>1. Remembered(a) = 1 /\ Remembered(a)' = 1 /\ lapses'[a] = lapses[a]
        BY <2>2, <2>3, <2>4, <2>5, <2>6 DEF Remembered, Known
      <3> QED
        BY <1>1, <2>3, <3>1, RanOfStays
    <2>7. CASE a \in Evicted(Key(d))
      <3>1. Remembered(a) = 1 /\ Remembered(a)' = 0 /\ lapses'[a] = lapses[a] + 1
        BY <1>0, <2>3, <2>4, <2>7 DEF Remembered, Known, Claimed, RegisterType
      <3> QED
        BY <1>1, <1>2, <2>3, <3>1, RanOfStays
    <2>8. CASE a # Key(d) /\ a \notin Evicted(Key(d))
      <3>1. Remembered(a)' = Remembered(a) /\ lapses'[a] = lapses[a]
        BY <1>0, <2>3, <2>8 DEF Remembered, Known, Claimed, RegisterType
      <3> QED
        BY <1>1, <2>3, <3>1, RanOfStays
    <2> QED
      BY <2>6, <2>7, <2>8
  <1>6. ASSUME NEW d \in Delivery, ReleaseClaim(d)
        PROVE  Cardinality(RanOf(a)') = lapses'[a] + Remembered(a)'
    <2>1. HoldsClaim(d) /\ Key(d) \in Attempt /\ Bytes(d) \in Body
      BY <1>6, RequestTyped DEF ReleaseClaim, HoldsClaim, Claiming
    <2>2. Claimed(Key(d)) /\ ~Known(Key(d))
      BY <1>0, <2>1, NoneAssumption DEF OneExecutionPerAttempt, RegisterCoherent, Claimed
    <2>3. /\ pending' = [pending EXCEPT ![Key(d)] = None] /\ ran' = ran /\ outcomes' = outcomes
          /\ lapses' = [lapses EXCEPT ![Key(d)] = @ + 1]
      BY <1>6 DEF ReleaseClaim, Release
    <2>4. CASE a = Key(d)
      <3>1. Remembered(a) = 1 /\ Remembered(a)' = 0 /\ lapses'[a] = lapses[a] + 1
        BY <1>0, <2>2, <2>3, <2>4 DEF Remembered, Known, Claimed, RegisterType
      <3> QED
        BY <1>1, <1>2, <2>3, <3>1, RanOfStays
    <2>5. CASE a # Key(d)
      <3>1. Remembered(a)' = Remembered(a) /\ lapses'[a] = lapses[a]
        BY <1>0, <2>1, <2>3, <2>5 DEF Remembered, Known, Claimed, RegisterType
      <3> QED
        BY <1>1, <2>3, <3>1, RanOfStays
    <2> QED
      BY <2>4, <2>5
  <1>7. ASSUME EndProcess
        PROVE  Cardinality(RanOf(a)') = lapses'[a] + Remembered(a)'
    <2>1. ran' = ran /\ Remembered(a)' = 0 /\ lapses'[a] = lapses[a] + Remembered(a)
      BY <1>0, <1>7 DEF EndProcess, Forget, Remembered, Known, Claimed
    <2> QED
      BY <1>1, <1>2, <2>1, RanOfStays
  <1>8. ASSUME NEW d \in Delivery, Arrive(d) \/ Step(d),
               ~(Reserve(d) /\ Admit(d)), ~RecordAnswer(d), ~ReleaseClaim(d)
        PROVE  ran' = ran /\ UNCHANGED <<register, lapses>>
    BY <1>8
    DEF Step, Arrive, Gate, TakeSlot, CheckRequest, Lookup, CheckWindow, Reserve, RefuseOrReplay,
        CountAdmitted, Resolve, CountAnswered, CountUnanswered, Write, history
  <1>9. ASSUME StartDrain \/ BeginShutdown \/ HandlersReturned \/ CloseWindow \/ ReportDrain
               \/ Start \/ Tick \/ UNCHANGED vars
        PROVE  ran' = ran /\ UNCHANGED <<register, lapses>>
    BY <1>9
    DEF StartDrain, BeginShutdown, HandlersReturned, CloseWindow, ReportDrain, Start, Tick,
        untouched, history, vars
  <1> QED
    BY <1>3, <1>4, <1>5, <1>6, <1>7, <1>8, <1>9 DEF Next, Drain, Exit, Crash, Ended

\* An attempt is executed again only after the unit gave up what it knew of it,
\* once for every time it did.
THEOREM ExecutionsAreAccountedFor == Spec => []ExecutionsAccountedFor
  <1>1. ASSUME Init PROVE ExecutionsAccountedFor
    <2>1. \A a \in Attempt : {d \in ran : Key(d) = a} = {} /\ lapses[a] = 0
      BY <1>1 DEF Init
    <2>2. \A a \in Attempt : ~(Known(a) \/ Claimed(a))
      BY <1>1 DEF Init, RegisterInit, Known, Claimed
    <2> SUFFICES ASSUME NEW a \in Attempt
                 PROVE  Cardinality({d \in ran : Key(d) = a})
                           = lapses[a] + (IF Known(a) \/ Claimed(a) THEN 1 ELSE 0)
      BY DEF ExecutionsAccountedFor
    <2>3. Cardinality({d \in ran : Key(d) = a}) = 0
      BY <2>1, FS_EmptySet
    <2> QED
      BY <2>1, <2>2, <2>3
  <1>2. IInv /\ ExecutionsAccountedFor /\ [Next]_vars => ExecutionsAccountedFor'
    BY NextAccounts
  <1> QED
    BY <1>1, <1>2, Invariance, PTL DEF Spec
-----------------------------------------------------------------------------
(***************************************************************************)
(* The unit implements the ledger, step by step: what each action of the   *)
(* unit is in the ledger's terms.  Only who executes an attempt, what is   *)
(* remembered of it, what was asked and what was answered show.            *)
(***************************************************************************)

\* A delivery that did not come asked nothing, and one that was not answered
\* hears nothing.
NothingIsSaidEarly ==
    \A d \in Delivery :
        /\ pc[d] = "idle" => req[d] = None
        /\ pc[d] \notin {"replying", "done", "lost"} => reply[d] = None

LEMMA InitSaid == Init => NothingIsSaidEarly
  BY DEF Init, NothingIsSaidEarly

LEMMA NextSaid ==
    ASSUME IInv, NothingIsSaidEarly, [Next]_vars
    PROVE  NothingIsSaidEarly'
  <1>0. /\ pc \in [Delivery -> Active \cup {"idle", "done", "lost"}]
        /\ reply \in [Delivery -> Delivery \cup Refusal \cup {None}]
        /\ req \in [Delivery -> Request \cup {None}]
    BY DEF IInv, TypeOK
  <1>1. ASSUME NEW d \in Delivery, Arrive(d)
        PROVE  NothingIsSaidEarly'
    BY <1>0, <1>1 DEF Arrive, GoTo, MoveTo, NothingIsSaidEarly
  <1>2. ASSUME NEW d \in Delivery, pc[d] \notin {"idle", "done", "lost"}, NEW x, x # "idle",
               UNCHANGED req,
               \/ GoTo(d, x) /\ (pc[d] = "replying" => x = "done")
               \/ x \in {"replying", "done"} /\ \E y : Answer(d, y, x)
        PROVE  NothingIsSaidEarly'
    <2>1. CASE GoTo(d, x) /\ (pc[d] = "replying" => x = "done")
      BY <1>0, <1>2, <2>1 DEF GoTo, MoveTo, NothingIsSaidEarly
    <2>2. CASE x \in {"replying", "done"} /\ \E y : Answer(d, y, x)
      BY <1>0, <1>2, <2>2 DEF Answer, MoveTo, NothingIsSaidEarly
    <2> QED
      BY <1>2, <2>1, <2>2
  <1>3. ASSUME NEW d \in Delivery, Step(d)
        PROVE  NothingIsSaidEarly'
    <2>1. CASE Gate(d) \/ TakeSlot(d) \/ CheckRequest(d)
      BY <1>2, <2>1 DEF Gate, TakeSlot, CheckRequest, TurnAway, Decide
    <2>2. CASE Lookup(d) \/ CheckWindow(d)
      BY <1>2, <2>2 DEF Lookup, CheckWindow, Decide
    <2>3. CASE Reserve(d)
      BY <1>2, <2>3 DEF Reserve, Admit, RefuseOrReplay, Decide
    <2>4. CASE CountAdmitted(d) \/ Resolve(d) \/ CountAnswered(d)
      BY <1>2, <2>4 DEF CountAdmitted, Resolve, CountAnswered
    <2>5. CASE RecordAnswer(d) \/ ReleaseClaim(d) \/ CountUnanswered(d) \/ Write(d)
      BY <1>2, <2>5 DEF RecordAnswer, ReleaseClaim, CountUnanswered, Write, Decide
    <2> QED
      BY <1>3, <2>1, <2>2, <2>3, <2>4, <2>5 DEF Step
  <1>4. ASSUME EndProcess
        PROVE  NothingIsSaidEarly'
    BY <1>0, <1>4 DEF EndProcess, NothingIsSaidEarly, Active, Slotted, Claiming
  <1>5. ASSUME UNCHANGED <<pc, req, reply>>
        PROVE  NothingIsSaidEarly'
    BY <1>5 DEF NothingIsSaidEarly
  <1> QED
    BY <1>1, <1>3, <1>4, <1>5
    DEF Next, Drain, BeginShutdown, HandlersReturned, CloseWindow, ReportDrain, Exit, Crash,
        StartDrain, Start, Tick, Ended, untouched, vars
-----------------------------------------------------------------------------
\* What the ledger shows of an attempt: its answer, the one delivery that
\* executes it, or nothing.
HoldersAreShown ==
    \A a \in Attempt :
        /\ Known(a) => LedgerHolder[a] =
              [state |-> "answered", body |-> outcomes[a].body, by |-> outcomes[a].by]
        /\ \A d \in Delivery : HoldsClaim(d) /\ Key(d) = a =>
              ~Known(a) /\ LedgerHolder[a] = [state |-> "executing", body |-> Bytes(d), by |-> d]
        /\ ~Known(a) /\ (\A d \in Delivery : ~(HoldsClaim(d) /\ Key(d) = a)) =>
              LedgerHolder[a] = None

LEMMA HolderShown == IInv => HoldersAreShown
  <1> SUFFICES ASSUME IInv, NEW a \in Attempt
               PROVE  /\ Known(a) => LedgerHolder[a] =
                            [state |-> "answered", body |-> outcomes[a].body, by |-> outcomes[a].by]
                      /\ \A d \in Delivery : HoldsClaim(d) /\ Key(d) = a =>
                            /\ ~Known(a)
                            /\ LedgerHolder[a] =
                                  [state |-> "executing", body |-> Bytes(d), by |-> d]
                      /\ ~Known(a) /\ (\A d \in Delivery : ~(HoldsClaim(d) /\ Key(d) = a)) =>
                            LedgerHolder[a] = None
    BY DEF HoldersAreShown
  <1>1. ASSUME NEW d \in Delivery, HoldsClaim(d), Key(d) = a
        PROVE  /\ Claimed(a) /\ pending[a] = Bytes(d) /\ ~Known(a)
               /\ Claimant(a) = d
    <2>1. pc[d] # "idle"
      BY <1>1 DEF HoldsClaim, Claiming
    <2>2. pending[a] = Bytes(d) /\ Bytes(d) \in Body
      BY <1>1, <2>1, RequestTyped DEF IInv, OneExecutionPerAttempt
    <2>3. Claimed(a) /\ ~Known(a)
      BY <2>2, NoneAssumption DEF IInv, RegisterCoherent, Claimed
    <2>4. \A e \in Delivery : HoldsClaim(e) /\ Key(e) = a => e = d
      BY <1>1 DEF IInv, OneExecutionPerAttempt
    <2> QED
      BY <1>1, <2>2, <2>3, <2>4 DEF Claimant
  <1>2. (\A d \in Delivery : ~(HoldsClaim(d) /\ Key(d) = a)) => ~Claimed(a)
    BY DEF IInv, OneExecutionPerAttempt
  <1>3. LedgerHolder[a] =
           IF Known(a)
           THEN [state |-> "answered", body |-> outcomes[a].body, by |-> outcomes[a].by]
           ELSE IF Claimed(a)
           THEN [state |-> "executing", body |-> pending[a], by |-> Claimant(a)]
           ELSE None
    BY DEF LedgerHolder
  <1> QED
    BY <1>1, <1>2, <1>3

LEMMA HolderShownNext == IInv' => HoldersAreShown'
  BY HolderShown, PTL

\* A step that leaves what is remembered, who executes and what was asked of
\* them alone does not show.
LEMMA HoldersStay ==
    ASSUME IInv, IInv', UNCHANGED outcomes,
           \A e \in Delivery : HoldsClaim(e)' <=> HoldsClaim(e),
           \A e \in Delivery : HoldsClaim(e) => req'[e] = req[e]
    PROVE  UNCHANGED LedgerHolder
  <1>1. HoldersAreShown /\ HoldersAreShown'
    BY HolderShown, HolderShownNext
  <1>2. ASSUME NEW a \in Attempt PROVE LedgerHolder'[a] = LedgerHolder[a]
    <2>1. Known(a)' <=> Known(a)
      BY DEF Known
    <2>2. \A e \in Delivery : HoldsClaim(e) => Key(e)' = Key(e) /\ Bytes(e)' = Bytes(e)
      BY DEF Key, Bytes
    <2>3. CASE Known(a)
      BY <1>1, <2>1, <2>3 DEF HoldersAreShown
    <2>4. ASSUME NEW d \in Delivery, HoldsClaim(d), Key(d) = a
          PROVE  LedgerHolder'[a] = LedgerHolder[a]
      <3>1. HoldsClaim(d)' /\ Key(d)' = a /\ Bytes(d)' = Bytes(d)
        BY <2>2, <2>4
      <3>2. LedgerHolder[a] = [state |-> "executing", body |-> Bytes(d), by |-> d]
        BY <1>1, <2>4 DEF HoldersAreShown
      <3>3. LedgerHolder'[a] = [state |-> "executing", body |-> Bytes(d)', by |-> d]
        BY <1>1, <3>1 DEF HoldersAreShown
      <3> QED
        BY <3>1, <3>2, <3>3
    <2>5. CASE ~Known(a) /\ \A d \in Delivery : ~(HoldsClaim(d) /\ Key(d) = a)
      <3>1. \A d \in Delivery : ~(HoldsClaim(d)' /\ Key(d)' = a)
        BY <2>2, <2>5
      <3> QED
        BY <1>1, <2>1, <2>5, <3>1 DEF HoldersAreShown
    <2> QED
      BY <2>3, <2>4, <2>5
  <1> QED
    BY <1>2 DEF LedgerHolder

\* Nor does one that answers nobody, or turns a delivery away that was not
\* answered.
LEMMA HeardStays ==
    ASSUME IInv, NEW d \in Delivery,
           \/ UNCHANGED reply
           \/ reply[d] = None /\ \E y \in Refusal : reply' = [reply EXCEPT ![d] = y]
    PROVE  UNCHANGED LedgerHeard
  <1>1. reply \in [Delivery -> Delivery \cup Refusal \cup {None}]
    BY DEF IInv, TypeOK
  <1>2. None \notin Delivery /\ \A y \in Refusal : y \notin Delivery
    BY NoneAssumption, RefusalAssumption
  <1> QED
    BY <1>1, <1>2 DEF LedgerHeard

LEMMA AskedStays ==
    ASSUME UNCHANGED req
    PROVE  UNCHANGED LedgerAsked
  BY DEF LedgerAsked, Bytes

\* The delivery that comes asks what it came with.
LEMMA ArriveAsks ==
    ASSUME IInv, NothingIsSaidEarly, IInv', NEW d \in Delivery, Arrive(d)
    PROVE  Ledger!Next
  <1>1. PICK r \in Request : req' = [req EXCEPT ![d] = r]
    BY DEF Arrive
  <1>2. req \in [Delivery -> Request \cup {None}] /\ pc \in [Delivery -> Active \cup {"idle", "done", "lost"}]
    BY DEF IInv, TypeOK
  <1>3. req[d] = None /\ r # None /\ r.body \in Body
    BY <1>1, RequestAssumption DEF Arrive, NothingIsSaidEarly
  <1>4. LedgerAsked[d] = None /\ LedgerAsked' = [LedgerAsked EXCEPT ![d] = r.body]
    BY <1>1, <1>2, <1>3 DEF LedgerAsked, Bytes
  <1>5. \A e \in Delivery : HoldsClaim(e)' <=> HoldsClaim(e)
    BY <1>2 DEF Arrive, GoTo, MoveTo, HoldsClaim, Claiming
  <1>6. \A e \in Delivery : HoldsClaim(e) => req'[e] = req[e]
    BY <1>1, <1>2 DEF Arrive, HoldsClaim, Claiming
  <1>7. UNCHANGED LedgerHolder
    BY <1>5, <1>6, HoldersStay DEF Arrive, register
  <1>8. UNCHANGED LedgerHeard
    BY HeardStays DEF Arrive, GoTo
  <1>9. Ledger!Ask(d, r.body)
    BY <1>4, <1>7, <1>8 DEF Ledger!Ask
  <1> QED
    BY <1>3, <1>9 DEF Ledger!Next

\* An answer that is remembered is repeated to whoever asks with its bytes.
LEMMA ReplayRepeats ==
    ASSUME IInv, NothingIsSaidEarly, IInv', NEW d \in Delivery, pc[d] \in {"lookup", "reserve"},
           Replayable(Key(d), Bytes(d)), Decide(d, outcomes[Key(d)].by), UNCHANGED <<register, req>>
    PROVE  Ledger!Next
  <1>1. /\ reply \in [Delivery -> Delivery \cup Refusal \cup {None}]
        /\ pc \in [Delivery -> Active \cup {"idle", "done", "lost"}]
        /\ outcomes \in [Attempt -> Outcome \cup {None}]
    BY DEF IInv, TypeOK, RegisterType
  <1>2. req[d] \in Request /\ Key(d) \in Attempt /\ Bytes(d) \in Body
    BY RequestTyped
  <1>3. Known(Key(d)) /\ outcomes[Key(d)].body = Bytes(d) /\ outcomes[Key(d)].by \in Delivery
    BY <1>1, <1>2 DEF Replayable, Known, Outcome
  <1>4. LedgerHolder[Key(d)] = [state |-> "answered", body |-> Bytes(d), by |-> outcomes[Key(d)].by]
    BY <1>2, <1>3, HolderShown DEF HoldersAreShown
  <1>5. LedgerAsked[d] = Bytes(d)
    BY <1>2, RequestAssumption DEF LedgerAsked
  <1>6. reply[d] = None /\ reply' = [reply EXCEPT ![d] = outcomes[Key(d)].by]
    BY DEF NothingIsSaidEarly, Decide, Answer
  <1>7. LedgerHeard[d] = None /\ LedgerHeard' = [LedgerHeard EXCEPT ![d] = outcomes[Key(d)].by]
    BY <1>1, <1>3, <1>6, NoneAssumption DEF LedgerHeard
  <1>8. \A e \in Delivery : HoldsClaim(e)' <=> HoldsClaim(e)
    BY <1>1 DEF Decide, Answer, MoveTo, HoldsClaim, Claiming
  <1>9. UNCHANGED <<LedgerHolder, LedgerAsked>>
    BY <1>8, HoldersStay, AskedStays DEF register
  <1>10. LedgerHolder[Key(d)] # None
    BY <1>2, <1>3, <1>4, HolderAssumption DEF Ledger!Holder
  <1>11. Ledger!Repeat(d, Key(d))
    BY <1>4, <1>5, <1>7, <1>9, <1>10 DEF Ledger!Repeat, Ledger!Answered
  <1> QED
    BY <1>2, <1>11 DEF Ledger!Next

\* A delivery that is admitted begins.
LEMMA AdmitBegins ==
    ASSUME IInv, NothingIsSaidEarly, IInv', NEW d \in Delivery, Reserve(d), Admit(d)
    PROVE  Ledger!Next
  <1>1. /\ reply \in [Delivery -> Delivery \cup Refusal \cup {None}]
        /\ pc \in [Delivery -> Active \cup {"idle", "done", "lost"}]
    BY DEF IInv, TypeOK
  <1>2. pc[d] = "reserve" /\ req[d] \in Request /\ Key(d) \in Attempt /\ Bytes(d) \in Body
    BY RequestTyped DEF Reserve
  <1>3. AttemptOf[Bytes(d)] = Key(d)
    BY <1>2 DEF IInv, HandlersFollowTheOrder, Checked, Objection, Key, Bytes
  <1>4. UNCHANGED <<outcomes, req, reply>> /\ pc' = [pc EXCEPT ![d] = "claimed"]
    BY DEF Reserve, Admit, Claim, GoTo, MoveTo
  <1>5. ~Known(Key(d)) /\ ~Claimed(Key(d))
    BY DEF Admit, Claimable
  <1>6. \A e \in Delivery : HoldsClaim(e)' <=> HoldsClaim(e) \/ e = d
    BY <1>1, <1>2, <1>4 DEF HoldsClaim, Claiming
  <1>7. \A e \in Delivery : Key(e)' = Key(e) /\ Bytes(e)' = Bytes(e)
    BY <1>4 DEF Key, Bytes
  <1>8. HoldersAreShown /\ HoldersAreShown'
    BY HolderShown, HolderShownNext
  <1>9. \A e \in Delivery : HoldsClaim(e) => Key(e) # Key(d)
    <2> SUFFICES ASSUME NEW e \in Delivery, HoldsClaim(e), Key(e) = Key(d) PROVE FALSE
      OBVIOUS
    <2>1. pc[e] # "idle"
      BY DEF HoldsClaim, Claiming
    <2>2. pending[Key(e)] = Bytes(e) /\ Bytes(e) \in Body
      BY <2>1, RequestTyped DEF IInv, OneExecutionPerAttempt
    <2> QED
      BY <2>2, <1>5, NoneAssumption DEF Claimed
  <1>10. LedgerHolder[Key(d)] = None
    BY <1>2, <1>5, <1>8, <1>9 DEF HoldersAreShown
  <1>11. LedgerHolder'[Key(d)] = [state |-> "executing", body |-> Bytes(d), by |-> d]
    <2>1. HoldsClaim(d)' /\ Key(d)' = Key(d) /\ Bytes(d)' = Bytes(d)
      BY <1>6, <1>7
    <2>2. ASSUME NEW a \in Attempt, Key(d)' = a
          PROVE  LedgerHolder'[a] = [state |-> "executing", body |-> Bytes(d)', by |-> d]
      BY <1>8, <2>1, <2>2 DEF HoldersAreShown
    <2> QED
      BY <1>2, <2>1, <2>2
  <1>12. ASSUME NEW a \in Attempt, a # Key(d) PROVE LedgerHolder'[a] = LedgerHolder[a]
    <2>1. Known(a)' <=> Known(a)
      BY <1>4 DEF Known
    <2>2. CASE Known(a)
      BY <1>4, <1>8, <2>1, <2>2 DEF HoldersAreShown
    <2>3. ASSUME NEW e \in Delivery, HoldsClaim(e), Key(e) = a
          PROVE  LedgerHolder'[a] = LedgerHolder[a]
      <3>1. HoldsClaim(e)' /\ Key(e)' = a /\ Bytes(e)' = Bytes(e)
        BY <1>6, <1>7, <2>3
      <3>2. LedgerHolder[a] = [state |-> "executing", body |-> Bytes(e), by |-> e]
        BY <1>8, <2>3 DEF HoldersAreShown
      <3>3. LedgerHolder'[a] = [state |-> "executing", body |-> Bytes(e)', by |-> e]
        BY <1>8, <3>1 DEF HoldersAreShown
      <3> QED
        BY <3>1, <3>2, <3>3
    <2>4. CASE ~Known(a) /\ \A e \in Delivery : ~(HoldsClaim(e) /\ Key(e) = a)
      <3>1. \A e \in Delivery : ~(HoldsClaim(e)' /\ Key(e)' = a)
        BY <1>6, <1>7, <1>12, <2>4
      <3> QED
        BY <1>8, <2>1, <2>4, <3>1 DEF HoldersAreShown
    <2> QED
      BY <2>2, <2>3, <2>4
  <1>13. LedgerHolder' = [LedgerHolder EXCEPT ![Key(d)] =
                             [state |-> "executing", body |-> Bytes(d), by |-> d]]
    BY <1>11, <1>12 DEF LedgerHolder
  <1>14. UNCHANGED <<LedgerAsked, LedgerHeard>>
    BY <1>4, AskedStays, HeardStays
  <1>15. LedgerAsked[d] = Bytes(d)
    BY <1>2, RequestAssumption DEF LedgerAsked
  <1>16. LedgerHeard[d] = None
    BY <1>2, NoneAssumption DEF NothingIsSaidEarly, LedgerHeard
  <1>17. Ledger!Begin(d, Bytes(d))
    BY <1>3, <1>10, <1>13, <1>14, <1>15, <1>16 DEF Ledger!Begin
  <1> QED
    BY <1>2, <1>17 DEF Ledger!Next

\* As many attempts are remembered as the register lists.
LEMMA RememberedAreListed ==
    ASSUME IInv
    PROVE  Cardinality({x \in Attempt : Known(x)}) = Len(order) /\ Len(order) \in Nat
  <1> DEFINE kept == {x \in Attempt : Known(x)}
  <1>1. order \in Seq(Attempt) /\ Len(order) \in Nat /\ DOMAIN order = 1..Len(order)
        /\ order = [i \in 1..Len(order) |-> order[i]]
    BY DEF IInv, TypeOK, RegisterType
  <1>2. /\ \A i, j \in 1..Len(order) : order[i] = order[j] => i = j
        /\ \A a \in Attempt : Known(a) <=> \E i \in 1..Len(order) : order[i] = a
    BY DEF IInv, RegisterCoherent
  <1>3. \A i \in 1..Len(order) : order[i] \in kept
    BY <1>1, <1>2
  <1>4. \A x \in kept : \E i \in 1..Len(order) : order[i] = x
    BY <1>2
  <1> HIDE DEF kept
  <1>5. order \in [1..Len(order) -> kept]
    BY <1>1, <1>3
  <1>6. order \in Bijection(1..Len(order), kept)
    BY <1>1, <1>2, <1>4, <1>5 DEF Bijection, Injection, Surjection, IsInjective
  <1>7. ExistsBijection(1..Len(order), kept)
    BY <1>6 DEF ExistsBijection
  <1> QED
    BY <1>1, <1>7, FS_CountingElements DEF kept

\* A step that ends d's claim leaves the other executions what they were.
LEMMA OthersGoOn ==
    ASSUME IInv, NEW d \in Delivery, HoldsClaim(d), NEW x, x \notin Claiming, MoveTo(d, x),
           UNCHANGED req
    PROVE  /\ Key(d) \in Attempt /\ Bytes(d) \in Body
           /\ \A e \in Delivery : HoldsClaim(e)' <=> HoldsClaim(e) /\ Key(e) # Key(d)
           /\ \A e \in Delivery : Key(e)' = Key(e) /\ Bytes(e)' = Bytes(e)
  <1>1. pc \in [Delivery -> Active \cup {"idle", "done", "lost"}] /\ pc[d] # "idle"
    BY DEF IInv, TypeOK, HoldsClaim, Claiming
  <1>2. \A e \in Delivery : HoldsClaim(e) /\ Key(e) = Key(d) => e = d
    BY DEF IInv, OneExecutionPerAttempt
  <1>3. \A e \in Delivery : HoldsClaim(e)' <=> HoldsClaim(e) /\ e # d
    BY <1>1 DEF MoveTo, HoldsClaim
  <1> QED
    BY <1>1, <1>2, <1>3, RequestTyped DEF Key, Bytes

\* What becomes of an attempt that is not d's when d's claim ends.
LEMMA OthersAreShown ==
    ASSUME IInv, IInv', NEW d \in Delivery, NEW a \in Attempt, a # Key(d),
           \A e \in Delivery : HoldsClaim(e)' <=> HoldsClaim(e) /\ Key(e) # Key(d),
           \A e \in Delivery : Key(e)' = Key(e) /\ Bytes(e)' = Bytes(e)
    PROVE  /\ outcomes'[a] = outcomes[a] => LedgerHolder'[a] = LedgerHolder[a]
           /\ outcomes[a] # None /\ outcomes'[a] = None => LedgerHolder'[a] = None
  <1>1. HoldersAreShown /\ HoldersAreShown'
    BY HolderShown, HolderShownNext
  <1>2. ASSUME outcomes'[a] = outcomes[a] PROVE LedgerHolder'[a] = LedgerHolder[a]
    <2>1. Known(a)' <=> Known(a)
      BY <1>2 DEF Known
    <2>2. CASE Known(a)
      BY <1>1, <1>2, <2>1, <2>2 DEF HoldersAreShown
    <2>3. ASSUME NEW e \in Delivery, HoldsClaim(e), Key(e) = a
          PROVE  LedgerHolder'[a] = LedgerHolder[a]
      <3>1. HoldsClaim(e)' /\ Key(e)' = a /\ Bytes(e)' = Bytes(e)
        BY <2>3
      <3>2. LedgerHolder[a] = [state |-> "executing", body |-> Bytes(e), by |-> e]
        BY <1>1, <2>3 DEF HoldersAreShown
      <3>3. LedgerHolder'[a] = [state |-> "executing", body |-> Bytes(e)', by |-> e]
        BY <1>1, <3>1 DEF HoldersAreShown
      <3> QED
        BY <3>1, <3>2, <3>3
    <2>4. CASE ~Known(a) /\ \A e \in Delivery : ~(HoldsClaim(e) /\ Key(e) = a)
      <3>1. \A e \in Delivery : ~(HoldsClaim(e)' /\ Key(e)' = a)
        BY <2>4
      <3> QED
        BY <1>1, <2>1, <2>4, <3>1 DEF HoldersAreShown
    <2> QED
      BY <2>2, <2>3, <2>4
  <1>3. ASSUME outcomes[a] # None, outcomes'[a] = None PROVE LedgerHolder'[a] = None
    <2>1. Known(a) /\ ~Known(a)'
      BY <1>3 DEF Known
    <2>2. \A e \in Delivery : ~(HoldsClaim(e) /\ Key(e) = a)
      BY <1>1, <2>1 DEF HoldersAreShown
    <2>3. \A e \in Delivery : ~(HoldsClaim(e)' /\ Key(e)' = a)
      BY <2>2
    <2> QED
      BY <1>1, <2>1, <2>3 DEF HoldersAreShown
  <1> QED
    BY <1>2, <1>3

\* A failed execution gives its attempt up.
LEMMA ReleaseGivesUp ==
    ASSUME IInv, IInv', NEW d \in Delivery, ReleaseClaim(d)
    PROVE  Ledger!Next
  <1>1. HoldsClaim(d) /\ MoveTo(d, "released") /\ "released" \notin Claiming
        /\ UNCHANGED <<req, reply, outcomes>>
    BY DEF ReleaseClaim, HoldsClaim, Claiming, GoTo, Release
  <1>2. /\ Key(d) \in Attempt /\ Bytes(d) \in Body
        /\ \A e \in Delivery : HoldsClaim(e)' <=> HoldsClaim(e) /\ Key(e) # Key(d)
        /\ \A e \in Delivery : Key(e)' = Key(e) /\ Bytes(e)' = Bytes(e)
    BY <1>1, OthersGoOn
  <1>3. HoldersAreShown /\ HoldersAreShown'
    BY HolderShown, HolderShownNext
  <1>4. LedgerHolder[Key(d)] = [state |-> "executing", body |-> Bytes(d), by |-> d] /\ ~Known(Key(d))
    BY <1>1, <1>2, <1>3 DEF HoldersAreShown
  <1>5. LedgerHolder'[Key(d)] = None
    <2>1. ~Known(Key(d))'
      <3>1. outcomes'[Key(d)] = None
        BY <1>1, <1>4 DEF Known
      <3>2. Key(d)' = Key(d)
        BY <1>2
      <3> QED
        BY <3>1, <3>2 DEF Known
    <2>2. \A e \in Delivery : ~(HoldsClaim(e)' /\ Key(e)' = Key(d))
      BY <1>2
    <2>3. outcomes'[Key(d)] = None
      BY <1>1, <1>4 DEF Known
    <2> QED
      BY <1>2, <1>3, <2>2, <2>3 DEF HoldersAreShown, Known
  <1>6. \A a \in Attempt : a # Key(d) => LedgerHolder'[a] = LedgerHolder[a]
    BY <1>1, <1>2, OthersAreShown
  <1>7. LedgerHolder' = [LedgerHolder EXCEPT ![Key(d)] = None]
    BY <1>5, <1>6 DEF LedgerHolder
  <1>8. UNCHANGED <<LedgerAsked, LedgerHeard>>
    BY <1>1, AskedStays, HeardStays
  <1>9. LedgerHolder[Key(d)] # None
    BY <1>2, <1>4, HolderAssumption DEF Ledger!Holder
  <1>10. Ledger!GiveUp(Key(d))
    BY <1>4, <1>7, <1>8, <1>9 DEF Ledger!GiveUp, Ledger!Executing
  <1> QED
    BY <1>2, <1>10 DEF Ledger!Next, Ledger!Settle

\* The ledger counts as the register does.
LEMMA LedgerCounts ==
    ASSUME NEW S
    PROVE  Ledger!Cardinality(S) = Cardinality(S)
  BY DEF Ledger!Cardinality, Cardinality

\* An execution that answers is remembered, for the one that a full register
\* forgets.
LEMMA RecordAnswers ==
    ASSUME IInv, NothingIsSaidEarly, IInv', NEW d \in Delivery, RecordAnswer(d)
    PROVE  Ledger!Next
  <1> DEFINE a == Key(d)
             kept == {x \in Attempt : Known(x)}
             forgotten == Evicted(a)
  <1>1. /\ reply \in [Delivery -> Delivery \cup Refusal \cup {None}]
        /\ outcomes \in [Attempt -> Outcome \cup {None}] /\ order \in Seq(Attempt)
        /\ Limit \in Nat \ {0}
    BY LimitAssumption DEF IInv, TypeOK, RegisterType
  <1>2. HoldsClaim(d) /\ MoveTo(d, "replying") /\ "replying" \notin Claiming /\ UNCHANGED req
        /\ reply' = [reply EXCEPT ![d] = d] /\ reply[d] = None
    BY DEF RecordAnswer, HoldsClaim, Claiming, Decide, Answer, NothingIsSaidEarly
  <1>3. /\ Key(d) \in Attempt /\ Bytes(d) \in Body
        /\ \A e \in Delivery : HoldsClaim(e)' <=> HoldsClaim(e) /\ Key(e) # Key(d)
        /\ \A e \in Delivery : Key(e)' = Key(e) /\ Bytes(e)' = Bytes(e)
    BY <1>2, OthersGoOn
  <1>4. HoldersAreShown /\ HoldersAreShown'
    BY HolderShown, HolderShownNext
  <1>5. LedgerHolder[a] = [state |-> "executing", body |-> Bytes(d), by |-> d] /\ ~Known(a)
    BY <1>2, <1>3, <1>4 DEF HoldersAreShown
  <1>6. \A x \in Attempt : outcomes'[x] = IF x = a THEN [body |-> Bytes(d), by |-> d]
                                          ELSE IF x \in forgotten THEN None ELSE outcomes[x]
    BY DEF RecordAnswer, Record
  <1>7. Cardinality(kept) = Len(order) /\ Len(order) \in Nat
    BY RememberedAreListed
  <1>8. /\ forgotten \subseteq kept
        /\ Cardinality(forgotten) = IF Cardinality(kept) < Limit THEN 0 ELSE 1
    <2>1. CASE Len(order) < Limit
      <3>1. forgotten = {}
        BY <1>1, <1>7, <2>1 DEF Evicted
      <3> QED
        BY <1>7, <2>1, <3>1, FS_EmptySet
    <2>2. CASE ~(Len(order) < Limit)
      <3>1. forgotten = {Head(order)}
        BY <1>1, <1>5, <1>7, <2>2 DEF Evicted
      <3>2. 1 \in 1..Len(order) /\ Head(order) = order[1] /\ order[1] \in Attempt
        BY <1>1, <1>7, <2>2
      <3>3. Known(order[1])
        BY <3>2 DEF IInv, RegisterCoherent
      <3> QED
        BY <1>7, <2>2, <3>1, <3>2, <3>3, FS_Singleton
    <2> QED
      BY <2>1, <2>2
  <1>9. a \notin forgotten
    BY <1>5, <1>8
  <1> HIDE DEF forgotten
  <1>10. LedgerHolder'[a] = [state |-> "answered", body |-> Bytes(d), by |-> d]
    <2>1. outcomes'[a] = [body |-> Bytes(d), by |-> d]
      BY <1>3, <1>6
    <2>2. outcomes'[a] # None
      BY <1>3, <2>1, NoneAssumption DEF Outcome
    <2>3. outcomes'[a].body = Bytes(d) /\ outcomes'[a].by = d
      BY <2>1
    <2>4. ASSUME NEW x \in Attempt, outcomes'[x] # None
          PROVE  LedgerHolder'[x] =
                    [state |-> "answered", body |-> outcomes'[x].body, by |-> outcomes'[x].by]
      BY <1>4, <2>4 DEF HoldersAreShown, Known
    <2> QED
      BY <1>3, <2>2, <2>3, <2>4
  <1>11. ASSUME NEW x \in Attempt, x # a
         PROVE  LedgerHolder'[x] = IF x \in forgotten THEN None ELSE LedgerHolder[x]
    <2>1. outcomes'[x] = IF x \in forgotten THEN None ELSE outcomes[x]
      BY <1>6, <1>11
    <2>2. x \in forgotten => outcomes[x] # None
      BY <1>8 DEF Known
    <2> QED
      BY <1>3, <1>11, <2>1, <2>2, OthersAreShown
  <1>12. LedgerHolder' = [x \in Attempt |->
                             IF x = a THEN [LedgerHolder[a] EXCEPT !.state = "answered"]
                             ELSE IF x \in forgotten THEN None ELSE LedgerHolder[x]]
    <2>1. [LedgerHolder[a] EXCEPT !.state = "answered"]
             = [state |-> "answered", body |-> Bytes(d), by |-> d]
      BY <1>5
    <2> QED
      BY <1>10, <1>11, <2>1 DEF LedgerHolder
  <1>13. LedgerHeard' = [LedgerHeard EXCEPT ![d] = d]
    BY <1>1, <1>2 DEF LedgerHeard
  <1>14. UNCHANGED LedgerAsked
    BY <1>2, AskedStays
  <1>15. Ledger!Executing(a) /\ LedgerHolder[a].by = d
    BY <1>3, <1>5, HolderAssumption DEF Ledger!Executing, Ledger!Holder
  <1>16. {x \in Attempt : Ledger!Answered(x)} = kept
    <2> SUFFICES ASSUME NEW x \in Attempt PROVE Ledger!Answered(x) <=> Known(x)
      OBVIOUS
    <2>1. ASSUME Known(x) PROVE Ledger!Answered(x)
      <3>1. outcomes[x].body \in Body /\ outcomes[x].by \in Delivery
        BY <1>1, <2>1 DEF Known, Outcome
      <3>2. LedgerHolder[x] =
               [state |-> "answered", body |-> outcomes[x].body, by |-> outcomes[x].by]
        BY <1>4, <2>1 DEF HoldersAreShown
      <3> QED
        BY <3>1, <3>2, HolderAssumption DEF Ledger!Answered, Ledger!Holder
    <2>2. ASSUME ~Known(x) PROVE ~Ledger!Answered(x)
      <3>1. \/ \E e \in Delivery : LedgerHolder[x] = [state |-> "executing", body |-> Bytes(e), by |-> e]
            \/ LedgerHolder[x] = None
        BY <1>4, <2>2 DEF HoldersAreShown
      <3>2. ASSUME NEW e \in Delivery,
                   LedgerHolder[x] = [state |-> "executing", body |-> Bytes(e), by |-> e]
            PROVE  ~Ledger!Answered(x)
        <4>1. LedgerHolder[x].state = "executing"
          BY <3>2
        <4> QED
          BY <4>1 DEF Ledger!Answered
      <3>3. LedgerHolder[x] = None => ~Ledger!Answered(x)
        BY DEF Ledger!Answered
      <3> QED
        BY <3>1, <3>2, <3>3
    <2> QED
      BY <2>1, <2>2
  <1>17. Ledger!Answer(a)
    <2> HIDE DEF kept
    <2>1. LedgerHeard' = [LedgerHeard EXCEPT ![LedgerHolder[a].by] = LedgerHolder[a].by]
      BY <1>13, <1>15
    <2>2. forgotten \in SUBSET {x \in Attempt : Ledger!Answered(x)}
      BY <1>8, <1>16
    <2>3. Cardinality(forgotten)
             = IF Cardinality({x \in Attempt : Ledger!Answered(x)}) < Limit THEN 0 ELSE 1
      BY <1>8, <1>16
    <2>4. \E lost \in SUBSET {x \in Attempt : Ledger!Answered(x)} :
             /\ Cardinality(lost)
                  = (IF Cardinality({x \in Attempt : Ledger!Answered(x)}) < Limit THEN 0 ELSE 1)
             /\ LedgerHolder' = [x \in Attempt |->
                                    IF x = a THEN [LedgerHolder[a] EXCEPT !.state = "answered"]
                                    ELSE IF x \in lost THEN None ELSE LedgerHolder[x]]
      BY <1>12, <2>2, <2>3
    <2> HIDE DEF a
    <2> QED
      BY <1>14, <1>15, <2>1, <2>4, LedgerCounts DEF Ledger!Answer
  <1> QED
    BY <1>3, <1>17 DEF Ledger!Next, Ledger!Settle

\* A process that ends starts the ledger afresh.
LEMMA EndStartsAfresh ==
    ASSUME IInv, IInv', EndProcess
    PROVE  Ledger!Next
  <1>1. \A e \in Delivery : ~HoldsClaim(e)'
    BY DEF IInv, TypeOK, EndProcess, HoldsClaim, Active, Slotted, Claiming
  <1>2. \A x \in Attempt : outcomes'[x] = None
    BY DEF EndProcess, Forget
  <1>3. \A x \in Attempt : LedgerHolder'[x] = None
    BY <1>1, <1>2, HolderShownNext DEF HoldersAreShown, Known
  <1>4. LedgerHolder' = [x \in Attempt |-> None]
    BY <1>3 DEF LedgerHolder
  <1>5. UNCHANGED <<LedgerAsked, LedgerHeard>>
    BY AskedStays DEF EndProcess, LedgerHeard
  <1>6. Ledger!StartAfresh
    BY <1>4, <1>5 DEF Ledger!StartAfresh
  <1> QED
    BY <1>6 DEF Ledger!Next

\* A delivery that moves on, or is turned away, within its claim or outside one.
LEMMA QuietStep ==
    ASSUME IInv, NothingIsSaidEarly, IInv', NEW d \in Delivery, NEW x, MoveTo(d, x),
           pc[d] \in Claiming <=> x \in Claiming,
           UNCHANGED <<register, req>>,
           \/ UNCHANGED reply
           \/ pc[d] \notin {"replying", "done", "lost"}
              /\ \E y \in Refusal : reply' = [reply EXCEPT ![d] = y]
    PROVE  UNCHANGED Ledger!vars
  <1>1. \A e \in Delivery : HoldsClaim(e)' <=> HoldsClaim(e)
    BY DEF IInv, TypeOK, MoveTo, HoldsClaim
  <1>2. UNCHANGED <<LedgerHolder, LedgerAsked>>
    BY <1>1, HoldersStay, AskedStays DEF register
  <1>3. UNCHANGED LedgerHeard
    BY HeardStays DEF NothingIsSaidEarly
  <1> QED
    BY <1>2, <1>3 DEF Ledger!vars

LEMMA NextIsTheLedgers ==
    ASSUME IInv, NothingIsSaidEarly, IInv', [Next]_vars
    PROVE  [Ledger!Next]_(Ledger!vars)
  <1>9. /\ \A x \in {"idle", "gate", "slot", "check", "lookup", "window", "reserve", "released",
                     "replying", "done"} : x \notin Claiming
        /\ \A x \in {"claimed", "executing", "resolved", "counted", "failed"} : x \in Claiming
    BY DEF Claiming
  <1>8. /\ {"capacityExhausted", "idempotencyReused", "notAdmissible", "admissionClosed",
            "internalRefusal"} \subseteq Refusal
        /\ \A r : Objection(r) \in Refusal \cup {"none"}
    BY DEF Refusal, Objection
  <1>1. ASSUME NEW d \in Delivery, Gate(d) \/ TakeSlot(d) \/ CheckRequest(d)
        PROVE  UNCHANGED Ledger!vars
    BY <1>1, <1>8, <1>9, QuietStep
    DEF Gate, TakeSlot, CheckRequest, GoTo, TurnAway, Decide, Answer
  <1>2. ASSUME NEW d \in Delivery, Lookup(d) \/ CheckWindow(d) \/ Reserve(d)
        PROVE  Ledger!Next \/ UNCHANGED Ledger!vars
    <2>1. CASE CheckWindow(d)
      BY <2>1, <1>8, <1>9, QuietStep DEF CheckWindow, GoTo, Decide, Answer
    <2>2. CASE Lookup(d)
      <3>1. CASE Replayable(Key(d), Bytes(d)) /\ Decide(d, outcomes[Key(d)].by)
        BY <2>2, <3>1, ReplayRepeats DEF Lookup
      <3>2. CASE Decide(d, "idempotencyReused") \/ GoTo(d, "window")
        BY <2>2, <3>2, <1>8, <1>9, QuietStep DEF Lookup, GoTo, Decide, Answer
      <3> QED
        BY <2>2, <3>1, <3>2 DEF Lookup
    <2>3. CASE Reserve(d)
      <3>1. CASE Admit(d)
        BY <2>3, <3>1, AdmitBegins
      <3>2. CASE Replayable(Key(d), Bytes(d)) /\ Decide(d, outcomes[Key(d)].by)
                 /\ UNCHANGED register
        BY <2>3, <3>2, ReplayRepeats DEF Reserve
      <3>3. CASE (Decide(d, "idempotencyReused") \/ Decide(d, "capacityExhausted"))
                 /\ UNCHANGED register
        BY <2>3, <3>3, <1>8, <1>9, QuietStep DEF Reserve, Decide, Answer
      <3> QED
        BY <2>3, <3>1, <3>2, <3>3 DEF Reserve, RefuseOrReplay
    <2> QED
      BY <1>2, <2>1, <2>2, <2>3
  <1>3. ASSUME NEW d \in Delivery, CountAdmitted(d) \/ Resolve(d) \/ CountAnswered(d)
        PROVE  UNCHANGED Ledger!vars
    BY <1>3, <1>9, QuietStep DEF CountAdmitted, Resolve, CountAnswered, GoTo
  <1>4. ASSUME NEW d \in Delivery, CountUnanswered(d) \/ Write(d)
        PROVE  UNCHANGED Ledger!vars
    BY <1>4, <1>8, <1>9, QuietStep DEF CountUnanswered, Write, GoTo, Decide, Answer
  <1>5. ASSUME NEW d \in Delivery, Arrive(d) \/ Step(d)
        PROVE  Ledger!Next \/ UNCHANGED Ledger!vars
    BY <1>1, <1>2, <1>3, <1>4, <1>5, ArriveAsks, RecordAnswers, ReleaseGivesUp DEF Step
  <1>6. ASSUME UNCHANGED <<register, pc, req, reply>>
        PROVE  UNCHANGED Ledger!vars
    <2>1. \A e \in Delivery : HoldsClaim(e)' <=> HoldsClaim(e)
      BY <1>6 DEF HoldsClaim
    <2>2. UNCHANGED <<LedgerHolder, LedgerAsked>>
      BY <1>6, <2>1, HoldersStay, AskedStays DEF register
    <2>3. UNCHANGED LedgerHeard
      BY <1>6 DEF LedgerHeard
    <2> QED
      BY <2>2, <2>3 DEF Ledger!vars
  <1>7. ASSUME StartDrain \/ Drain \/ Crash \/ Start \/ Tick \/ Ended \/ UNCHANGED vars
        PROVE  Ledger!Next \/ UNCHANGED Ledger!vars
    BY <1>6, <1>7, EndStartsAfresh
    DEF StartDrain, Drain, BeginShutdown, HandlersReturned, CloseWindow, ReportDrain, Exit, Crash,
        Start, Tick, Ended, untouched, vars
  <1> QED
    BY <1>5, <1>7 DEF Next

LEMMA InitIsTheLedgers == Init => Ledger!Init
  BY DEF Init, RegisterInit, Ledger!Init, LedgerHolder, LedgerAsked, LedgerHeard, Known, Claimed

\* The unit implements the ledger of attempts: an attempt is held by the one
\* delivery that executes it or answered by the one that did, nobody hears an
\* answer to other bytes, and one is forgotten only for another in a full
\* register or with the process (admission.go:332-347).
THEOREM UnitImplementsTheLedger == Spec => StepsAreTheLedgers
  <1>1. IInv /\ NothingIsSaidEarly /\ [Next]_vars => NothingIsSaidEarly'
    BY NextSaid
  <1>2. Spec => []NothingIsSaidEarly
    BY <1>1, InitSaid, Invariance, PTL DEF Spec
  <1>3. IInv /\ NothingIsSaidEarly /\ IInv' /\ [Next]_vars => [Ledger!Next]_(Ledger!vars)
    BY NextIsTheLedgers
  <1> QED
    BY <1>2, <1>3, InitIsTheLedgers, Invariance, PTL DEF Spec, StepsAreTheLedgers
=============================================================================
