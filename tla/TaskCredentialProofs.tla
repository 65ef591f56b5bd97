------------------------ MODULE TaskCredentialProofs ------------------------
(***************************************************************************)
(* Theorems about the authority a task arrives with, for any drift, skew,  *)
(* roots, keys and credentials.                                            *)
(***************************************************************************)
EXTENDS TaskCredential, TLAPS

\* What the proofs show to be inductive: a verification that accepted did so
\* on the root it recorded, by the clock it had read.
JudgedAsRead ==
    \A v \in Verification : verdict[v] # None =>
        /\ presented[v] # None
        /\ Accepted(v) <=> Verify(presented[v], read[v], under[v])

\* Whatever was ever bound, was bound to the task it came with.
AdmittedAsBound == \A p \in admitted : BindsTask(p[1], p[2])

\* The root in force lists no secret that was ever revoked.
RetiredIsUnlisted == root # None => Listed(root) \cap retired = {}

IInv == TypeOK /\ JudgedAsRead /\ AdmittedAsBound /\ RetiredIsUnlisted

\* The clock begins near the time, and no verification has begun (NewCredentialVerifier).
LEMMA Start == Init => IInv
  <1> USE ClockAssumption
  <1>1. ASSUME Init PROVE TypeOK
    BY <1>1 DEF Init, TypeOK, Near
  <1>2. ASSUME Init PROVE JudgedAsRead
    BY <1>2 DEF Init, JudgedAsRead
  <1>3. ASSUME Init PROVE AdmittedAsBound
    BY <1>3 DEF Init, AdmittedAsBound
  <1>4. ASSUME Init PROVE RetiredIsUnlisted
    BY <1>4 DEF Init, RetiredIsUnlisted
  <1> QED BY <1>1, <1>2, <1>3, <1>4 DEF IInv

\* Presenting a credential forgets the verdict on the one before it.
LEMMA PresentKeeps ==
    ASSUME IInv, NEW v \in Verification, Present(v) PROVE IInv'
  <1> USE DEF IInv, Present
  <1>1. PICK c \in Credential, t \in Task :
            /\ presented' = [presented EXCEPT ![v] = c]
            /\ task' = [task EXCEPT ![v] = t]
    OBVIOUS
  <1>2. clock \in Nat /\ clock \in Near(time)
    BY ClockAssumption DEF TypeOK, Near
  <1>3. TypeOK'
    <2>1. /\ presented' \in [Verification -> Credential \cup {None}]
          /\ task' \in [Verification -> Task \cup {None}]
          /\ read' \in [Verification -> Nat]
          /\ began' \in [Verification -> 0..Horizon]
          /\ under' \in [Verification -> Root \cup {None}]
          /\ verdict' \in [Verification -> {"invalid", "foreign", "bound", None}]
      BY <1>1, <1>2 DEF TypeOK
    <2>2. \A w \in Verification : presented'[w] # None =>
              task'[w] # None /\ read'[w] \in Near(began'[w])
      BY <1>1, <1>2, TaskAssumption DEF TypeOK
    <2> QED BY <2>1, <2>2 DEF TypeOK, Near
  <1>4. JudgedAsRead'
    BY <1>1 DEF JudgedAsRead, Accepted, TypeOK
  <1>5. AdmittedAsBound' /\ RetiredIsUnlisted'
    BY DEF AdmittedAsBound, BindsTask, RetiredIsUnlisted, Listed
  <1> QED BY <1>3, <1>4, <1>5

\* A verdict is on what was presented, by the clock read then and the root in
\* force now.
LEMMA JudgeKeeps ==
    ASSUME IInv, NEW v \in Verification, Judge(v) PROVE IInv'
  <1> USE DEF IInv, Judge
  <1>0. presented[v] \in Credential /\ task[v] \in Task \cup {None}
    BY DEF TypeOK
  <1>4. RetiredIsUnlisted'
    BY DEF RetiredIsUnlisted, Listed
  <1>1. CASE ~Verify(presented[v], read[v], root)
    <2>1. verdict' = [verdict EXCEPT ![v] = "invalid"] /\ admitted' = admitted
      BY <1>1, VerdictAssumption DEF TypeOK
    <2>2. TypeOK'
      BY <2>1 DEF TypeOK, given, Near
    <2>3. JudgedAsRead'
      BY <1>1, <2>1, VerdictAssumption DEF JudgedAsRead, Accepted, TypeOK, given
    <2> QED BY <1>4, <2>1, <2>2, <2>3 DEF AdmittedAsBound, BindsTask
  <1>2. CASE Verify(presented[v], read[v], root) /\ ~BindsTask(presented[v], task[v])
    <2>1. verdict' = [verdict EXCEPT ![v] = "foreign"] /\ admitted' = admitted
      BY <1>2, VerdictAssumption DEF TypeOK
    <2>2. TypeOK'
      BY <2>1 DEF TypeOK, given, Near
    <2>3. JudgedAsRead'
      BY <1>2, <2>1, VerdictAssumption DEF JudgedAsRead, Accepted, TypeOK, given
    <2> QED BY <1>4, <2>1, <2>2, <2>3 DEF AdmittedAsBound, BindsTask
  <1>3. CASE Verify(presented[v], read[v], root) /\ BindsTask(presented[v], task[v])
    <2>1. /\ verdict' = [verdict EXCEPT ![v] = "bound"]
          /\ admitted' = admitted \cup {<<presented[v], task[v]>>}
      BY <1>3, VerdictAssumption DEF TypeOK
    <2>2. TypeOK'
      BY <2>1, <1>0 DEF TypeOK, given, Near
    <2>3. JudgedAsRead'
      BY <1>3, <2>1, VerdictAssumption DEF JudgedAsRead, Accepted, TypeOK, given
    <2>4. AdmittedAsBound'
      BY <1>3, <2>1 DEF AdmittedAsBound, BindsTask
    <2> QED BY <1>4, <2>2, <2>3, <2>4
  <1> QED BY <1>1, <1>2, <1>3

\* Nothing the operator or the clock does changes what was read.
LEMMA OthersKeep ==
    ASSUME IInv, Publish \/ Withdraw \/ Pass PROVE IInv'
  <1> USE DEF IInv, given, judged
  <1>1. TypeOK'
    <2>1. CASE Publish
      <3>1. PICK r \in Root : root' = r /\ retired' = retired \cup Revoked(r)
        BY <2>1 DEF Publish
      <3>2. r.keys \in Seq(Key)
        BY RootAssumption
      <3>3. \A i \in DOMAIN r.keys : r.keys[i] \in Key
        BY <3>2
      <3>4. Revoked(r) \subseteq Secret
        BY <3>3 DEF Revoked, Key
      <3> QED BY <2>1, <3>1, <3>4 DEF Publish, TypeOK
    <2>2. CASE Withdraw BY <2>2 DEF Withdraw, TypeOK
    <2>3. CASE Pass
      <3>1. time' \in 0..Horizon
        BY <2>3, ClockAssumption DEF Pass, TypeOK
      <3> QED BY <2>3, <3>1 DEF Pass, TypeOK
    <2> QED BY <2>1, <2>2, <2>3
  <1>2. JudgedAsRead'
    BY DEF Publish, Withdraw, Pass, JudgedAsRead, Accepted
  <1>3. AdmittedAsBound'
    BY DEF Publish, Withdraw, Pass, AdmittedAsBound
  <1>4. RetiredIsUnlisted'
    BY DEF Publish, Withdraw, Pass, RetiredIsUnlisted, Listed
  <1> QED BY <1>1, <1>2, <1>3, <1>4

\* Every step keeps the invariant (CredentialVerifier.Verify, bindsTask).
LEMMA Step == IInv /\ [Next]_vars => IInv'
  <1> SUFFICES ASSUME IInv, [Next]_vars PROVE IInv'
    OBVIOUS
  <1>1. ASSUME NEW v \in Verification, Present(v) PROVE IInv'
    BY <1>1, PresentKeeps
  <1>2. ASSUME NEW v \in Verification, Judge(v) PROVE IInv'
    BY <1>2, JudgeKeeps
  <1>3. CASE Publish \/ Withdraw \/ Pass
    BY <1>3, OthersKeep
  <1>4. CASE UNCHANGED vars
    BY <1>4 DEF vars, given, judged, IInv, TypeOK, Near, JudgedAsRead, Accepted, AdmittedAsBound,
              RetiredIsUnlisted, Listed
  <1> QED BY <1>1, <1>2, <1>3, <1>4 DEF Next

\* The types, and that verdicts are on what was read, hold always.
THEOREM Invariance == Spec => []IInv
  <1> QED BY Start, Step, PTL DEF Spec

\* Every variable keeps its type, and the clock a verification read was near
\* the time at which it read it.
THEOREM TypeCorrect == Spec => []TypeOK
  <1>1. IInv => TypeOK BY DEF IInv
  <1> QED BY <1>1, Invariance, PTL

\* What a clock off by at most d says of a bound it compares with.
LEMMA Widened ==
    ASSUME NEW now \in Int, NEW at \in Int, NEW d \in Nat, NEW skew \in Int,
           NEW bound \in Int, now \in at - d .. at + d
    PROVE  /\ now + skew >= bound => bound - (skew + d) <= at
           /\ now - skew < bound => at < bound + (skew + d)
           /\ now <= bound + skew => at <= bound + (skew + d)
           /\ d <= skew /\ bound <= at => now + skew >= bound
           /\ d <= skew /\ at < bound => now - skew < bound
           /\ d <= skew /\ at <= bound => now <= bound + skew
  OBVIOUS

\* Whatever was accepted was valid when its clock was read, within the skew the
\* root declares and the drift of the clock (credential.go:174-184,
\* trust.go:79-81, 111-113).
THEOREM AuthorityExpires == Spec => []AuthorityIsCurrent
  <1>1. IInv => AuthorityIsCurrent
    <2> SUFFICES ASSUME IInv, NEW v \in Verification, Accepted(v)
                 PROVE  LET c == presented[v]
                            slack == under[v].skew + Drift IN
                        /\ c.notBefore - slack <= began[v] /\ began[v] < c.expiry + slack
                        /\ began[v] <= under[v].nextUpdate + slack
                        /\ \E i \in FirstOf(under[v], c.kid) :
                              /\ under[v].keys[i].secret = c.secret
                              /\ under[v].keys[i].notBefore - slack <= began[v]
                              /\ began[v] <= under[v].keys[i].notAfter + slack
      BY DEF AuthorityIsCurrent
    <2>1. /\ presented[v] # None
          /\ Verify(presented[v], read[v], under[v])
      BY VerdictAssumption DEF IInv, JudgedAsRead, Accepted, TypeOK
    <2>2. /\ presented[v] \in Credential /\ under[v] \in Root
          /\ read[v] \in Nat /\ began[v] \in Nat
          /\ read[v] \in began[v] - Drift .. began[v] + Drift
      BY <2>1 DEF IInv, TypeOK, Near, Verify
    <2> DEFINE c == presented[v]  r == under[v]
    <2>3. /\ c.notBefore \in Int /\ c.expiry \in Int
          /\ r.skew \in Int /\ r.nextUpdate \in Int /\ r.keys \in Seq(Key)
      BY <2>2, CredentialAssumption, RootAssumption
    <2>4. Drift \in Nat BY ClockAssumption
    <2>5. /\ c.notBefore - (r.skew + Drift) <= began[v]
          /\ began[v] < c.expiry + (r.skew + Drift)
      <3>1. read[v] + r.skew >= c.notBefore /\ read[v] - r.skew < c.expiry
        BY <2>1 DEF Verify, Current
      <3>2. c.notBefore - (r.skew + Drift) <= began[v]
        BY <2>2, <2>3, <2>4, <3>1, Widened
      <3>3. began[v] < c.expiry + (r.skew + Drift)
        BY <2>2, <2>3, <2>4, <3>1, Widened
      <3> QED BY <3>2, <3>3
    <2>6. began[v] <= r.nextUpdate + (r.skew + Drift)
      <3>1. read[v] <= r.nextUpdate + r.skew
        BY <2>1 DEF Verify, Parses
      <3> QED BY <2>2, <2>3, <2>4, <3>1, Widened
    <2>7. PICK i \in FirstOf(r, c.kid) :
              Usable(r.keys[i], read[v], r.skew) /\ r.keys[i].secret = c.secret
      BY <2>1 DEF Verify, Resolves
    <2>8. r.keys[i] \in Key
      BY <2>3, <2>7 DEF FirstOf
    <2>9. /\ r.keys[i].notBefore - (r.skew + Drift) <= began[v]
          /\ began[v] <= r.keys[i].notAfter + (r.skew + Drift)
      <3>1. r.keys[i].notBefore \in Int /\ r.keys[i].notAfter \in Int
        BY <2>8 DEF Key
      <3>2. /\ read[v] + r.skew >= r.keys[i].notBefore
            /\ read[v] <= r.keys[i].notAfter + r.skew
        BY <2>7 DEF Usable
      <3>3. read[v] - Drift <= began[v] /\ began[v] <= read[v] + Drift
        BY <2>2, <2>4
      <3>4. read[v] \in Int /\ began[v] \in Int /\ r.skew \in Int /\ Drift \in Int
        BY <2>2, <2>3, <2>4
      <3> HIDE DEF r, c
      <3>5. \A first \in Int :
                read[v] + r.skew >= first => first - (r.skew + Drift) <= began[v]
        BY <3>3, <3>4
      <3>6. \A last \in Int :
                read[v] <= last + r.skew => began[v] <= last + (r.skew + Drift)
        BY <3>3, <3>4
      <3> QED BY <3>1, <3>2, <3>5, <3>6
    <2> QED BY <2>5, <2>6, <2>7, <2>9
  <1> QED BY <1>1, Invariance, PTL

\* A clock off by no more than the declared skew costs nobody the authority it
\* properly holds (trust.go:57-61, credential.go:174-184).
THEOREM DriftForgiven == Spec => []DriftIsForgiven
  <1>1. IInv => DriftIsForgiven
    <2> SUFFICES ASSUME IInv, NEW v \in Verification,
                        verdict[v] # None, under[v] # None, Drift <= under[v].skew,
                        HonestAt(presented[v], began[v], under[v])
                 PROVE  Accepted(v)
      BY DEF DriftIsForgiven
    <2>1. presented[v] # None /\ (Accepted(v) <=> Verify(presented[v], read[v], under[v]))
      BY DEF IInv, JudgedAsRead
    <2>2. /\ presented[v] \in Credential /\ under[v] \in Root
          /\ read[v] \in Nat /\ began[v] \in Nat
          /\ read[v] \in began[v] - Drift .. began[v] + Drift
      BY <2>1 DEF IInv, TypeOK, Near
    <2> DEFINE c == presented[v]  r == under[v]
    <2>3. /\ c.notBefore \in Int /\ c.expiry \in Int
          /\ r.skew \in Int /\ r.nextUpdate \in Int /\ r.keys \in Seq(Key)
      BY <2>2, CredentialAssumption, RootAssumption
    <2>4. Drift \in Nat /\ MaxSkew \in Nat BY ClockAssumption
    <2>5. Current(c, read[v], r.skew)
      <3>1. /\ c.issuedAt > 0 /\ c.notBefore > 0 /\ c.notBefore <= began[v]
            /\ began[v] < c.expiry
        BY DEF HonestAt
      <3>2. read[v] + r.skew >= c.notBefore /\ read[v] - r.skew < c.expiry
        BY <2>2, <2>3, <2>4, <3>1, Widened
      <3>3. c.expiry > c.notBefore
        BY <2>2, <2>3, <3>1
      <3> QED BY <3>1, <3>2, <3>3 DEF Current
    <2>6. Parses(r, read[v])
      <3>1. r.shaped /\ Len(r.keys) \in 1..MaxKeys /\ r.skew <= MaxSkew
        BY DEF HonestAt
      <3>2. r.skew \in 0..MaxSkew
        BY <2>3, <2>4, <3>1
      <3>3. began[v] <= r.nextUpdate
        BY DEF HonestAt
      <3>4. read[v] <= r.nextUpdate + r.skew
        BY <2>2, <2>3, <2>4, <3>3, Widened
      <3> QED BY <3>1, <3>2, <3>4 DEF Parses
    <2>7. PICK i \in FirstOf(r, c.kid) :
              /\ r.keys[i].secret = c.secret /\ r.keys[i].approved
              /\ r.keys[i].status # "revoked"
              /\ r.keys[i].notBefore <= began[v] /\ began[v] <= r.keys[i].notAfter
      BY DEF HonestAt
    <2>8. r.keys[i] \in Key
      BY <2>3, <2>7 DEF FirstOf
    <2>9. Usable(r.keys[i], read[v], r.skew)
      <3>1. r.keys[i].notBefore \in Int /\ r.keys[i].notAfter \in Int
            /\ r.keys[i].status \in {"active", "overlap"}
        BY <2>7, <2>8 DEF Key
      <3>2. \A first, last \in Int :
                first <= began[v] /\ began[v] <= last
                    => read[v] + r.skew >= first /\ read[v] <= last + r.skew
        BY <2>2, <2>3, <2>4, Widened
      <3>3. read[v] + r.skew >= r.keys[i].notBefore /\ read[v] <= r.keys[i].notAfter + r.skew
        BY <2>7, <3>1, <3>2
      <3> QED BY <2>7, <3>1, <3>3 DEF Usable
    <2> QED BY <2>1, <2>5, <2>6, <2>7, <2>9 DEF Verify, Resolves, HonestAt
  <1> QED BY <1>1, Invariance, PTL

\* What a revoked key signed never verifies again, whenever it was presented
\* (credential.go:58-61, 141-145, trust.go:97-99).
THEOREM RevokedForGood == Spec => RevocationIsFinal
  <1> DEFINE Final == \A v \in Verification :
          verdict[v] = None /\ presented[v] # None /\ presented[v].secret \in retired
              => verdict'[v] \in {None, "invalid"}
  <1>1. IInv /\ [Next]_vars => [Final]_vars
    <2> SUFFICES ASSUME IInv, Next, NEW v \in Verification,
                        verdict[v] = None, presented[v] # None,
                        presented[v].secret \in retired
                 PROVE  verdict'[v] \in {None, "invalid"}
      BY DEF vars, given, judged
    <2>1. ASSUME NEW w \in Verification, Present(w) PROVE verdict'[v] \in {None, "invalid"}
      BY <2>1 DEF Present, IInv, TypeOK
    <2>2. ASSUME NEW w \in Verification, Judge(w) PROVE verdict'[v] \in {None, "invalid"}
      <3>1. CASE w # v
        BY <2>2, <3>1 DEF Judge, IInv, TypeOK
      <3>2. CASE w = v /\ Verify(presented[v], read[v], root)
        <4>1. root \in Root
          BY <3>2 DEF Verify, IInv, TypeOK
        <4>2. PICK i \in FirstOf(root, presented[v].kid) :
                  /\ Usable(root.keys[i], read[v], root.skew)
                  /\ root.keys[i].secret = presented[v].secret
          BY <3>2 DEF Verify, Resolves
        <4>3. presented[v].secret \in Listed(root)
          BY <4>2 DEF FirstOf, Usable, Listed
        <4> QED BY <4>1, <4>3, RootAssumption DEF IInv, RetiredIsUnlisted
      <3>3. CASE w = v /\ ~Verify(presented[v], read[v], root)
        BY <2>2, <3>3 DEF Judge, IInv, TypeOK
      <3> QED BY <3>1, <3>2, <3>3
    <2>3. CASE Publish \/ Withdraw \/ Pass
      BY <2>3 DEF Publish, Withdraw, Pass, judged
    <2> QED BY <2>1, <2>2, <2>3 DEF Next
  <1> QED BY <1>1, Invariance, PTL DEF Spec, RevocationIsFinal

\* No credential was ever authority for two attempts (credential.go:194-234).
THEOREM OneAttempt == Spec => []AuthorityIsForOneAttempt
  <1>1. IInv => AuthorityIsForOneAttempt
    BY DEF IInv, AdmittedAsBound, BindsTask, AuthorityIsForOneAttempt
  <1> QED BY <1>1, Invariance, PTL
=============================================================================
