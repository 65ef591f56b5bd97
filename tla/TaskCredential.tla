--------------------------- MODULE TaskCredential ---------------------------
(***************************************************************************)
(* The authority a task arrives with: CredentialVerifier.Verify and        *)
(* bindsTask of runtime/credential.go over the trust root of               *)
(* runtime/trust.go.                                                       *)
(*                                                                         *)
(* Time is read off the unit's own clock, which may be up to Drift away    *)
(* from the time the control plane and the operator issue by, and may be   *)
(* set back.  The operator replaces the trust root whenever it likes: a    *)
(* verification reads the clock first and the trust root later, and the    *)
(* root it reads is the one in force by then.                              *)
(*                                                                         *)
(* A credential is what its text proves: whether it has the shape of one,  *)
(* the key it names, the secret that signed it, and its claims.            *)
(***************************************************************************)
EXTENDS Integers, Sequences

CONSTANTS
    Verification,  \* calls of Verify, each followed by bindsTask
    Credential,    \* the credentials that may be presented
    Root,          \* the trust roots the operator may publish
    Task,          \* the tasks a credential may arrive with
    KeyID, Secret, \* key identities, and the secrets a credential is signed with
    MaxSkew,       \* the greatest clock skew a root may declare
    MaxKeys,       \* and the most keys it may list
    Drift,         \* how far the unit's clock may be from the time
    Horizon,       \* bound on the time
    None

Key == [id : KeyID, status : {"active", "overlap", "revoked"}, approved : BOOLEAN,
        secret : Secret, notBefore : Int, notAfter : Int]

ASSUME ClockAssumption ==
    /\ MaxSkew \in Nat /\ MaxKeys \in Nat /\ Drift \in Nat /\ Horizon \in Nat
ASSUME RootAssumption ==
    /\ \A r \in Root : r \in [shaped : BOOLEAN, nextUpdate : Int, skew : Int, keys : Seq(Key)]
    /\ None \notin Root
ASSUME CredentialAssumption ==
    /\ \A c \in Credential :
          c \in [shaped : BOOLEAN, kid : KeyID, secret : Secret, addressed : BOOLEAN,
                 issuedAt : Int, notBefore : Int, expiry : Int,
                 operation : {"execute", "cancel"}, tenant : BOOLEAN,
                 work : {t.work : t \in Task}, numbers : {t.numbers : t \in Task}]
    /\ None \notin Credential
ASSUME TaskAssumption ==
    /\ \A t \in Task : t.audience \in BOOLEAN
    /\ None \notin Task

ASSUME VerdictAssumption == None \notin {"invalid", "foreign", "bound"}

VARIABLES
    time,       \* the time credentials and roots are issued by
    clock,      \* what the unit's clock says
    root,       \* the trust root in force, None when there is none to read
    retired,    \* history: the secrets the operator has ever revoked
    presented,  \* the credential each verification was handed, None before
    task,       \* and the task it came with
    read,       \* what the clock said then
    began,      \* history: what the time was
    under,      \* history: the root the verification read
    verdict,    \* invalid, foreign or bound, None before
    admitted    \* history: what was ever bound, each credential with its task

given == <<presented, task, read, began>>
judged == <<under, verdict, admitted>>
vars == <<time, clock, root, retired, given, judged>>

Near(t) == {c \in t - Drift .. t + Drift : c >= 0}
Revoked(r) == {r.keys[i].secret : i \in {j \in DOMAIN r.keys : r.keys[j].status = "revoked"}}
Listed(r) == {r.keys[i].secret : i \in {j \in DOMAIN r.keys : r.keys[j].status # "revoked"}}

Init ==
    /\ time = 0 /\ clock \in Near(0)
    /\ root = None /\ retired = {}
    /\ presented = [v \in Verification |-> None]
    /\ task = [v \in Verification |-> None]
    /\ read = [v \in Verification |-> 0]
    /\ began = [v \in Verification |-> 0]
    /\ under = [v \in Verification |-> None]
    /\ verdict = [v \in Verification |-> None]
    /\ admitted = {}

-----------------------------------------------------------------------------
(***************************************************************************)
(* The trust root.                                                         *)
(***************************************************************************)

\* parseTrustRoot: a snapshot past its own freshness is refused.
Parses(r, now) ==
    /\ r.shaped
    /\ Len(r.keys) \in 1..MaxKeys
    /\ r.skew \in 0..MaxSkew
    /\ now <= r.nextUpdate + r.skew

\* A slip: the key's status not looked at.
UsableWhenListed(key, now, skew) ==
    /\ key.approved
    /\ now + skew >= key.notBefore
    /\ now <= key.notAfter + skew

\* A key is used for what the operator approved it for, inside its validity.
Usable(key, now, skew) ==
    /\ key.status \in {"active", "overlap"}
    /\ key.approved
    /\ now + skew >= key.notBefore
    /\ now <= key.notAfter + skew

\* resolveTrustKey answers by the first key with that identity, or not at all.
FirstOf(r, kid) ==
    {i \in DOMAIN r.keys : r.keys[i].id = kid /\ \A j \in 1..(i - 1) : r.keys[j].id # kid}

Resolves(r, kid, now, secret) ==
    \E i \in FirstOf(r, kid) :
        Usable(r.keys[i], now, r.skew) /\ r.keys[i].secret = secret

-----------------------------------------------------------------------------
(***************************************************************************)
(* The credential.                                                         *)
(***************************************************************************)

\* Slips: the end of the interval inside it, or the skew forgotten.
CurrentToTheEnd(c, now, skew) ==
    /\ c.issuedAt > 0 /\ c.notBefore > 0 /\ c.expiry > c.notBefore
    /\ now + skew >= c.notBefore
    /\ now - skew <= c.expiry

CurrentWithoutSkew(c, now, skew) ==
    /\ c.issuedAt > 0 /\ c.notBefore > 0 /\ c.expiry > c.notBefore
    /\ now >= c.notBefore
    /\ now < c.expiry

\* The credential's own interval, widened by the skew the root declares; its
\* end is the first moment it is no longer valid.
Current(c, now, skew) ==
    /\ c.issuedAt > 0 /\ c.notBefore > 0 /\ c.expiry > c.notBefore
    /\ now + skew >= c.notBefore
    /\ now - skew < c.expiry

\* Nothing about a credential is believed before its signature verifies.
Verify(c, now, r) ==
    /\ c.shaped
    /\ r # None /\ Parses(r, now)
    /\ Resolves(r, c.kid, now, c.secret)
    /\ c.addressed
    /\ Current(c, now, r.skew)

\* A slip: the numbers not compared.
BindsTheWorkAlone(c, t) ==
    c.operation = "execute" /\ t.audience /\ c.tenant /\ c.work = t.work

\* bindsTask: work stands for the seven names a credential binds, numbers for
\* its attempt number, its generation and its lease epoch.
BindsTask(c, t) ==
    /\ c.operation = "execute"
    /\ t.audience
    /\ c.tenant
    /\ c.work = t.work
    /\ c.numbers = t.numbers

-----------------------------------------------------------------------------
\* A slip: the clock read once, when the process began.
PresentUnclocked(v) ==
    /\ presented[v] # None => verdict[v] # None
    /\ \E c \in Credential, t \in Task :
          /\ presented' = [presented EXCEPT ![v] = c]
          /\ task' = [task EXCEPT ![v] = t]
    /\ began' = [began EXCEPT ![v] = time]
    /\ under' = [under EXCEPT ![v] = None]
    /\ verdict' = [verdict EXCEPT ![v] = None]
    /\ UNCHANGED <<time, clock, root, retired, read, admitted>>

\* A credential is presented, and the clock is read.
Present(v) ==
    /\ presented[v] # None => verdict[v] # None
    /\ \E c \in Credential, t \in Task :
          /\ presented' = [presented EXCEPT ![v] = c]
          /\ task' = [task EXCEPT ![v] = t]
    /\ read' = [read EXCEPT ![v] = clock]
    /\ began' = [began EXCEPT ![v] = time]
    /\ under' = [under EXCEPT ![v] = None]
    /\ verdict' = [verdict EXCEPT ![v] = None]
    /\ UNCHANGED <<time, clock, root, retired, admitted>>

\* The trust root is read, and everything else follows from what was read.
Judge(v) ==
    /\ presented[v] # None /\ verdict[v] = None
    /\ verdict' = [verdict EXCEPT ![v] =
           IF ~Verify(presented[v], read[v], root) THEN "invalid"
           ELSE IF ~BindsTask(presented[v], task[v]) THEN "foreign"
           ELSE "bound"]
    /\ under' = [under EXCEPT ![v] = root]
    /\ admitted' = IF verdict'[v] = "bound"
                   THEN admitted \cup {<<presented[v], task[v]>>} ELSE admitted
    /\ UNCHANGED <<time, clock, root, retired, given>>

\* The operator publishes a root, in which no secret that was revoked before
\* is listed for use again.
Publish ==
    /\ \E r \in Root :
          /\ Listed(r) \cap (retired \cup Revoked(r)) = {}
          /\ root' = r
          /\ retired' = retired \cup Revoked(r)
    /\ UNCHANGED <<time, clock, given, judged>>

\* The file is gone, or cannot be read.
Withdraw ==
    /\ root # None
    /\ root' = None
    /\ UNCHANGED <<time, clock, retired, given, judged>>

\* Time passes, and the clock follows it within its drift, back as well as on.
Pass ==
    /\ time' \in {time, time + 1} /\ time' <= Horizon
    /\ clock' \in Near(time')
    /\ UNCHANGED <<root, retired, given, judged>>

Next ==
    \/ \E v \in Verification : Present(v) \/ Judge(v)
    \/ Publish \/ Withdraw \/ Pass

Spec == Init /\ [][Next]_vars
-----------------------------------------------------------------------------
Accepted(v) == verdict[v] \in {"foreign", "bound"}

TypeOK ==
    /\ time \in 0..Horizon
    /\ clock \in Near(time)
    /\ root \in Root \cup {None}
    /\ retired \subseteq Secret
    /\ presented \in [Verification -> Credential \cup {None}]
    /\ task \in [Verification -> Task \cup {None}]
    /\ read \in [Verification -> Nat]
    /\ began \in [Verification -> 0..Horizon]
    /\ under \in [Verification -> Root \cup {None}]
    /\ verdict \in [Verification -> {"invalid", "foreign", "bound", None}]
    /\ \A v \in Verification : presented[v] # None =>
          task[v] # None /\ read[v] \in Near(began[v])
    /\ admitted \subseteq Credential \X Task

\* What verifies was valid by the time the control plane keeps, give or take
\* the declared skew and the drift of the clock: an expired credential, a key
\* past its end and a root past its freshness are good for that long and not
\* one moment longer (credential.go:179-184, trust.go:79-81).
AuthorityIsCurrent ==
    \A v \in Verification : Accepted(v) =>
        LET c == presented[v]
            slack == under[v].skew + Drift IN
        /\ c.notBefore - slack <= began[v] /\ began[v] < c.expiry + slack
        /\ began[v] <= under[v].nextUpdate + slack
        /\ \E i \in FirstOf(under[v], c.kid) :
              /\ under[v].keys[i].secret = c.secret
              /\ under[v].keys[i].notBefore - slack <= began[v]
              /\ began[v] <= under[v].keys[i].notAfter + slack

\* Properly issued, for now, by a key and under a root that are good for now.
HonestAt(c, t, r) ==
    /\ c.shaped /\ c.addressed /\ c.issuedAt > 0 /\ c.notBefore > 0
    /\ c.notBefore <= t /\ t < c.expiry
    /\ r.shaped /\ Len(r.keys) \in 1..MaxKeys /\ r.skew <= MaxSkew /\ t <= r.nextUpdate
    /\ \E i \in FirstOf(r, c.kid) :
          LET key == r.keys[i] IN
          /\ key.secret = c.secret /\ key.approved /\ key.status # "revoked"
          /\ key.notBefore <= t /\ t <= key.notAfter

\* A clock that is wrong by no more than the skew the root declares never
\* costs a caller its authority (trust.go:57-61).
DriftIsForgiven ==
    \A v \in Verification :
        /\ verdict[v] # None /\ under[v] # None
        /\ Drift <= under[v].skew
        /\ HonestAt(presented[v], began[v], under[v])
        => Accepted(v)

\* From the moment a root that revokes a key is in force, nothing signed with
\* it verifies, whatever was presented before (credential.go:58-61).
RevocationIsFinal ==
    [][\A v \in Verification :
          verdict[v] = None /\ presented[v] # None /\ presented[v].secret \in retired
              => verdict'[v] \in {None, "invalid"}]_vars

\* A credential is authority for one attempt of one task: it cannot be bound
\* to two (credential.go:41-44, 187-193).
AuthorityIsForOneAttempt ==
    \A p, q \in admitted :
        p[1] = q[1] => p[2].work = q[2].work /\ p[2].numbers = q[2].numbers
=============================================================================
