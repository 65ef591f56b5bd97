-------------------------- MODULE MCTaskCredential --------------------------
(***************************************************************************)
(* Credentials, roots and tasks for TLC.  The time runs from 0 to 5; the   *)
(* credential is valid from 2 to before 3 and its key from 2 to 3.         *)
(***************************************************************************)
EXTENDS TaskCredential

CONSTANTS v1, k1, k2, s1, s2

\* One task, its next attempt, and one that names another audience.
MCTask ==
    {[audience |-> TRUE, work |-> "here", numbers |-> 1],
     [audience |-> TRUE, work |-> "here", numbers |-> 2],
     [audience |-> FALSE, work |-> "here", numbers |-> 1]}

Issued == [shaped |-> TRUE, kid |-> k1, secret |-> s1, addressed |-> TRUE,
           issuedAt |-> 1, notBefore |-> 2, expiry |-> 3,
           operation |-> "execute", tenant |-> TRUE, work |-> "here", numbers |-> 1]

\* The one properly issued, its successor's, and three that are not.
MCCredential ==
    {Issued, [Issued EXCEPT !.kid = k2, !.secret = s2], [Issued EXCEPT !.secret = s2],
     [Issued EXCEPT !.expiry = 2], [Issued EXCEPT !.operation = "cancel"]}

Active(id, secret) ==
    [id |-> id, status |-> "active", approved |-> TRUE, secret |-> secret,
     notBefore |-> 2, notAfter |-> 3]
Old == [Active(k1, s1) EXCEPT !.status = "overlap"]
Dead == [Active(k1, s1) EXCEPT !.status = "revoked"]

Snapshot(skew, nextUpdate, keys) ==
    [shaped |-> TRUE, nextUpdate |-> nextUpdate, skew |-> skew, keys |-> keys]

\* Before, during and after the rotation from s1 to s2, under two skews, and
\* two roots no verification can stand on.
MCRoot ==
    {Snapshot(0, 3, <<Active(k1, s1)>>), Snapshot(1, 3, <<Active(k2, s2), Old>>),
     Snapshot(1, 4, <<Dead, Active(k1, s2)>>), Snapshot(1, 2, <<Active(k2, s2)>>),
     Snapshot(2, 4, <<Active(k1, s1)>>), Snapshot(1, 4, <<>>)}
=============================================================================
