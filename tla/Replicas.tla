------------------------------ MODULE Replicas ------------------------------
(***************************************************************************)
(* The replicas of one unit before one control plane: the /task handler of *)
(* runtime/serve.go around the turn of GovernedTurn.                       *)
(*                                                                         *)
(* A delivery of a task reaches some replica, which admits it, answers it  *)
(* with what it remembers or refuses it, and an admitted one is executed,  *)
(* recorded and answered.  What a replica remembers is its own, and ends   *)
(* with its process.  How the handlers of one replica race for its         *)
(* register is TaskUnit's subject; here a replica does what AttemptLedger, *)
(* which TaskUnit implements, promises, one action for one of its own.     *)
(*                                                                         *)
(* The deliveries of an attempt carry the same bytes.  Each is an          *)
(* execution of GovernedTurn, which stays idle when it is not admitted.    *)
(***************************************************************************)
EXTENDS GovernedTurn

CONSTANT Replica

VARIABLES
    at,      \* the replica each delivery reached, None before it does
    ledger,  \* what each replica knows of each attempt
    reply    \* what each delivery's caller came to hear, None while it waits

turns == vars
replicaVars == <<vars, at, ledger, reply>>

Entry == [state : {"executing", "answered"}, by : Execution]

ASSUME NoneAssumption == None \notin Replica \cup Execution \cup Entry

\* A caller hears the result of an execution, a refusal, or nothing.
Heard(by) == [word |-> "result", by |-> by]
Refused(word) == [word |-> word, by |-> None]
Nothing == Refused("nothing")
Reply == {Heard(e) : e \in Execution}
            \cup {Nothing, Refused("inFlight"), Refused("unanswered")}

ReplicaInit ==
    /\ Init
    /\ at = [e \in Execution |-> None]
    /\ ledger = [r \in Replica |-> [a \in Attempt |-> None]]
    /\ reply = [e \in Execution |-> None]

KnownAs(r, a, state) == ledger[r][a] # None /\ ledger[r][a].state = state
Holds(e) == at[e] # None /\ ledger[at[e]][AttemptOf[e]] = [state |-> "executing", by |-> e]

\* The caller is answered; a caller that left, or that the answer does not
\* reach, hears nothing.
Tell(e, answer) ==
    \E told \in {answer, Nothing} :
        reply' = [reply EXCEPT ![e] = IF reply[e] = None THEN told ELSE @]

-----------------------------------------------------------------------------
\* The attempt is claimed and its execution begins.
Admit(e, r) ==
    /\ ledger[r][AttemptOf[e]] = None
    /\ ledger' = [ledger EXCEPT ![r][AttemptOf[e]] = [state |-> "executing", by |-> e]]
    /\ Open(e)
    /\ UNCHANGED reply

\* The attempt is executed by another delivery, or was.
RefuseOrReplay(e, r) ==
    /\ \/ KnownAs(r, AttemptOf[e], "executing") /\ Tell(e, Refused("inFlight"))
       \/ KnownAs(r, AttemptOf[e], "answered") /\ Tell(e, Heard(ledger[r][AttemptOf[e]].by))
    /\ UNCHANGED <<turns, ledger>>

Deliver(e, r) ==
    /\ at[e] = None
    /\ at' = [at EXCEPT ![e] = r]
    /\ Admit(e, r) \/ RefuseOrReplay(e, r)

Turn(e) ==
    /\ Work(e)
    /\ UNCHANGED <<at, ledger, reply>>

\* The release's timeout ends the execution's context, and its caller waits on.
Timeout(e) ==
    /\ reply[e] = None
    /\ EndContext(e)
    /\ UNCHANGED <<at, ledger, reply>>

\* The request's context is the execution's: the caller that leaves ends it.
Leave(e) ==
    /\ at[e] # None /\ reply[e] = None
    /\ reply' = [reply EXCEPT ![e] = Nothing]
    /\ EndContext(e) \/ (~(Running(e) /\ ~over[e]) /\ UNCHANGED turns)
    /\ UNCHANGED <<at, ledger>>

\* The result is recorded whatever it says and whoever still waits for it, and
\* then written.
Settle(e) ==
    /\ ledger' = [ledger EXCEPT ![at[e]][AttemptOf[e]] = [state |-> "answered", by |-> e]]
    /\ Tell(e, Heard(e))

\* A slip: a result that could not be had leaves the attempt claimed.
GiveUpNothing(e) ==
    /\ UNCHANGED ledger
    /\ Tell(e, Refused("unanswered"))

\* There is no result: the claim is given back.
GiveUp(e) ==
    /\ ledger' = [ledger EXCEPT ![at[e]][AttemptOf[e]] = None]
    /\ Tell(e, Refused("unanswered"))

Finish(e) ==
    /\ Holds(e)
    /\ (pc[e] = "returned" /\ Settle(e)) \/ (pc[e] = "lost" /\ GiveUp(e))
    /\ UNCHANGED <<turns, at>>

\* The answers of other attempts, which the model has none of, push one out.
Evict(r, a) ==
    /\ KnownAs(r, a, "answered")
    /\ ledger' = [ledger EXCEPT ![r][a] = None]
    /\ UNCHANGED <<turns, at, reply>>

\* The process of a replica ends with all it knows and all it serves, and
\* another takes its place.
EndReplica(r) ==
    LET here == {e \in Execution : at[e] = r}
        running == {e \in here : Running(e)} IN
    /\ \E e \in here : reply[e] = None \/ Running(e)
    /\ ledger' = [ledger EXCEPT ![r] = [a \in Attempt |-> None]]
    /\ reply' = [e \in Execution |->
                    IF e \in here /\ reply[e] = None THEN Nothing ELSE reply[e]]
    /\ Crash(running) \/ (running = {} /\ UNCHANGED turns)
    /\ UNCHANGED at

Serve(e) == Turn(e) \/ Finish(e)

ControlPlane == (Buy \/ Keep) /\ UNCHANGED <<at, ledger, reply>>

\* Every delivery was answered, and every execution ended.
AllServed ==
    /\ \A e \in Execution : reply[e] # None /\ ~Running(e) /\ ~Holds(e)
    /\ UNCHANGED replicaVars

ReplicaNext ==
    \/ \E e \in Execution, r \in Replica : Deliver(e, r)
    \/ \E e \in Execution : Serve(e) \/ Timeout(e) \/ Leave(e)
    \/ \E r \in Replica : EndReplica(r) \/ \E a \in Attempt : Evict(r, a)
    \/ ControlPlane
    \/ AllServed

\* A handler is one goroutine: its turn goes on, and what follows it is done.
ReplicaSpec ==
    ReplicaInit /\ [][ReplicaNext]_replicaVars /\ \A e \in Execution : WF_replicaVars(Serve(e))
-----------------------------------------------------------------------------
ReplicaTypeOK ==
    /\ TypeOK
    /\ at \in [Execution -> Replica \cup {None}]
    /\ ledger \in [Replica -> [Attempt -> Entry \cup {None}]]
    /\ reply \in [Execution -> Reply \cup {None}]
    /\ \A e \in Execution : at[e] = None => pc[e] = "idle" /\ reply[e] = None

\* A replica executes an attempt once at a time, and two that execute it
\* together are two replicas (admission.go:359-380, README.md:187-190).
OneExecutionAtAReplica ==
    \A e, f \in Execution :
        Running(e) /\ Running(f) /\ AttemptOf[e] = AttemptOf[f] /\ at[e] = at[f] => e = f

\* What keeps it: the claim of an attempt is held by the execution that runs.
ClaimsAreHeld ==
    /\ \A e \in Execution : Running(e) => Holds(e)
    /\ \A r \in Replica, a \in Attempt :
          ledger[r][a] # None =>
              /\ at[ledger[r][a].by] = r /\ AttemptOf[ledger[r][a].by] = a
              /\ ledger[r][a].state = "answered" => pc[ledger[r][a].by] = "returned"

\* Whichever replica answers a caller, and whether it executed the attempt or
\* remembered it, the callers of an attempt that hear a verdict hear one, and a
\* page they are told of is recorded: only what failed on the way to the control
\* plane, or on a document that had no canonical form, may be heard once so and
\* once otherwise (README.md:187-190).
CallersHearOneVerdict ==
    \A e, f \in Execution :
        LET mine == reply[e]  told == reply[f] IN
        /\ mine # None /\ mine.word = "result" => AttemptOf[mine.by] = AttemptOf[e]
        /\ /\ AttemptOf[e] = AttemptOf[f] /\ mine # None /\ told # None
           /\ mine.word = "result" /\ told.word = "result"
           /\ {result[mine.by].reason, result[told.by].reason} \cap Transient = {}
           => result[mine.by] = result[told.by]
        /\ mine # None /\ mine.word = "result" /\ MyTask(e).turn = "compose"
              /\ result[mine.by].decision = "final"
           => \E r \in records : r.attempt = AttemptOf[e] /\ r.document = result[mine.by].artifact

\* Every caller whose delivery reached a replica is answered, or its replica
\* ends (serve.go:183-223).
EveryCallerIsAnswered ==
    \A e \in Execution : at[e] # None ~> reply[e] # None /\ ~Running(e) /\ ~Holds(e)
=============================================================================
