------------------------------ MODULE Session ------------------------------
(***************************************************************************)
(* What one attempt is reported to have spent: the session of              *)
(* runtime/session.go, the decimal accumulator of runtime/decimal.go, and  *)
(* the report host.Resolve makes of them.                                  *)
(*                                                                         *)
(* A session takes any number of governed calls, as its tests drive it,    *)
(* though each turn of the two Agents makes one.  Its operations hold one  *)
(* lock.  What an answer must be to be metered is GovernedTurn's subject;  *)
(* here an answer that is not the attempt's is no answer.  Tokens are      *)
(* counted as calls are.                                                   *)
(*                                                                         *)
(* An amount is a text: a sign, the digits of a whole part, a point and    *)
(* the digits of a fraction.                                               *)
(***************************************************************************)
EXTENDS Integers, Sequences, FiniteSetsExt, SequencesExt

CONSTANTS
    Spelled,          \* the amounts the gateway may spell
    Currency,         \* the currencies it may name
    CallBound,        \* a bound on the calls of a session
    NoteBound,        \* a bound on the notes of its Agent
    DiagnosticBound,  \* how many diagnostics a result carries, 16 in the code
    None

Text == [negative : BOOLEAN, whole : Seq(0..9), point : BOOLEAN, fraction : Seq(0..9)]

ASSUME SessionAssumption ==
    /\ Spelled \subseteq Text /\ \A a \in Spelled : a.fraction # <<>> => a.point
    /\ "USD" \in Currency /\ None \notin Currency
    /\ CallBound \in Nat /\ NoteBound \in Nat /\ DiagnosticBound \in Nat \ {0}

\* None is no total.
ASSUME TotalAssumption == None \notin [value : Int, scale : Nat]

VARIABLES
    asked,     \* how many model calls it made
    metered,   \* the costs the gateway answered with, in order
    writes,    \* the submissions that were recorded
    spent,     \* the accumulator, None before anything was added
    currency,  \* the first currency metered, None before it is
    notes,     \* the session's notes, by their codes
    report     \* the usage and the diagnostics of the result, None before it

vars == <<asked, metered, writes, spent, currency, notes, report>>

Init ==
    /\ asked = 0 /\ metered = <<>> /\ writes = 0
    /\ spent = None /\ currency = None /\ notes = <<>> /\ report = None

-----------------------------------------------------------------------------
(***************************************************************************)
(* Amounts.                                                                *)
(***************************************************************************)

\* The contract's decimal string: ^-?(0|[1-9][0-9]*)(\.[0-9]+)?$, of 96 at most.
Mark(there) == IF there THEN 1 ELSE 0
Canonical(a) ==
    /\ a.whole = <<0>> \/ (a.whole # <<>> /\ a.whole[1] # 0)
    /\ a.point <=> a.fraction # <<>>
AmountDecodes(a) ==
    /\ Canonical(a)
    /\ Mark(a.negative) + Len(a.whole) + Mark(a.point) + Len(a.fraction) <= 96

\* parseDecimal: what the accumulator reads.
Readable(a) ==
    /\ a.whole # <<>>
    /\ a.point => a.fraction # <<>>
    /\ Len(a.whole) > 1 => a.whole[1] # 0

\* The power of ten shiftDecimal multiplies by.
Tens[n \in Nat] == IF n = 0 THEN 1 ELSE 10 * Tens[n - 1]

\* What digits spell.
Number(digits) ==
    LET upTo[i \in 0..Len(digits)] == IF i = 0 THEN 0 ELSE 10 * upTo[i - 1] + digits[i]
    IN  upTo[Len(digits)]

Read(a) ==
    [value |-> (IF a.negative THEN -1 ELSE 1) * Number(a.whole \o a.fraction),
     scale |-> Len(a.fraction)]

\* A slip: only what was accumulated is brought to a common scale.
PlusUnshifted(x, y) ==
    LET common == Max({x.scale, y.scale}) IN
    [value |-> x.value * Tens[common - x.scale] + y.value, scale |-> common]

\* Both are brought to a common scale.
Plus(x, y) ==
    LET common == Max({x.scale, y.scale}) IN
    [value |-> x.value * Tens[common - x.scale] + y.value * Tens[common - y.scale],
     scale |-> common]

Magnitude(x) == IF x.value < 0 THEN -x.value ELSE x.value

\* The digits of a value, with zeros before them until a whole part is left.
Digits(x) ==
    LET width == CHOOSE w \in (x.scale + 1)..(x.scale + 1 + Magnitude(x)) :
                     /\ Magnitude(x) < Tens[w]
                     /\ w > x.scale + 1 => Magnitude(x) >= Tens[w - 1]
    IN  [i \in 1..width |-> (Magnitude(x) \div Tens[width - i]) % 10]

\* decimalAccumulator.string: without the zeros a fraction ends in.
Printed(x) ==
    LET split == Len(Digits(x)) - x.scale
        places == SubSeq(Digits(x), split + 1, Len(Digits(x)))
        kept == Max({0} \cup {i \in DOMAIN places : places[i] # 0})
    IN  [negative |-> x.value < 0, whole |-> SubSeq(Digits(x), 1, split),
         point |-> kept > 0, fraction |-> SubSeq(places, 1, kept)]

Zero == [negative |-> FALSE, whole |-> <<0>>, point |-> FALSE, fraction |-> <<>>]

-----------------------------------------------------------------------------
(***************************************************************************)
(* The session.                                                            *)
(***************************************************************************)

Add(amount) ==
    IF Readable(amount)
    THEN /\ spent' = IF spent = None THEN Read(amount) ELSE Plus(spent, Read(amount))
         /\ UNCHANGED notes
    ELSE /\ notes' = Append(notes, "COST_UNREADABLE")
         /\ UNCHANGED spent

\* A slip: a cost in another currency is left out without a word.
MeterSilently(cost) ==
    /\ metered' = Append(metered, cost)
    /\ currency' = IF currency = None THEN cost.currency ELSE currency
    /\ IF cost.currency = currency' THEN Add(cost.amount) ELSE UNCHANGED <<notes, spent>>

\* meterModel: the first currency metered is the attempt's.
Meter(cost) ==
    /\ metered' = Append(metered, cost)
    /\ currency' = IF currency = None THEN cost.currency ELSE currency
    /\ IF cost.currency = currency'
       THEN Add(cost.amount)
       ELSE notes' = Append(notes, "CURRENCY_CONFLICT") /\ UNCHANGED spent

\* A model call.  An answer is metered whatever its verdict; one that does not
\* decode, or that is not the attempt's, was not given.
Model ==
    /\ report = None /\ asked < CallBound
    /\ asked' = asked + 1
    /\ \/ \E amount \in Spelled, named \in Currency :
             AmountDecodes(amount) /\ Meter([amount |-> amount, currency |-> named])
       \/ UNCHANGED <<metered, spent, currency, notes>>
    /\ UNCHANGED <<writes, report>>

\* A submission the control plane recorded.
SubmitCandidate ==
    /\ report = None /\ writes < CallBound
    /\ writes' = writes + 1
    /\ UNCHANGED <<asked, metered, spent, currency, notes, report>>

Note ==
    /\ report = None
    /\ Len(SelectSeq(notes, LAMBDA code : code = "NOTED")) < NoteBound
    /\ notes' = Append(notes, "NOTED")
    /\ UNCHANGED <<asked, metered, writes, spent, currency, report>>

\* boundDiagnostics keeps the first of them.
Bounded(diagnostics) == SubSeq(diagnostics, 1, Min({Len(diagnostics), DiagnosticBound}))

\* The turn decided, or failed: its failure is the last of its diagnostics.
Report(failed) ==
    /\ report = None
    /\ report' = [modelCalls  |-> Len(metered),
                  toolCalls   |-> writes,
                  amount      |-> IF spent = None THEN Zero ELSE Printed(spent),
                  currency    |-> IF currency = None THEN "USD" ELSE currency,
                  diagnostics |-> Bounded(notes \o IF failed THEN <<"FAILED">> ELSE <<>>)]
    /\ UNCHANGED <<asked, metered, writes, spent, currency, notes>>

\* The attempt was reported.
Reported == report # None /\ UNCHANGED vars

Next ==
    \/ Model \/ SubmitCandidate \/ Note
    \/ \E failed \in BOOLEAN : Report(failed)
    \/ Reported

Spec == Init /\ [][Next]_vars
-----------------------------------------------------------------------------
\* What an amount is worth, counted in units of so many places after the point.
Worth(a, places) ==
    (IF a.negative THEN -1 ELSE 1) *
        (Number(a.whole) * Tens[places] + Number(a.fraction) * Tens[places - Len(a.fraction)])

\* The sum of the costs in one currency, and the most places any of them has.
In(c, costs) == {i \in 1..Len(costs) : costs[i].currency = c}
Finest(costs, c) == Max({0} \cup {Len(costs[i].amount.fraction) : i \in In(c, costs)})
Total(costs, c, places) ==
    LET upTo[i \in 0..Len(costs)] ==
            IF i = 0 THEN 0
            ELSE upTo[i - 1] + IF i \in In(c, costs) THEN Worth(costs[i].amount, places) ELSE 0
    IN  upTo[Len(costs)]

\* The reported cost is exactly the sum of the costs metered in the reported
\* currency, in whatever order, scale and sign they came, spelled as the contract
\* has it but for its length, without a needless zero and never as a negative one
\* (decimal.go:9-16, 42-68; session.go:155-178).
CostIsTheExactSum ==
    report # None =>
        LET amount == report.amount
            places == Finest(metered, report.currency) IN
        /\ Len(amount.fraction) <= places
        /\ Worth(amount, places) = Total(metered, report.currency, places)
        /\ Canonical(amount)
        /\ amount.fraction # <<>> => Last(amount.fraction) # 0
        /\ amount.negative => Worth(amount, places) # 0
        /\ metered # <<>> => report.currency = metered[1].currency

\* A cost that is not in the total is said not to be, unless as many diagnostics
\* as a result carries came before; no other is; and every amount the contract
\* lets through can be read (session.go:129-144, host.go:369-377).
OmissionsAreSaid ==
    report # None =>
        LET said == {report.diagnostics[i] : i \in DOMAIN report.diagnostics}
            left == {i \in DOMAIN metered : metered[i].currency # report.currency} IN
        /\ left # {} => "CURRENCY_CONFLICT" \in said
                           \/ Len(report.diagnostics) = DiagnosticBound
        /\ left = {} => "CURRENCY_CONFLICT" \notin said
        /\ "COST_UNREADABLE" \notin said
=============================================================================
