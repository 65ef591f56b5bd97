--------------------------- MODULE SessionProofs ---------------------------
(***************************************************************************)
(* Theorems about Session, for any amounts, currencies and number of calls *)
(* and notes: the cost is the exact sum of what was metered, and a cost    *)
(* that is not in the total is said not to be.                             *)
(***************************************************************************)
EXTENDS Session, SequenceTheorems, WellFoundedInduction, TLAPS

Codes == {"NOTED", "CURRENCY_CONFLICT"}
Costs == [amount : {a \in Spelled : AmountDecodes(a)}, currency : Currency]

\* The first currency metered is the attempt's.
CurrencyIsTheFirst ==
    /\ metered \in Seq(Costs)
    /\ metered = <<>> => currency = None
    /\ metered # <<>> => currency \in Currency

\* A note is kept of another one, and of nothing that could not be read.
NotesTellTheConflicts ==
    /\ notes \in Seq(Codes)
    /\ (\E i \in 1..Len(notes) : notes[i] = "CURRENCY_CONFLICT") <=>
          \E i \in 1..Len(metered) : metered[i].currency # currency

\* What the proof shows to be inductive.
IInv == CurrencyIsTheFirst /\ NotesTellTheConflicts /\ OmissionsAreSaid
-----------------------------------------------------------------------------
\* Every amount the contract lets through can be read.
LEMMA DecodedIsReadable ==
    ASSUME NEW a \in Spelled, AmountDecodes(a)
    PROVE  Readable(a)
  <1>1. a.whole = <<0>> \/ (a.whole # <<>> /\ a.whole[1] # 0)
    BY DEF AmountDecodes, Canonical
  <1>2. a.whole # <<>> /\ (Len(a.whole) > 1 => a.whole[1] # 0)
    <2>1. CASE a.whole = <<0>>
      <3>1. Len(<<0>>) = 1 /\ <<0>> # <<>>
        OBVIOUS
      <3> QED
        BY <2>1, <3>1
    <2> QED
      BY <1>1, <2>1
  <1>3. a.point => a.fraction # <<>>
    BY DEF AmountDecodes, Canonical
  <1> QED
    BY <1>2, <1>3 DEF Readable

\* The diagnostics a result carries are the first of them: all, or as many as
\* it has room for.
LEMMA BoundedKeepsTheFirst ==
    ASSUME NEW S, NEW d \in Seq(S)
    PROVE  /\ \A i \in DOMAIN Bounded(d) : \E j \in 1..Len(d) : Bounded(d)[i] = d[j]
           /\ \/ \A j \in 1..Len(d) : j \in DOMAIN Bounded(d) /\ Bounded(d)[j] = d[j]
              \/ Len(Bounded(d)) = DiagnosticBound
  <1> DEFINE n == Min({Len(d), DiagnosticBound})
  <1>1. Len(d) \in Nat /\ DiagnosticBound \in Nat \ {0}
    BY SessionAssumption
  <1>2. n \in {Len(d), DiagnosticBound} /\ n <= Len(d) /\ n <= DiagnosticBound
    <2>1. \E x \in {Len(d), DiagnosticBound} : \A y \in {Len(d), DiagnosticBound} : x <= y
      BY <1>1
    <2> QED
      BY <2>1 DEF Min
  <1> HIDE DEF n
  <1>3. n \in Nat /\ \A i \in 1..n : i \in 1..Len(d) /\ d[i] \in S
    BY <1>1, <1>2, ElementOfSeq
  <1>4. Bounded(d) = SubSeq(d, 1, n)
    BY DEF Bounded, n
  <1>5. /\ SubSeq(d, 1, n) \in Seq(S)
        /\ Len(SubSeq(d, 1, n)) = (IF 1 <= n THEN n - 1 + 1 ELSE 0)
        /\ \A i \in 1..(n - 1 + 1) : SubSeq(d, 1, n)[i] = d[1 + i - 1]
    BY <1>3, SubSeqProperties
  <1>6. Len(Bounded(d)) = n /\ Bounded(d) \in Seq(S)
    BY <1>3, <1>4, <1>5
  <1>7. DOMAIN Bounded(d) = 1..n
    BY <1>6, LenProperties
  <1>8. \A i \in 1..n : Bounded(d)[i] = d[i]
    BY <1>3, <1>4, <1>5
  <1>9. CASE n = Len(d)
    BY <1>7, <1>8, <1>9
  <1>10. CASE n = DiagnosticBound
    BY <1>3, <1>6, <1>7, <1>8, <1>10
  <1> QED
    BY <1>2, <1>9, <1>10
-----------------------------------------------------------------------------

LEMMA InitIInv == Init => IInv
  <1> SUFFICES ASSUME Init PROVE IInv
    OBVIOUS
  <1>1. metered = <<>> /\ notes = <<>> /\ currency = None /\ report = None
    BY DEF Init
  <1>2. CurrencyIsTheFirst /\ NotesTellTheConflicts
    BY <1>1 DEF CurrencyIsTheFirst, NotesTellTheConflicts
  <1> QED
    BY <1>1, <1>2 DEF IInv, OmissionsAreSaid

\* A cost in the attempt's currency is added, and one in another is noted.
LEMMA MeterIInv ==
    ASSUME IInv, NEW amount \in Spelled, NEW named \in Currency, AmountDecodes(amount),
           report = None, report' = None, Meter([amount |-> amount, currency |-> named])
    PROVE  IInv'
  <1> DEFINE cost == [amount |-> amount, currency |-> named]
  <1>1. cost \in Costs /\ cost.currency = named /\ cost.amount = amount
    BY DEF Costs
  <1>2. /\ metered' = Append(metered, cost)
        /\ currency' = IF currency = None THEN named ELSE currency
        /\ IF named = currency' THEN Add(amount)
           ELSE notes' = Append(notes, "CURRENCY_CONFLICT")
    BY DEF Meter
  <1> HIDE DEF cost
  <1>3. metered \in Seq(Costs) /\ notes \in Seq(Codes) /\ Len(metered) \in Nat /\ Len(notes) \in Nat
    BY DEF IInv, CurrencyIsTheFirst, NotesTellTheConflicts
  <1>4. /\ metered' \in Seq(Costs) /\ metered' # <<>> /\ Len(metered') = Len(metered) + 1
        /\ \A i \in 1..Len(metered) : metered'[i] = metered[i]
        /\ metered'[Len(metered) + 1] = cost
    BY <1>1, <1>2, <1>3, AppendProperties
  <1>5. currency' \in Currency
    BY <1>2 DEF IInv, CurrencyIsTheFirst
  <1>6. \A i \in 1..Len(metered) : currency' = currency
    <2>1. ASSUME NEW i \in 1..Len(metered) PROVE currency # None
      BY <1>3, <2>1, SessionAssumption DEF IInv, CurrencyIsTheFirst
    <2> QED
      BY <1>2, <2>1
  <1>7. (\E i \in 1..Len(metered') : metered'[i].currency # currency')
           <=> (\E i \in 1..Len(metered) : metered[i].currency # currency) \/ named # currency'
    <2>1. \A i : i \in 1..Len(metered') <=> i \in 1..Len(metered) \/ i = Len(metered) + 1
      BY <1>3, <1>4
    <2> QED
      BY <1>1, <1>4, <1>6, <2>1
  <1>8. NotesTellTheConflicts'
    <2>1. CASE named = currency'
      <3>1. notes' = notes
        BY <1>2, <2>1, DecodedIsReadable DEF Add
      <3> QED
        BY <1>7, <2>1, <3>1 DEF IInv, NotesTellTheConflicts
    <2>2. CASE named # currency'
      <3>1. notes' = Append(notes, "CURRENCY_CONFLICT") /\ "CURRENCY_CONFLICT" \in Codes
        BY <1>2, <2>2 DEF Codes
      <3>2. /\ notes' \in Seq(Codes) /\ Len(notes') = Len(notes) + 1
            /\ notes'[Len(notes) + 1] = "CURRENCY_CONFLICT"
        BY <1>3, <3>1, AppendProperties
      <3>3. Len(notes) + 1 \in 1..Len(notes')
        BY <1>3, <3>2
      <3> QED
        BY <1>7, <2>2, <3>2, <3>3 DEF NotesTellTheConflicts
    <2> QED
      BY <2>1, <2>2
  <1>9. CurrencyIsTheFirst'
    BY <1>4, <1>5 DEF CurrencyIsTheFirst
  <1> QED
    BY <1>8, <1>9 DEF IInv, OmissionsAreSaid

LEMMA NoteIInv == IInv /\ Note => IInv'
  <1> SUFFICES ASSUME IInv, Note PROVE IInv'
    OBVIOUS
  <1>1. report = None /\ notes' = Append(notes, "NOTED") /\ UNCHANGED <<metered, currency, report>>
    BY DEF Note
  <1>2. notes \in Seq(Codes) /\ Len(notes) \in Nat /\ "NOTED" \in Codes
    BY DEF IInv, NotesTellTheConflicts, Codes
  <1>3. /\ notes' \in Seq(Codes) /\ Len(notes') = Len(notes) + 1
        /\ \A i \in 1..Len(notes) : notes'[i] = notes[i]
        /\ notes'[Len(notes) + 1] = "NOTED"
    BY <1>1, <1>2, AppendProperties
  <1>4. \A i : i \in 1..Len(notes') <=> i \in 1..Len(notes) \/ i = Len(notes) + 1
    BY <1>2, <1>3
  <1>5. NotesTellTheConflicts'
    BY <1>1, <1>3, <1>4 DEF IInv, NotesTellTheConflicts
  <1> QED
    BY <1>1, <1>5 DEF IInv, CurrencyIsTheFirst, OmissionsAreSaid

\* What is reported says what the notes do, as far as a result has room.
LEMMA ReportIInv ==
    ASSUME IInv, NEW failed \in BOOLEAN, Report(failed)
    PROVE  IInv'
  <1> DEFINE last == IF failed THEN <<"FAILED">> ELSE <<>>
             said == notes \o last
             All == Codes \cup {"FAILED"}
  <1>1. UNCHANGED <<metered, currency, notes>>
    BY DEF Report
  <1>2. /\ report'.diagnostics = Bounded(said)
        /\ report'.currency = IF currency = None THEN "USD" ELSE currency
    BY DEF Report
  <1>3. last \in Seq({"FAILED"}) /\ last \in Seq(All) /\ Len(last) \in Nat
        /\ \A i \in 1..Len(last) : last[i] = "FAILED"
    <2>1. /\ <<"FAILED">> \in Seq({"FAILED"}) /\ Len(<<"FAILED">>) = 1
          /\ <<"FAILED">>[1] = "FAILED"
      OBVIOUS
    <2>2. <<>> \in Seq({"FAILED"}) /\ Len(<<>>) = 0
      OBVIOUS
    <2>3. last = <<"FAILED">> \/ last = <<>>
      OBVIOUS
    <2> HIDE DEF last
    <2>4. last \in Seq({"FAILED"}) /\ Len(last) \in Nat
          /\ \A i \in 1..Len(last) : last[i] = "FAILED"
      <3>1. last \in Seq({"FAILED"})
        BY <2>1, <2>2, <2>3
      <3> QED
        BY <3>1, LenProperties, ElementOfSeq
    <2> QED
      BY <2>4, SeqMonotonic
  <1>4. notes \in Seq(Codes) /\ notes \in Seq(All) /\ Len(notes) \in Nat
    BY SeqMonotonic DEF IInv, NotesTellTheConflicts
  <1> HIDE DEF last, All
  <1>5. /\ said \in Seq(All) /\ Len(said) = Len(notes) + Len(last)
        /\ \A i \in 1..Len(notes) + Len(last) :
              said[i] = IF i <= Len(notes) THEN notes[i] ELSE last[i - Len(notes)]
    BY <1>3, <1>4, ConcatProperties
  <1>6. \A i \in 1..Len(notes) : i \in 1..Len(said) /\ said[i] = notes[i]
    BY <1>3, <1>4, <1>5
  <1>7. ASSUME NEW j \in 1..Len(said)
        PROVE  said[j] = "FAILED" \/ \E i \in 1..Len(notes) : said[j] = notes[i]
    <2>1. CASE j <= Len(notes)
      <3>1. j \in 1..Len(notes) /\ said[j] = notes[j]
        BY <1>3, <1>4, <1>5, <2>1
      <3> QED
        BY <3>1
    <2>2. CASE ~(j <= Len(notes))
      <3>1. j - Len(notes) \in 1..Len(last) /\ said[j] = last[j - Len(notes)]
        BY <1>3, <1>4, <1>5, <2>2
      <3> QED
        BY <1>3, <3>1
    <2> QED
      BY <2>1, <2>2
  <1> HIDE DEF said
  <1>8. /\ \A i \in DOMAIN Bounded(said) : \E j \in 1..Len(said) : Bounded(said)[i] = said[j]
        /\ \/ \A j \in 1..Len(said) : j \in DOMAIN Bounded(said) /\ Bounded(said)[j] = said[j]
           \/ Len(Bounded(said)) = DiagnosticBound
    BY <1>5, BoundedKeepsTheFirst
  <1>9. \A i \in 1..Len(notes) : notes[i] \in Codes
    BY <1>4, ElementOfSeq
  <1> DEFINE codes == {Bounded(said)[i] : i \in DOMAIN Bounded(said)}
             conflicts == {i \in DOMAIN metered : metered[i].currency # report'.currency}
  <1>10. conflicts # {} <=> \E i \in 1..Len(notes) : notes[i] = "CURRENCY_CONFLICT"
    <2>1. DOMAIN metered = 1..Len(metered) /\ Len(metered) \in Nat
      BY LenProperties DEF IInv, CurrencyIsTheFirst
    <2>2. CASE metered = <<>>
      <3>1. DOMAIN metered = {} /\ 1..Len(metered) = {}
        BY <2>2
      <3> QED
        BY <3>1 DEF IInv, NotesTellTheConflicts
    <2>3. CASE metered # <<>>
      <3>1. report'.currency = currency
        BY <1>2, <2>3, SessionAssumption DEF IInv, CurrencyIsTheFirst
      <3> QED
        BY <2>1, <3>1 DEF IInv, NotesTellTheConflicts
    <2> QED
      BY <2>2, <2>3
  <1>11. "CURRENCY_CONFLICT" \in codes => conflicts # {}
    BY <1>7, <1>8, <1>10
  <1>12. conflicts # {} => "CURRENCY_CONFLICT" \in codes \/ Len(Bounded(said)) = DiagnosticBound
    BY <1>6, <1>8, <1>10
  <1>13. "COST_UNREADABLE" \notin codes
    BY <1>7, <1>8, <1>9 DEF Codes
  <1>14. OmissionsAreSaid'
    BY <1>1, <1>2, <1>11, <1>12, <1>13 DEF OmissionsAreSaid
  <1> QED
    BY <1>1, <1>14 DEF IInv, CurrencyIsTheFirst, NotesTellTheConflicts

LEMMA StepIInv == IInv /\ [Next]_vars => IInv'
  <1> SUFFICES ASSUME IInv, [Next]_vars PROVE IInv'
    OBVIOUS
  <1>1. ASSUME UNCHANGED <<metered, currency, notes, report>> PROVE IInv'
    BY <1>1 DEF IInv, CurrencyIsTheFirst, NotesTellTheConflicts, OmissionsAreSaid
  <1>2. CASE Model
    <2>1. CASE \E amount \in Spelled, named \in Currency :
                  AmountDecodes(amount) /\ Meter([amount |-> amount, currency |-> named])
      BY <1>2, <2>1, MeterIInv DEF Model
    <2>2. CASE UNCHANGED <<metered, spent, currency, notes>>
      BY <1>1, <1>2, <2>2 DEF Model
    <2> QED
      BY <1>2, <2>1, <2>2 DEF Model
  <1>3. CASE SubmitCandidate
    BY <1>1, <1>3 DEF SubmitCandidate
  <1>4. CASE \E failed \in BOOLEAN : Report(failed)
    BY <1>4, ReportIInv
  <1>5. CASE Reported \/ UNCHANGED vars
    BY <1>1, <1>5 DEF Reported, vars
  <1> QED
    BY <1>2, <1>3, <1>4, <1>5, NoteIInv DEF Next
-----------------------------------------------------------------------------
\* A cost that is not in the total is said not to be, unless as many diagnostics
\* as a result carries came before; no other is, and none is unreadable
\* (session.go:129-144, host.go:369-377).
THEOREM OmissionsReported == Spec => []OmissionsAreSaid
  <1>1. Spec => []IInv
    BY InitIInv, StepIInv, PTL DEF Spec
  <1> QED
    BY <1>1, PTL DEF IInv
-----------------------------------------------------------------------------
(***************************************************************************)
(* Sums and powers.  A set of naturals has a least element, which stands   *)
(* in for an induction; what is defined by recursion exists because each   *)
(* of its beginnings does.                                                 *)
(***************************************************************************)

\* A set of natural numbers has a least one.
LEMMA LeastNatural ==
    ASSUME NEW T \in SUBSET Nat, T # {}
    PROVE  \E x \in T : \A y \in T : x <= y
  <1> DEFINE R == OpToRel(<, Nat)
  <1>1. \E x \in T : \A y \in T : ~(<<y, x>> \in R)
    BY NatLessThanWellFounded, WFMin
  <1>2. \A x, y \in T : <<y, x>> \in R <=> y < x
    BY DEF OpToRel
  <1>3. \A x, y \in T : ~(y < x) => x <= y
    OBVIOUS
  <1> HIDE DEF R
  <1> QED
    BY <1>1, <1>2, <1>3

\* What holds of 0 and of the successors of what it holds of holds of all.
LEMMA UpFromZero ==
    ASSUME NEW n \in Nat, NEW S, 0 \in S, \A i \in 0..(n - 1) : i \in S => i + 1 \in S
    PROVE  0..n \subseteq S
  <1> SUFFICES ASSUME (0..n) \ S # {} PROVE FALSE
    OBVIOUS
  <1>1. (0..n) \ S \in SUBSET Nat
    OBVIOUS
  <1>2. PICK x \in (0..n) \ S : \A y \in (0..n) \ S : x <= y
    BY <1>1, LeastNatural
  <1>3. x # 0 /\ x - 1 \in 0..(n - 1) /\ ~(x <= x - 1) /\ (x - 1) + 1 = x
    BY <1>2
  <1>4. x - 1 \in S
    BY <1>2, <1>3
  <1> QED
    BY <1>2, <1>3, <1>4

LEMMA AllNaturals ==
    ASSUME NEW S, 0 \in S, \A i \in Nat : i \in S => i + 1 \in S
    PROVE  Nat \subseteq S
  <1>1. ASSUME NEW n \in Nat PROVE n \in S
    <2>1. 0..n \subseteq S
      BY UpFromZero
    <2> QED
      BY <2>1
  <1> QED
    BY <1>1

\* The beginnings, n steps long, of the sequence that starts with base and goes
\* on with step, and the sequence itself.
Beginnings(n, V, base, step) ==
    {f \in [0..n -> V] : f[0] = base /\ \A i \in 0..(n - 1) : f[i + 1] = step[i][f[i]]}

\* There is a beginning of every length, each one step longer than another.
LEMMA BeginningsExist ==
    ASSUME NEW V, NEW base \in V, NEW step \in [Nat -> [V -> V]]
    PROVE  \A n \in Nat : Beginnings(n, V, base, step) # {}
  <1> DEFINE S == {n \in Nat : Beginnings(n, V, base, step) # {}}
  <1>1. 0 \in S
    <2>1. [i \in 0..0 |-> base] \in Beginnings(0, V, base, step)
      BY DEF Beginnings
    <2> QED
      BY <2>1
  <1>2. ASSUME NEW n \in Nat, n \in S PROVE n + 1 \in S
    <2>1. PICK f \in Beginnings(n, V, base, step) : TRUE
      BY <1>2
    <2> DEFINE g == [i \in 0..(n + 1) |-> IF i = n + 1 THEN step[n][f[n]] ELSE f[i]]
    <2>2. f \in [0..n -> V] /\ f[0] = base /\ \A i \in 0..(n - 1) : f[i + 1] = step[i][f[i]]
      BY <2>1 DEF Beginnings
    <2>3. f[n] \in V /\ step[n][f[n]] \in V
      <3>1. n \in 0..n
        OBVIOUS
      <3> QED
        BY <2>2, <3>1
    <2>4. g \in [0..(n + 1) -> V] /\ g[0] = base
      BY <2>2, <2>3
    <2>5. ASSUME NEW i \in 0..n PROVE g[i + 1] = step[i][g[i]]
      <3>1. CASE i = n
        BY <3>1
      <3>2. CASE i # n
        <4>1. i \in 0..(n - 1) /\ i + 1 # n + 1 /\ i + 1 \in 0..(n + 1) /\ i \in 0..(n + 1) /\ i # n + 1
          BY <3>2
        <4>2. g[i + 1] = f[i + 1] /\ g[i] = f[i]
          BY <4>1
        <4> QED
          BY <2>2, <4>1, <4>2
      <3> QED
        BY <3>1, <3>2
    <2> HIDE DEF g
    <2>6. (n + 1) - 1 = n
      OBVIOUS
    <2>7. g \in Beginnings(n + 1, V, base, step)
      BY <2>4, <2>5, <2>6 DEF Beginnings
    <2> QED
      BY <2>7
  <1> HIDE DEF S
  <1>3. Nat \subseteq S
    BY <1>1, <1>2, AllNaturals
  <1> QED
    BY <1>3 DEF S

\* The longer of two beginnings goes on where the other one ends.
LEMMA BeginningsAgree ==
    ASSUME NEW V, NEW base, NEW step, NEW m \in Nat, NEW n \in Nat, m <= n,
           NEW f \in Beginnings(m, V, base, step), NEW g \in Beginnings(n, V, base, step)
    PROVE  \A i \in 0..m : f[i] = g[i]
  <1> DEFINE S == {i \in 0..m : f[i] = g[i]}
  <1>1. /\ f[0] = base /\ \A i \in 0..(m - 1) : f[i + 1] = step[i][f[i]]
        /\ g[0] = base /\ \A i \in 0..(n - 1) : g[i + 1] = step[i][g[i]]
    BY DEF Beginnings
  <1>2. 0 \in S
    BY <1>1
  <1>3. ASSUME NEW i \in 0..(m - 1), i \in S PROVE i + 1 \in S
    <2>1. i \in 0..(n - 1) /\ i + 1 \in 0..m
      OBVIOUS
    <2> QED
      BY <1>1, <1>3, <2>1
  <1> HIDE DEF S
  <1>4. 0..m \subseteq S
    BY <1>2, <1>3, UpFromZero
  <1> QED
    BY <1>4 DEF S

\* The whole sequence, whose nth member is the last of the beginning n steps long.
Follows(f, V, base, step) ==
    f \in [Nat -> V] /\ f[0] = base /\ \A n \in Nat : f[n + 1] = step[n][f[n]]

LEMMA SequenceExists ==
    ASSUME NEW V, NEW base \in V, NEW step \in [Nat -> [V -> V]]
    PROVE  \E f : Follows(f, V, base, step)
  <1> DEFINE h(n) == CHOOSE g \in Beginnings(n, V, base, step) : TRUE
             f == [n \in Nat |-> h(n)[n]]
  <1>1. \A n \in Nat : h(n) \in Beginnings(n, V, base, step)
    BY BeginningsExist
  <1> HIDE DEF h
  <1>2. \A n \in Nat : h(n) \in [0..n -> V] /\ h(n)[0] = base
                       /\ \A i \in 0..(n - 1) : h(n)[i + 1] = step[i][h(n)[i]]
    BY <1>1 DEF Beginnings
  <1>3. f \in [Nat -> V] /\ f[0] = base
    BY <1>2
  <1>4. ASSUME NEW n \in Nat PROVE f[n + 1] = step[n][f[n]]
    <2>1. n + 1 \in Nat /\ n <= n + 1 /\ n \in 0..n /\ n \in 0..((n + 1) - 1)
      OBVIOUS
    <2>2. h(n)[n] = h(n + 1)[n]
      BY <1>1, <2>1, BeginningsAgree
    <2>3. h(n + 1)[n + 1] = step[n][h(n + 1)[n]]
      BY <1>2, <2>1
    <2> QED
      BY <2>1, <2>2, <2>3
  <1> HIDE DEF f
  <1> QED
    BY <1>3, <1>4 DEF Follows

\* The powers of ten.
LEMMA PowersOfTen ==
    /\ Tens \in [Nat -> Nat \ {0}] /\ Tens[0] = 1
    /\ \A n \in Nat : Tens[n + 1] = 10 * Tens[n]
  <1> DEFINE step == [n \in Nat |-> [v \in Nat \ {0} |-> 10 * v]]
             Powers(g) == g = [n \in Nat |-> IF n = 0 THEN 1 ELSE 10 * g[n - 1]]
  <1>1. step \in [Nat -> [Nat \ {0} -> Nat \ {0}]]
    OBVIOUS
  <1>2. \A n \in Nat, v \in Nat \ {0} : step[n][v] = 10 * v
    OBVIOUS
  <1> HIDE DEF step
  <1>3. PICK f \in [Nat -> Nat \ {0}] : f[0] = 1 /\ \A n \in Nat : f[n + 1] = step[n][f[n]]
    <2>1. 1 \in Nat \ {0}
      OBVIOUS
    <2>2. \E f : Follows(f, Nat \ {0}, 1, step)
      BY <1>1, <2>1, SequenceExists
    <2> QED
      BY <2>2 DEF Follows
  <1>4. \A n \in Nat : f[n + 1] = 10 * f[n]
    BY <1>2, <1>3
  <1>5. Powers(f)
    <2>1. ASSUME NEW n \in Nat PROVE f[n] = IF n = 0 THEN 1 ELSE 10 * f[n - 1]
      <3>1. n # 0 => n - 1 \in Nat /\ (n - 1) + 1 = n
        OBVIOUS
      <3> QED
        BY <1>3, <1>4, <3>1
    <2>2. f = [n \in Nat |-> f[n]]
      BY <1>3
    <2> QED
      BY <2>1, <2>2
  <1>6. Powers(Tens)
    BY <1>5 DEF Tens
  <1> HIDE DEF Powers
  <1>7. \A n \in Nat : Tens[n] = IF n = 0 THEN 1 ELSE 10 * Tens[n - 1]
    BY <1>6 DEF Powers
  <1>8. Tens = [n \in Nat |-> Tens[n]]
    BY <1>6 DEF Powers
  <1>9. \A n \in Nat : Tens[n + 1] = 10 * Tens[n]
    <2> TAKE n \in Nat
    <2>1. n + 1 \in Nat /\ n + 1 # 0 /\ (n + 1) - 1 = n
      OBVIOUS
    <2> QED
      BY <1>7, <2>1
  <1> DEFINE S == {n \in Nat : Tens[n] \in Nat \ {0}}
  <1>10. 0 \in S
    BY <1>7
  <1>11. ASSUME NEW n \in Nat, n \in S PROVE n + 1 \in S
    BY <1>9, <1>11
  <1> HIDE DEF S
  <1>12. Nat \subseteq S
    BY <1>10, <1>11, AllNaturals
  <1> QED
    BY <1>7, <1>8, <1>9, <1>12 DEF S

\* A power of ten is a positive number.
LEMMA PowersAreNatural ==
    ASSUME NEW n \in Nat
    PROVE  Tens[n] \in Nat /\ Tens[n] > 0
  <1>1. Tens[n] \in Nat \ {0}
    BY PowersOfTen
  <1> QED
    BY <1>1

\* Shifting twice is shifting by the sum of the places.
LEMMA PowersMultiply ==
    ASSUME NEW m \in Nat, NEW n \in Nat
    PROVE  Tens[m + n] = Tens[m] * Tens[n]
  <1> DEFINE S == {i \in Nat : Tens[m + i] = Tens[m] * Tens[i]}
  <1>1. 0 \in S
    BY PowersOfTen
  <1>2. ASSUME NEW i \in Nat, i \in S PROVE i + 1 \in S
    <2>1. Tens[m + (i + 1)] = 10 * Tens[m + i]
      <3>1. m + (i + 1) = (m + i) + 1 /\ m + i \in Nat
        OBVIOUS
      <3> QED
        BY <3>1, PowersOfTen
    <2>2. Tens[i + 1] = 10 * Tens[i]
      BY PowersOfTen
    <2>3. Tens[m] \in Nat /\ Tens[i] \in Nat /\ Tens[m + i] = Tens[m] * Tens[i]
      BY <1>2, PowersOfTen
    <2>4. \A a, b \in Nat : 10 * (a * b) = a * (10 * b)
      OBVIOUS
    <2> QED
      BY <2>1, <2>2, <2>3, <2>4
  <1> HIDE DEF S
  <1>3. Nat \subseteq S
    BY <1>1, <1>2, AllNaturals
  <1> QED
    BY <1>3 DEF S
-----------------------------------------------------------------------------
(***************************************************************************)
(* What digits spell.                                                      *)
(***************************************************************************)

\* g[i] is the number the first i digits spell.
Counts(g, digits) ==
    g[0] = 0 /\ \A i \in 1..Len(digits) : g[i] = 10 * g[i - 1] + digits[i]

\* Every sequence of digits is counted.
LEMMA CountsExist ==
    ASSUME NEW digits \in Seq(0..9)
    PROVE  \E g \in [Nat -> Nat] : Counts(g, digits)
  <1> DEFINE step == [n \in Nat |-> [v \in Nat |-> IF n < Len(digits) THEN 10 * v + digits[n + 1] ELSE 0]]
  <1>1. \A i \in 1..Len(digits) : digits[i] \in 0..9
    BY ElementOfSeq
  <1>2. Len(digits) \in Nat
    BY LenProperties
  <1>3. step \in [Nat -> [Nat -> Nat]]
    <2>1. ASSUME NEW n \in Nat, NEW v \in Nat
          PROVE  (IF n < Len(digits) THEN 10 * v + digits[n + 1] ELSE 0) \in Nat
      <3>1. n < Len(digits) => n + 1 \in 1..Len(digits)
        BY <1>2
      <3> QED
        BY <1>1, <3>1
    <2> QED
      BY <2>1
  <1>4. \A n \in Nat, v \in Nat : n < Len(digits) => step[n][v] = 10 * v + digits[n + 1]
    OBVIOUS
  <1> HIDE DEF step
  <1>5. PICK g \in [Nat -> Nat] : g[0] = 0 /\ \A n \in Nat : g[n + 1] = step[n][g[n]]
    <2>1. 0 \in Nat
      OBVIOUS
    <2>2. \E g : Follows(g, Nat, 0, step)
      BY <1>3, <2>1, SequenceExists
    <2> QED
      BY <2>2 DEF Follows
  <1>6. ASSUME NEW i \in 1..Len(digits) PROVE g[i] = 10 * g[i - 1] + digits[i]
    <2>1. i - 1 \in Nat /\ i - 1 < Len(digits) /\ (i - 1) + 1 = i
      BY <1>2
    <2>2. g[(i - 1) + 1] = step[i - 1][g[i - 1]] /\ g[i - 1] \in Nat
      BY <1>5, <2>1
    <2> QED
      BY <1>4, <2>1, <2>2
  <1> QED
    BY <1>5, <1>6 DEF Counts

\* It is counted in one way.
LEMMA CountsAgree ==
    ASSUME NEW digits \in Seq(0..9), NEW f, NEW g, Counts(f, digits), Counts(g, digits)
    PROVE  f[Len(digits)] = g[Len(digits)]
  <1> DEFINE S == {i \in 0..Len(digits) : f[i] = g[i]}
  <1>1. Len(digits) \in Nat
    BY LenProperties
  <1>2. 0 \in S
    BY <1>1 DEF Counts
  <1>3. ASSUME NEW i \in 0..(Len(digits) - 1), i \in S PROVE i + 1 \in S
    <2>1. i + 1 \in 1..Len(digits) /\ i + 1 \in 0..Len(digits) /\ (i + 1) - 1 = i
      BY <1>1
    <2>2. f[i + 1] = 10 * f[i] + digits[i + 1] /\ g[i + 1] = 10 * g[i] + digits[i + 1]
      BY <2>1 DEF Counts
    <2> QED
      BY <1>3, <2>1, <2>2
  <1> HIDE DEF S
  <1>4. 0..Len(digits) \subseteq S
    BY <1>1, <1>2, <1>3, UpFromZero
  <1>5. Len(digits) \in 0..Len(digits)
    BY <1>1
  <1> QED
    BY <1>4, <1>5 DEF S

\* What digits spell is what counting them comes to.
LEMMA NumberCounts ==
    ASSUME NEW digits \in Seq(0..9), NEW g, Counts(g, digits)
    PROVE  Number(digits) = g[Len(digits)]
  <1> DEFINE Upon(f) == f = [i \in 0..Len(digits) |->
                                IF i = 0 THEN 0 ELSE 10 * f[i - 1] + digits[i]]
             chosen == CHOOSE f : Upon(f)
             g0 == [i \in 0..Len(digits) |-> g[i]]
  <1>1. Len(digits) \in Nat
    BY LenProperties
  <1>2. Upon(g0)
    <2>1. ASSUME NEW i \in 0..Len(digits)
          PROVE  g0[i] = IF i = 0 THEN 0 ELSE 10 * g0[i - 1] + digits[i]
      <3>1. i # 0 => i \in 1..Len(digits) /\ i - 1 \in 0..Len(digits)
        BY <1>1
      <3> QED
        BY <3>1 DEF Counts
    <2> QED
      BY <2>1
  <1>3. Upon(chosen)
    BY <1>2
  <1>4. Number(digits) = chosen[Len(digits)]
    BY DEF Number
  <1> HIDE DEF chosen
  <1>5. \A i \in 0..Len(digits) :
           chosen[i] = IF i = 0 THEN 0 ELSE 10 * chosen[i - 1] + digits[i]
    BY <1>3
  <1> HIDE DEF Upon
  <1>6. Counts(chosen, digits)
    <2>1. chosen[0] = 0
      BY <1>1, <1>5
    <2>2. \A i \in 1..Len(digits) : i \in 0..Len(digits) /\ i # 0
      BY <1>1
    <2> QED
      BY <1>5, <2>1, <2>2 DEF Counts
  <1> QED
    BY <1>4, <1>6, CountsAgree

\* Digits spell a natural number.
LEMMA NumberIsNatural ==
    ASSUME NEW digits \in Seq(0..9)
    PROVE  Number(digits) \in Nat
  <1>1. PICK g \in [Nat -> Nat] : Counts(g, digits)
    BY CountsExist
  <1>2. Number(digits) = g[Len(digits)] /\ Len(digits) \in Nat
    BY <1>1, NumberCounts, LenProperties
  <1> QED
    BY <1>2

\* Digits before others count for as many times as many powers of ten.
LEMMA NumberOfJoined ==
    ASSUME NEW d \in Seq(0..9), NEW e \in Seq(0..9)
    PROVE  Number(d \o e) = Number(d) * Tens[Len(e)] + Number(e)
  <1>1. PICK f \in [Nat -> Nat] : Counts(f, d)
    BY CountsExist
  <1>2. PICK g \in [Nat -> Nat] : Counts(g, e)
    BY CountsExist
  <1> DEFINE m == Len(d)
             n == Len(e)
             h == [i \in Nat |-> IF i <= m THEN f[i] ELSE f[m] * Tens[i - m] + g[i - m]]
  <1>3. m \in Nat /\ n \in Nat
    BY LenProperties
  <1>4. d \o e \in Seq(0..9) /\ Len(d \o e) = m + n
        /\ \A i \in 1..(m + n) : (d \o e)[i] = IF i <= m THEN d[i] ELSE e[i - m]
    BY ConcatProperties
  <1>5. Number(d) = f[m] /\ Number(e) = g[n]
    BY <1>1, <1>2, NumberCounts
  <1>12. /\ f[0] = 0 /\ \A i \in 1..m : f[i] = 10 * f[i - 1] + d[i]
         /\ g[0] = 0 /\ \A i \in 1..n : g[i] = 10 * g[i - 1] + e[i] /\ e[i] \in 0..9
    BY <1>1, <1>2, ElementOfSeq DEF Counts
  <1>13. \A i : Counts(i, d \o e) <=>
            i[0] = 0 /\ \A j \in 1..(m + n) : i[j] = 10 * i[j - 1] + (d \o e)[j]
    BY <1>4 DEF Counts
  <1>14. f \in [Nat -> Nat] /\ g \in [Nat -> Nat]
    BY <1>1, <1>2
  <1>15. Len(e) = n
    OBVIOUS
  <1> HIDE DEF m, n
  <1>6. \A i \in 0..m : h[i] = f[i]
    BY <1>3
  <1>7. \A j \in Nat : h[m + j] = f[m] * Tens[j] + g[j]
    <2> TAKE j \in Nat
    <2>1. CASE j = 0
      <3>1. m + j = m /\ m \in Nat /\ m <= m
        BY <1>3, <2>1
      <3>2. h[m + j] = f[m]
        BY <3>1
      <3>3. Tens[j] = 1 /\ g[j] = 0 /\ f[m] \in Nat
        BY <1>3, <1>12, <1>14, <2>1, PowersOfTen
      <3>4. \A a \in Nat : a = a * 1 + 0
        OBVIOUS
      <3> QED
        BY <3>2, <3>3, <3>4
    <2>2. CASE j # 0
      <3>1. m + j \in Nat /\ ~(m + j <= m) /\ (m + j) - m = j
        BY <1>3, <2>2
      <3> QED
        BY <3>1
    <2> QED
      BY <2>1, <2>2
  <1> HIDE DEF h
  <1>8. ASSUME NEW i \in 1..(m + n) PROVE h[i] = 10 * h[i - 1] + (d \o e)[i]
    <2>1. CASE i <= m
      <3>1. i \in 1..m /\ i \in 0..m /\ i - 1 \in 0..m
        BY <1>3, <2>1
      <3> QED
        BY <1>4, <1>6, <1>12, <2>1, <3>1
    <2>2. CASE ~(i <= m)
      <3> DEFINE j == i - m
      <3>1. j \in 1..n /\ j - 1 \in Nat /\ (j - 1) + 1 = j /\ j \in Nat
            /\ m + j = i /\ m + (j - 1) = i - 1
        BY <1>3, <2>2
      <3> HIDE DEF j
      <3>2. h[i] = f[m] * Tens[j] + g[j] /\ h[i - 1] = f[m] * Tens[j - 1] + g[j - 1]
        BY <1>7, <3>1
      <3>3. Tens[j] = 10 * Tens[j - 1]
        <4>1. Tens[(j - 1) + 1] = 10 * Tens[j - 1]
          BY <3>1, PowersOfTen
        <4> QED
          BY <3>1, <4>1
      <3>4. (d \o e)[i] = e[j]
        BY <1>4, <2>2 DEF j
      <3>5. g[j] = 10 * g[j - 1] + e[j] /\ e[j] \in 0..9
        BY <1>12, <3>1
      <3> DEFINE a == f[m]
                 b == Tens[j - 1]
                 c == g[j - 1]
                 x == e[j]
      <3>6. a \in Nat /\ c \in Nat
        BY <1>3, <1>14, <3>1
      <3>7. b \in Nat
        BY <3>1, PowersAreNatural
      <3> HIDE DEF a, b, c
      <3>8. h[i] = a * (10 * b) + (10 * c + x) /\ h[i - 1] = a * b + c /\ x \in 0..9
        BY <3>2, <3>3, <3>5 DEF a, b, c
      <3> HIDE DEF x
      <3>9. h[i] = 10 * h[i - 1] + x
        BY <3>6, <3>7, <3>8
      <3> QED
        BY <3>4, <3>9 DEF x
    <2> QED
      BY <2>1, <2>2
  <1>9. h[0] = 0
    <2>1. 0 \in 0..m
      BY <1>3
    <2>2. h[0] = f[0]
      BY <1>6, <2>1
    <2> QED
      BY <1>12, <2>2
  <1>10. Counts(h, d \o e)
    BY <1>8, <1>9, <1>13
  <1>11. Number(d \o e) = h[m + n]
    BY <1>4, <1>10, NumberCounts
  <1> QED
    BY <1>3, <1>5, <1>7, <1>11, <1>15

\* Zeros spell nothing.
LEMMA NumberOfZeros ==
    ASSUME NEW d \in Seq(0..9), \A i \in 1..Len(d) : d[i] = 0
    PROVE  Number(d) = 0
  <1> DEFINE g == [i \in Nat |-> 0]
  <1>1. Len(d) \in Nat
    BY LenProperties
  <1>2. Counts(g, d)
    <2>1. \A i \in 1..Len(d) : i \in Nat /\ i - 1 \in Nat
      BY <1>1
    <2> QED
      BY <2>1 DEF Counts
  <1> QED
    BY <1>1, <1>2, NumberCounts
-----------------------------------------------------------------------------
(***************************************************************************)
(* What an accumulator prints.                                             *)
(***************************************************************************)

\* A quotient is what a division with a remainder finds.
LEMMA QuotientIs ==
    ASSUME NEW a \in Nat, NEW b \in Nat \ {0}, NEW u \in Nat, NEW w \in 0..(b - 1), a = b * u + w
    PROVE  a \div b = u
  <1> DEFINE k == a \div b
             t == a % b
  <1>1. k \in Nat /\ t \in 0..(b - 1) /\ a = b * k + t
    OBVIOUS
  <1> HIDE DEF k, t
  <1>2. CASE k >= u + 1
    <2>1. b * k >= b * (u + 1)
      BY <1>1, <1>2
    <2>2. b * (u + 1) = b * u + b
      OBVIOUS
    <2> QED
      BY <1>1, <2>1, <2>2
  <1>3. CASE u >= k + 1
    <2>1. b * u >= b * (k + 1)
      BY <1>1, <1>3
    <2>2. b * (k + 1) = b * k + b
      BY <1>1
    <2> QED
      BY <1>1, <2>1, <2>2
  <1>4. k = u
    BY <1>1, <1>2, <1>3
  <1> QED
    BY <1>4 DEF k

\* The last digit of a quotient, and the ones before it.
LEMMA DigitOfQuotient ==
    ASSUME NEW a \in Nat, NEW p \in Nat \ {0}
    PROVE  /\ a \div p \in Nat /\ a \div (10 * p) \in Nat
           /\ (a \div p) % 10 \in 0..9
           /\ a \div p = 10 * (a \div (10 * p)) + ((a \div p) % 10)
  <1> DEFINE q == a \div p
             r == a % p
  <1>1. q \in Nat /\ r \in 0..(p - 1) /\ a = p * q + r
    OBVIOUS
  <1> HIDE DEF q, r
  <1> DEFINE u == q \div 10
             v == q % 10
  <1>2. u \in Nat /\ v \in 0..9 /\ q = 10 * u + v
    BY <1>1
  <1> HIDE DEF u, v
  <1>3. p * v + r \in 0..(10 * p - 1)
    <2>1. p * v >= 0 /\ p * v <= p * 9
      BY <1>2
    <2> QED
      BY <1>1, <1>2, <2>1
  <1>4. a = (10 * p) * u + (p * v + r)
    <2>1. p * (10 * u + v) = (10 * p) * u + p * v
      BY <1>2
    <2> QED
      BY <1>1, <1>2, <2>1
  <1>5. a \div (10 * p) = u
    <2>1. 10 * p \in Nat \ {0}
      OBVIOUS
    <2> QED
      BY <1>2, <1>3, <1>4, <2>1, QuotientIs
  <1> QED
    BY <1>1, <1>2, <1>5 DEF q, v

\* A number is less than ten to its own power, so it has a width.
LEMMA PowersAreLarge ==
    ASSUME NEW n \in Nat
    PROVE  Tens[n] > n
  <1> DEFINE S == {i \in Nat : Tens[i] > i}
  <1>1. 0 \in S
    BY PowersOfTen
  <1>2. ASSUME NEW i \in Nat, i \in S PROVE i + 1 \in S
    BY <1>2, PowersOfTen, PowersAreNatural
  <1> HIDE DEF S
  <1>3. Nat \subseteq S
    BY <1>1, <1>2, AllNaturals
  <1> QED
    BY <1>3 DEF S

\* A number has as many digits as it needs, or as many as are asked for.
WidthOf(w, a, s) ==
    w \in (s + 1)..(s + 1 + a) /\ a < Tens[w] /\ (w > s + 1 => a >= Tens[w - 1])

\* There is such a width, and it is within the bounds it is looked for in.
LEMMA WidthExists ==
    ASSUME NEW a \in Nat, NEW s \in Nat
    PROVE  \E w : WidthOf(w, a, s)
  <1> DEFINE T == {w \in Nat : w >= s + 1 /\ a < Tens[w]}
             n == s + 1 + a
  <1>1. n \in T
    <2>1. n \in Nat /\ n >= s + 1 /\ a < n
      OBVIOUS
    <2> HIDE DEF n
    <2>2. Tens[n] > n /\ Tens[n] \in Nat
      BY <2>1, PowersAreLarge, PowersAreNatural
    <2> QED
      BY <2>1, <2>2
  <1>2. PICK w \in T : \A y \in T : w <= y
    <2>1. T \in SUBSET Nat
      OBVIOUS
    <2> HIDE DEF T
    <2> QED
      BY <1>1, <2>1, LeastNatural
  <1>3. w \in Nat /\ w >= s + 1 /\ a < Tens[w] /\ w <= n
    BY <1>1, <1>2
  <1>4. ASSUME w > s + 1 PROVE a >= Tens[w - 1]
    <2>1. w - 1 \in Nat /\ w - 1 >= s + 1 /\ ~(w <= w - 1)
      BY <1>3, <1>4
    <2>2. ~(a < Tens[w - 1])
      BY <1>2, <2>1
    <2>3. Tens[w - 1] \in Nat
      BY <2>1, PowersAreNatural
    <2> QED
      BY <2>2, <2>3
  <1> QED
    BY <1>3, <1>4 DEF WidthOf

\* What an accumulator holds once something was added to it.
Accumulated == [value : Int, scale : Nat]

\* The digits of a value spell it, and the first of them is a zero only where
\* there is one of it before the point.
LEMMA DigitsSpell ==
    ASSUME NEW x \in Accumulated
    PROVE  /\ Magnitude(x) \in Nat
           /\ Digits(x) \in Seq(0..9)
           /\ Len(Digits(x)) >= x.scale + 1
           /\ Len(Digits(x)) > x.scale + 1 => Digits(x)[1] # 0
           /\ Number(Digits(x)) = Magnitude(x)
  <1> DEFINE a == Magnitude(x)
             s == x.scale
             w == CHOOSE w \in (s + 1)..(s + 1 + a) : a < Tens[w] /\ (w > s + 1 => a >= Tens[w - 1])
             d == [i \in 1..w |-> (a \div Tens[w - i]) % 10]
  <1>1. s \in Nat /\ x.value \in Int /\ a \in Nat
    BY DEF Accumulated, Magnitude
  <1>2. Digits(x) = d
    BY DEF Digits
  <1> HIDE DEF a, s
  <1>3. w \in (s + 1)..(s + 1 + a) /\ a < Tens[w] /\ (w > s + 1 => a >= Tens[w - 1])
    BY <1>1, WidthExists DEF WidthOf
  <1> HIDE DEF w
  <1>4. w \in Nat /\ w >= s + 1 /\ w >= 1
    BY <1>1, <1>3
  <1>5. \A i \in 0..w : w - i \in Nat /\ Tens[w - i] \in Nat \ {0}
    BY <1>4, PowersOfTen
  <1>6. ASSUME NEW i \in 1..w PROVE (a \div Tens[w - i]) % 10 \in 0..9
    <2>1. Tens[w - i] \in Nat \ {0}
      BY <1>4, <1>5
    <2> QED
      BY <1>1, <2>1, DigitOfQuotient
  <1>7. d \in Seq(0..9) /\ Len(d) = w
    <2>1. d \in [1..w -> 0..9]
      BY <1>6
    <2> QED
      BY <1>4, <2>1
  <1>8. ASSUME w > s + 1 PROVE d[1] # 0
    <2> DEFINE p == Tens[w - 1]
    <2>1. p \in Nat \ {0} /\ Tens[w] = 10 * p
      <3>1. w - 1 \in Nat /\ (w - 1) + 1 = w
        BY <1>4
      <3> QED
        BY <3>1, PowersOfTen
    <2>2. p <= a /\ a < 10 * p
      BY <1>1, <1>3, <1>8, <2>1
    <2>3. d[1] = (a \div p) % 10
      BY <1>4
    <2> HIDE DEF p, d
    <2> DEFINE q == a \div p
    <2>4. q \in Nat /\ a % p \in 0..(p - 1) /\ a = p * q + (a % p)
      BY <1>1, <2>1
    <2> HIDE DEF q
    <2>5. q # 0
      BY <2>1, <2>2, <2>4
    <2>6. ~(q >= 10)
      <3> SUFFICES ASSUME q >= 10 PROVE FALSE
        OBVIOUS
      <3>1. p * q >= p * 10
        BY <2>1, <2>4
      <3> QED
        BY <1>1, <2>1, <2>2, <2>4, <3>1
    <2>7. q % 10 = q
      BY <2>4, <2>6
    <2> QED
      BY <2>3, <2>5, <2>7 DEF q
  <1> DEFINE g == [i \in 0..w |-> a \div Tens[w - i]]
  <1>9. Counts(g, d)
    <2>1. g[0] = 0
      <3>1. g[0] = a \div Tens[w] /\ Tens[w] \in Nat \ {0}
        <4>1. w - 0 = w /\ 0 \in 0..w
          BY <1>4
        <4> QED
          BY <1>5, <4>1
      <3>2. a = Tens[w] * 0 + a /\ a \in 0..(Tens[w] - 1)
        BY <1>1, <1>3, <3>1
      <3>3. a \div Tens[w] = 0
        BY <1>1, <3>1, <3>2, QuotientIs
      <3> QED
        BY <3>1, <3>3
    <2>2. ASSUME NEW i \in 1..w PROVE g[i] = 10 * g[i - 1] + d[i]
      <3> DEFINE p == Tens[w - i]
      <3>1. i \in 0..w /\ i - 1 \in 0..w /\ w - i \in Nat /\ w - (i - 1) = (w - i) + 1
        BY <1>4
      <3>2. p \in Nat \ {0} /\ Tens[w - (i - 1)] = 10 * p
        BY <3>1, PowersOfTen
      <3>3. g[i] = a \div p /\ g[i - 1] = a \div (10 * p) /\ d[i] = (a \div p) % 10
        BY <3>1, <3>2
      <3> HIDE DEF g, d, p
      <3> QED
        BY <1>1, <3>2, <3>3, DigitOfQuotient
    <2> QED
      BY <1>7, <2>1, <2>2 DEF Counts
  <1>10. g[w] = a
    <2>1. w \in 0..w /\ w - w = 0
      BY <1>4
    <2>2. g[w] = a \div 1
      BY <2>1, PowersOfTen
    <2>3. a \div 1 = a
      BY <1>1
    <2> QED
      BY <2>2, <2>3
  <1> HIDE DEF g
  <1>11. Number(d) = a
    BY <1>7, <1>9, <1>10, NumberCounts
  <1> HIDE DEF d
  <1> QED
    BY <1>1, <1>2, <1>4, <1>7, <1>8, <1>11 DEF a, s

\* A set of positions has a last one.
LEMMA LastPosition ==
    ASSUME NEW n \in Nat, NEW T \in SUBSET (0..n), T # {}
    PROVE  Max(T) \in T /\ \A y \in T : Max(T) >= y
  <1> DEFINE U == {n - y : y \in T}
  <1>1. U \in SUBSET Nat /\ U # {}
    <2>1. \A y \in T : n - y \in Nat
      OBVIOUS
    <2> QED
      BY <2>1
  <1>2. PICK u \in U : \A v \in U : u <= v
    <2> HIDE DEF U
    <2> QED
      BY <1>1, LeastNatural
  <1>3. PICK x \in T : u = n - x
    BY <1>2
  <1>4. \A y \in T : x >= y
    <2> TAKE y \in T
    <2>1. n - y \in U
      OBVIOUS
    <2>2. n - x <= n - y /\ x \in 0..n /\ y \in 0..n
      BY <1>2, <1>3, <2>1
    <2> QED
      BY <2>2
  <1> QED
    BY <1>4 DEF Max

\* The part of digits between two places is digits.
LEMMA PartOfDigits ==
    ASSUME NEW d \in Seq(0..9), NEW m \in 1..(Len(d) + 1), NEW n \in 0..Len(d), m <= n + 1
    PROVE  /\ SubSeq(d, m, n) \in Seq(0..9)
           /\ Len(SubSeq(d, m, n)) = n - m + 1
           /\ \A i \in 1..(n - m + 1) : SubSeq(d, m, n)[i] = d[m + i - 1]
  <1>1. Len(d) \in Nat
    BY LenProperties
  <1>2. \A i \in m..n : i \in 1..Len(d)
    BY <1>1
  <1>3. \A i \in m..n : d[i] \in 0..9
    BY <1>2, ElementOfSeq
  <1>4. m \in Int /\ n \in Int
    BY <1>1
  <1>5. /\ SubSeq(d, m, n) \in Seq(0..9)
        /\ Len(SubSeq(d, m, n)) = IF m <= n THEN n - m + 1 ELSE 0
        /\ \A i \in 1..(n - m + 1) : SubSeq(d, m, n)[i] = d[m + i - 1]
    BY <1>3, <1>4, SubSeqProperties
  <1> QED
    BY <1>1, <1>4, <1>5

\* What digits spell is what their two parts do, the left one shifted.
LEMMA PartsOfDigits ==
    ASSUME NEW d \in Seq(0..9), NEW n \in 0..Len(d)
    PROVE  Number(d) = Number(SubSeq(d, 1, n)) * Tens[Len(d) - n]
                          + Number(SubSeq(d, n + 1, Len(d)))
  <1> DEFINE left == SubSeq(d, 1, n)
             right == SubSeq(d, n + 1, Len(d))
  <1>1. Len(d) \in Nat
    BY LenProperties
  <1>2. left \in Seq(0..9)
    <2>1. 1 \in 1..(Len(d) + 1) /\ 1 <= n + 1
      BY <1>1
    <2> QED
      BY <2>1, PartOfDigits
  <1>3. right \in Seq(0..9) /\ Len(right) = Len(d) - n
    <2>1. n + 1 \in 1..(Len(d) + 1) /\ Len(d) \in 0..Len(d) /\ n + 1 <= Len(d) + 1
          /\ Len(d) - (n + 1) + 1 = Len(d) - n
      BY <1>1
    <2> QED
      BY <2>1, PartOfDigits
  <1>4. left \o right = d
    <2>1. 1 \in 1..(Len(d) + 1) /\ n \in (1 - 1)..Len(d) /\ Len(d) \in n..Len(d)
      BY <1>1
    <2>2. left \o right = SubSeq(d, 1, Len(d))
      BY <2>1, ConcatAdjacentSubSeq
    <2> QED
      BY <2>2, SubSeqFull
  <1> HIDE DEF left, right
  <1>5. Number(left \o right) = Number(left) * Tens[Len(right)] + Number(right)
    BY <1>2, <1>3, NumberOfJoined
  <1> QED
    BY <1>3, <1>4, <1>5 DEF left, right

\* What is printed is worth what was accumulated, and spelled as the contract has it.
LEMMA PrintedIsCanonical ==
    ASSUME NEW x \in Accumulated
    PROVE  /\ Printed(x).whole \in Seq(0..9) /\ Printed(x).fraction \in Seq(0..9)
           /\ Len(Printed(x).fraction) <= x.scale
           /\ Canonical(Printed(x))
           /\ Printed(x).fraction # <<>> => Last(Printed(x).fraction) # 0
           /\ Printed(x).negative = (x.value < 0)
           /\ Number(Printed(x).whole) * Tens[x.scale]
                 + Number(Printed(x).fraction) * Tens[x.scale - Len(Printed(x).fraction)]
              = Magnitude(x)
  <1> DEFINE s == x.scale
             d == Digits(x)
             split == Len(d) - s
             places == SubSeq(d, split + 1, Len(d))
             T == {0} \cup {i \in DOMAIN places : places[i] # 0}
             kept == Max(T)
             whole == SubSeq(d, 1, split)
             fraction == SubSeq(places, 1, kept)
  <1>1. s \in Nat /\ x.value \in Int
    BY DEF Accumulated
  <1>2. /\ d \in Seq(0..9) /\ Len(d) \in Nat /\ Len(d) >= s + 1 /\ Number(d) = Magnitude(x)
        /\ Len(d) > s + 1 => d[1] # 0
    BY DigitsSpell, LenProperties
  <1>3. /\ Printed(x).whole = whole /\ Printed(x).fraction = fraction
        /\ Printed(x).point = (kept > 0) /\ Printed(x).negative = (x.value < 0)
    BY DEF Printed
  <1> HIDE DEF d, s
  <1>4. split \in 1..Len(d) /\ split \in Nat /\ Len(d) - split = s
    BY <1>1, <1>2
  <1>5. places \in Seq(0..9) /\ Len(places) = s
    <2>1. split + 1 \in 1..(Len(d) + 1) /\ Len(d) \in 0..Len(d) /\ split + 1 <= Len(d) + 1
          /\ Len(d) - (split + 1) + 1 = s
      BY <1>1, <1>2
    <2> QED
      BY <1>2, <2>1, PartOfDigits
  <1>6. /\ whole \in Seq(0..9) /\ Len(whole) = split
        /\ \A i \in 1..split : whole[i] = d[i]
    <2>1. 1 \in 1..(Len(d) + 1) /\ split \in 0..Len(d) /\ 1 <= split + 1
          /\ split - 1 + 1 = split /\ \A i \in 1..split : 1 + i - 1 = i
      BY <1>1, <1>2
    <2> QED
      BY <1>2, <2>1, PartOfDigits
  <1>7. Number(d) = Number(whole) * Tens[s] + Number(places)
    <2>1. split \in 0..Len(d)
      BY <1>4
    <2> QED
      BY <1>2, <1>4, <2>1, PartsOfDigits
  <1> HIDE DEF whole, places, split
  <1>8. DOMAIN places = 1..s
    BY <1>5, LenProperties
  <1>9. kept \in T /\ \A i \in T : kept >= i
    <2>1. T \in SUBSET (0..s) /\ T # {}
      BY <1>1, <1>8
    <2> HIDE DEF T
    <2> QED
      BY <1>1, <2>1, LastPosition
  <1>10. kept \in 0..s /\ (kept # 0 => places[kept] # 0)
         /\ \A i \in 1..s : i > kept => places[i] = 0
    <2>1. kept = 0 \/ (kept \in 1..s /\ places[kept] # 0)
      BY <1>8, <1>9
    <2>2. ASSUME NEW i \in 1..s, i > kept PROVE places[i] = 0
      <3>1. i \notin T
        BY <1>1, <1>9, <2>1, <2>2
      <3> QED
        BY <1>8, <3>1
    <2> QED
      BY <1>1, <2>1, <2>2
  <1> HIDE DEF kept, T
  <1>11. /\ fraction \in Seq(0..9) /\ Len(fraction) = kept
         /\ \A i \in 1..kept : fraction[i] = places[i]
    <2>1. 1 \in 1..(Len(places) + 1) /\ kept \in 0..Len(places) /\ 1 <= kept + 1
          /\ kept - 1 + 1 = kept /\ \A i \in 1..kept : 1 + i - 1 = i
      BY <1>1, <1>5, <1>10
    <2> QED
      BY <1>5, <2>1, PartOfDigits
  <1>12. Number(places) = Number(fraction) * Tens[s - kept]
    <2> DEFINE rest == SubSeq(places, kept + 1, s)
    <2>1. rest \in Seq(0..9) /\ \A i \in 1..Len(rest) : rest[i] = 0
      <3>1. kept + 1 \in 1..(Len(places) + 1) /\ s \in 0..Len(places) /\ kept + 1 <= s + 1
        BY <1>1, <1>5, <1>10
      <3>2. /\ rest \in Seq(0..9) /\ Len(rest) = s - (kept + 1) + 1
            /\ \A i \in 1..(s - (kept + 1) + 1) : rest[i] = places[(kept + 1) + i - 1]
        BY <1>5, <3>1, PartOfDigits
      <3>3. \A i \in 1..(s - (kept + 1) + 1) :
               (kept + 1) + i - 1 \in 1..s /\ (kept + 1) + i - 1 > kept
        BY <1>1, <1>10
      <3>4. \A i \in 1..(s - (kept + 1) + 1) : rest[i] = 0
        BY <1>10, <3>2, <3>3
      <3> QED
        BY <3>2, <3>4
    <2>2. Number(rest) = 0
      BY <2>1, NumberOfZeros
    <2>3. Number(places) = Number(fraction) * Tens[s - kept] + Number(rest)
      <3>1. kept \in 0..Len(places)
        BY <1>5, <1>10
      <3> QED
        BY <1>5, <3>1, PartsOfDigits
    <2> HIDE DEF rest, fraction
    <2>4. Number(fraction) \in Nat /\ Tens[s - kept] \in Nat
      <3>1. s - kept \in Nat
        BY <1>1, <1>10
      <3> QED
        BY <1>11, <3>1, NumberIsNatural, PowersAreNatural
    <2> DEFINE product == Number(fraction) * Tens[s - kept]
    <2>5. product \in Int
      BY <2>4
    <2> HIDE DEF product
    <2>6. Number(places) = product
      BY <2>2, <2>3, <2>5 DEF product
    <2> QED
      BY <2>6 DEF product
  <1> HIDE DEF fraction
  <1>13. whole = <<0>> \/ (whole # <<>> /\ whole[1] # 0)
    <2>1. whole[1] = d[1] /\ whole # <<>>
      BY <1>4, <1>6
    <2>2. CASE Len(d) > s + 1
      BY <1>2, <2>1, <2>2
    <2>3. CASE Len(d) = s + 1
      <3>1. split = 1
        BY <1>1, <2>3 DEF split
      <3>2. whole = <<whole[1]>>
        BY <1>6, <3>1
      <3> QED
        BY <2>1, <3>2
    <2> QED
      BY <1>1, <1>2, <2>2, <2>3
  <1>14. fraction # <<>> <=> kept > 0
    BY <1>10, <1>11, EmptySeq
  <1>15. Canonical(Printed(x))
    BY <1>3, <1>13, <1>14 DEF Canonical
  <1>16. fraction # <<>> => Last(fraction) # 0
    <2>1. kept > 0 => kept \in 1..kept /\ kept # 0
      BY <1>1, <1>10
    <2> QED
      BY <1>10, <1>11, <1>14, <2>1 DEF Last
  <1>17. Number(whole) * Tens[s] + Number(fraction) * Tens[s - kept] = Magnitude(x)
    BY <1>2, <1>7, <1>12
  <1>18. Len(fraction) <= s
    BY <1>1, <1>10, <1>11
  <1> QED
    BY <1>3, <1>6, <1>11, <1>15, <1>16, <1>17, <1>18 DEF s
-----------------------------------------------------------------------------
(***************************************************************************)
(* What was metered.                                                       *)
(***************************************************************************)

\* An amount of the contract's is a sign and digits.
Amounts == {a \in Spelled : AmountDecodes(a)}

\* They spell natural numbers.
LEMMA AmountsAreDigits ==
    ASSUME NEW a \in Amounts
    PROVE  /\ a.negative \in BOOLEAN /\ a.whole \in Seq(0..9) /\ a.fraction \in Seq(0..9)
           /\ Number(a.whole) \in Nat /\ Number(a.fraction) \in Nat /\ Len(a.fraction) \in Nat
  <1>1. a \in Text
    BY SessionAssumption DEF Amounts
  <1>2. a.negative \in BOOLEAN /\ a.whole \in Seq(0..9) /\ a.fraction \in Seq(0..9)
    BY <1>1 DEF Text
  <1> QED
    BY <1>2, NumberIsNatural, LenProperties

\* What is worth so much in one unit is worth ten times as much in the next.
LEMMA WorthIsRefined ==
    ASSUME NEW a \in Amounts, NEW p \in Nat, NEW k \in Nat, Len(a.fraction) <= p
    PROVE  Worth(a, p) \in Int /\ Worth(a, p + k) = Worth(a, p) * Tens[k]
  <1> DEFINE v == Number(a.whole)
             u == Number(a.fraction)
             x == Tens[p]
             y == Tens[p - Len(a.fraction)]
             t == Tens[k]
             sign == IF a.negative THEN -1 ELSE 1
  <1>1. v \in Nat /\ u \in Nat /\ Len(a.fraction) \in Nat
    BY AmountsAreDigits
  <1>2. p - Len(a.fraction) \in Nat /\ (p + k) - Len(a.fraction) = (p - Len(a.fraction)) + k
    BY <1>1
  <1>3. x \in Nat /\ y \in Nat /\ t \in Nat
    BY <1>2, PowersAreNatural
  <1>4. Tens[p + k] = x * t /\ Tens[(p + k) - Len(a.fraction)] = y * t
    BY <1>2, PowersMultiply
  <1>5. sign \in Int
    OBVIOUS
  <1>6. Worth(a, p) = sign * (v * x + u * y) /\ Worth(a, p + k) = sign * (v * (x * t) + u * (y * t))
    BY <1>4 DEF Worth
  <1> HIDE DEF v, u, x, y, t, sign
  <1>7. sign * (v * (x * t) + u * (y * t)) = (sign * (v * x + u * y)) * t
    <2>1. v * (x * t) = (v * x) * t /\ u * (y * t) = (u * y) * t
      BY <1>1, <1>3
    <2> DEFINE b == v * x
               c == u * y
    <2>2. b \in Int /\ c \in Int
      BY <1>1, <1>3
    <2> HIDE DEF b, c
    <2>3. sign * (b * t + c * t) = (sign * (b + c)) * t
      BY <1>3, <1>5, <2>2
    <2> QED
      BY <2>1, <2>3 DEF b, c
  <1>8. sign * (v * x + u * y) \in Int
    BY <1>1, <1>3, <1>5
  <1> QED
    BY <1>6, <1>7, <1>8 DEF t

\* parseDecimal reads an amount as what it is worth at its own scale.
LEMMA ReadIsWorth ==
    ASSUME NEW a \in Amounts
    PROVE  /\ Read(a) \in Accumulated /\ Read(a).scale = Len(a.fraction)
           /\ Read(a).value = Worth(a, Len(a.fraction))
  <1> DEFINE n == Len(a.fraction)
             sign == IF a.negative THEN -1 ELSE 1
  <1>1. /\ a.whole \in Seq(0..9) /\ a.fraction \in Seq(0..9)
        /\ Number(a.whole) \in Nat /\ Number(a.fraction) \in Nat /\ n \in Nat
    BY AmountsAreDigits
  <1>2. Number(a.whole \o a.fraction) = Number(a.whole) * Tens[n] + Number(a.fraction)
    BY <1>1, NumberOfJoined
  <1>3. Tens[n - n] = 1
    <2>1. n - n = 0
      BY <1>1
    <2> QED
      BY <2>1, PowersOfTen
  <1>4. Number(a.fraction) * 1 = Number(a.fraction)
    BY <1>1
  <1>5. Worth(a, n) = sign * (Number(a.whole) * Tens[n] + Number(a.fraction))
    BY <1>3, <1>4 DEF Worth
  <1>6. Read(a).value = sign * Number(a.whole \o a.fraction) /\ Read(a).scale = n
    BY DEF Read
  <1>7. Read(a).value = Worth(a, n)
    BY <1>2, <1>5, <1>6
  <1>8. Worth(a, n) \in Int
    <2>1. 0 \in Nat /\ n <= n
      BY <1>1
    <2> QED
      BY <1>1, <2>1, WorthIsRefined
  <1>9. Read(a) = [value |-> Read(a).value, scale |-> Read(a).scale]
    BY DEF Read
  <1> HIDE DEF n, sign
  <1>10. Read(a) \in Accumulated
    BY <1>1, <1>6, <1>7, <1>8, <1>9 DEF Accumulated
  <1> QED
    BY <1>6, <1>7, <1>10 DEF n

\* What the ith cost adds, and g[i], what the first i of them come to.
Adding(costs, c, p, i) == IF i \in In(c, costs) THEN Worth(costs[i].amount, p) ELSE 0
Sums(g, costs, c, p) ==
    g[0] = 0 /\ \A i \in 1..Len(costs) : g[i] = g[i - 1] + Adding(costs, c, p, i)

\* Every cost in a currency has its fraction within so many places.
Within(costs, c, p) == \A i \in In(c, costs) : Len(costs[i].amount.fraction) <= p

\* Each adds a whole number of units, where the unit is small enough.
LEMMA AddingIsInteger ==
    ASSUME NEW costs \in Seq(Costs), NEW c, NEW p \in Nat, Within(costs, c, p), NEW i
    PROVE  Adding(costs, c, p, i) \in Int
  <1>1. CASE i \in In(c, costs)
    <2>1. i \in 1..Len(costs) /\ Len(costs[i].amount.fraction) <= p
      BY <1>1 DEF In, Within
    <2>2. costs[i].amount \in Amounts
      <3>1. costs[i] \in Costs
        BY <2>1, ElementOfSeq
      <3> QED
        BY <3>1 DEF Costs, Amounts
    <2>3. Worth(costs[i].amount, p) \in Int
      <3>1. 0 \in Nat
        OBVIOUS
      <3> QED
        BY <2>1, <2>2, <3>1, WorthIsRefined
    <2> QED
      BY <1>1, <2>3 DEF Adding
  <1>2. CASE i \notin In(c, costs)
    BY <1>2 DEF Adding
  <1> QED
    BY <1>1, <1>2

\* Every sequence of costs is summed.
LEMMA SumsExist ==
    ASSUME NEW costs \in Seq(Costs), NEW c, NEW p \in Nat, Within(costs, c, p)
    PROVE  \E g \in [Nat -> Int] : Sums(g, costs, c, p)
  <1> DEFINE step == [n \in Nat |-> [v \in Int |-> v + Adding(costs, c, p, n + 1)]]
  <1>1. Len(costs) \in Nat
    BY LenProperties
  <1>2. step \in [Nat -> [Int -> Int]]
    <2>1. ASSUME NEW n \in Nat, NEW v \in Int PROVE v + Adding(costs, c, p, n + 1) \in Int
      <3>1. Adding(costs, c, p, n + 1) \in Int
        BY AddingIsInteger
      <3> QED
        BY <3>1
    <2> QED
      BY <2>1
  <1>3. \A n \in Nat, v \in Int : step[n][v] = v + Adding(costs, c, p, n + 1)
    OBVIOUS
  <1> HIDE DEF step
  <1>4. PICK g : Follows(g, Int, 0, step)
    <2>1. 0 \in Int
      OBVIOUS
    <2> QED
      BY <1>2, <2>1, SequenceExists
  <1>5. g \in [Nat -> Int] /\ g[0] = 0 /\ \A n \in Nat : g[n + 1] = step[n][g[n]]
    BY <1>4 DEF Follows
  <1>6. ASSUME NEW i \in 1..Len(costs) PROVE g[i] = g[i - 1] + Adding(costs, c, p, i)
    <2>1. i - 1 \in Nat /\ (i - 1) + 1 = i
      BY <1>1
    <2>2. g[(i - 1) + 1] = step[i - 1][g[i - 1]] /\ g[i - 1] \in Int
      BY <1>5, <2>1
    <2> QED
      BY <1>3, <2>1, <2>2
  <1> QED
    BY <1>5, <1>6 DEF Sums

\* It is summed in one way.
LEMMA SumsAgree ==
    ASSUME NEW costs \in Seq(Costs), NEW c, NEW p, NEW f, NEW g,
           Sums(f, costs, c, p), Sums(g, costs, c, p)
    PROVE  f[Len(costs)] = g[Len(costs)]
  <1> DEFINE S == {i \in 0..Len(costs) : f[i] = g[i]}
  <1>1. Len(costs) \in Nat
    BY LenProperties
  <1>2. 0 \in S
    BY <1>1 DEF Sums
  <1>3. ASSUME NEW i \in 0..(Len(costs) - 1), i \in S PROVE i + 1 \in S
    <2>1. i + 1 \in 1..Len(costs) /\ i + 1 \in 0..Len(costs) /\ (i + 1) - 1 = i
      BY <1>1
    <2>2. f[i + 1] = f[i] + Adding(costs, c, p, i + 1) /\ g[i + 1] = g[i] + Adding(costs, c, p, i + 1)
      BY <2>1 DEF Sums
    <2> QED
      BY <1>3, <2>1, <2>2
  <1> HIDE DEF S
  <1>4. 0..Len(costs) \subseteq S
    BY <1>1, <1>2, <1>3, UpFromZero
  <1>5. Len(costs) \in 0..Len(costs)
    BY <1>1
  <1> QED
    BY <1>4, <1>5 DEF S

\* The total is what summing comes to.
LEMMA TotalIsTheSum ==
    ASSUME NEW costs \in Seq(Costs), NEW c, NEW p, NEW g, Sums(g, costs, c, p)
    PROVE  Total(costs, c, p) = g[Len(costs)]
  <1> DEFINE Upon(f) == f = [i \in 0..Len(costs) |->
                                IF i = 0 THEN 0
                                ELSE f[i - 1] + IF i \in In(c, costs)
                                                THEN Worth(costs[i].amount, p) ELSE 0]
             chosen == CHOOSE f : Upon(f)
             g0 == [i \in 0..Len(costs) |-> g[i]]
  <1>1. Len(costs) \in Nat
    BY LenProperties
  <1>2. Upon(g0)
    <2>1. ASSUME NEW i \in 0..Len(costs)
          PROVE  g0[i] = IF i = 0 THEN 0 ELSE g0[i - 1] + Adding(costs, c, p, i)
      <3>1. i # 0 => i \in 1..Len(costs) /\ i - 1 \in 0..Len(costs)
        BY <1>1
      <3> QED
        BY <3>1 DEF Sums
    <2> QED
      BY <2>1 DEF Adding
  <1>3. Upon(chosen)
    BY <1>2
  <1>4. Total(costs, c, p) = chosen[Len(costs)]
    BY DEF Total
  <1> HIDE DEF chosen
  <1>5. \A i \in 0..Len(costs) :
           chosen[i] = IF i = 0 THEN 0 ELSE chosen[i - 1] + Adding(costs, c, p, i)
    BY <1>3 DEF Adding
  <1> HIDE DEF Upon
  <1>6. Sums(chosen, costs, c, p)
    <2>1. chosen[0] = 0
      BY <1>1, <1>5
    <2>2. \A i \in 1..Len(costs) : i \in 0..Len(costs) /\ i # 0
      BY <1>1
    <2> QED
      BY <1>5, <2>1, <2>2 DEF Sums
  <1> QED
    BY <1>4, <1>6, SumsAgree

\* One cost more, in the currency or in another.
LEMMA OneCostMore ==
    ASSUME NEW costs \in Seq(Costs), NEW cost \in Costs, NEW c
    PROVE  /\ Append(costs, cost) \in Seq(Costs) /\ Len(Append(costs, cost)) = Len(costs) + 1
           /\ \A i \in 1..Len(costs) : Append(costs, cost)[i] = costs[i]
           /\ Append(costs, cost)[Len(costs) + 1] = cost
           /\ In(c, Append(costs, cost)) =
                 In(c, costs) \cup IF cost.currency = c THEN {Len(costs) + 1} ELSE {}
  <1> DEFINE more == Append(costs, cost)
             n == Len(costs)
  <1>1. n \in Nat
    BY LenProperties
  <1>2. /\ more \in Seq(Costs) /\ Len(more) = n + 1
        /\ \A i \in 1..n : more[i] = costs[i]
        /\ more[n + 1] = cost
    BY AppendProperties
  <1> HIDE DEF more
  <1>3. \A i : i \in In(c, more) <=> i \in 1..(n + 1) /\ more[i].currency = c
    BY <1>2 DEF In
  <1>4. \A i : i \in In(c, costs) <=> i \in 1..n /\ costs[i].currency = c
    BY DEF In
  <1>5. \A i : i \in 1..(n + 1) <=> i \in 1..n \/ i = n + 1
    BY <1>1
  <1>6. n + 1 \notin 1..n
    BY <1>1
  <1> HIDE DEF n
  <1>7. \A i : i \in In(c, more) <=> i \in In(c, costs) \/ (i = n + 1 /\ cost.currency = c)
    BY <1>2, <1>3, <1>4, <1>5, <1>6
  <1>8. In(c, more) = In(c, costs) \cup IF cost.currency = c THEN {n + 1} ELSE {}
    BY <1>7
  <1> QED
    BY <1>2, <1>8 DEF more, n

\* A cost in the currency is added to the total, and another is not.
LEMMA TotalOfMore ==
    ASSUME NEW costs \in Seq(Costs), NEW cost \in Costs, NEW c, NEW p \in Nat,
           Within(costs, c, p), cost.currency = c => Len(cost.amount.fraction) <= p
    PROVE  /\ Total(costs, c, p) \in Int
           /\ Total(Append(costs, cost), c, p) =
                 Total(costs, c, p) + IF cost.currency = c THEN Worth(cost.amount, p) ELSE 0
  <1> DEFINE more == Append(costs, cost)
             n == Len(costs)
             last == IF cost.currency = c THEN Worth(cost.amount, p) ELSE 0
  <1>1. PICK g \in [Nat -> Int] : Sums(g, costs, c, p)
    BY SumsExist
  <1>2. /\ more \in Seq(Costs) /\ Len(more) = n + 1
        /\ \A i \in 1..n : more[i] = costs[i]
        /\ more[n + 1] = cost
        /\ In(c, more) = In(c, costs) \cup IF cost.currency = c THEN {n + 1} ELSE {}
    BY OneCostMore
  <1>3. n \in Nat /\ n + 1 \notin 1..n
    <2>1. n \in Nat
      BY LenProperties
    <2> QED
      BY <2>1
  <1> HIDE DEF more
  <1>4. \A i \in 1..n : Adding(more, c, p, i) = Adding(costs, c, p, i)
    BY <1>2, <1>3 DEF Adding
  <1>5. Adding(more, c, p, n + 1) = last
    <2>1. n + 1 \notin In(c, costs)
      BY <1>3 DEF In
    <2> QED
      BY <1>2, <2>1 DEF Adding
  <1>6. Total(costs, c, p) = g[n] /\ g[n] \in Int
    BY <1>1, <1>3, TotalIsTheSum
  <1>7. g[0] = 0 /\ \A i \in 1..n : g[i] = g[i - 1] + Adding(costs, c, p, i)
    BY <1>1 DEF Sums
  <1> DEFINE h == [i \in 0..(n + 1) |-> IF i = n + 1 THEN g[n] + last ELSE g[i]]
  <1> HIDE DEF n, last
  <1>8. h[n + 1] = g[n] + last /\ \A i \in 0..n : h[i] = g[i]
    BY <1>3
  <1> HIDE DEF h
  <1>9. Sums(h, more, c, p)
    <2>1. h[0] = 0
      BY <1>3, <1>7, <1>8
    <2>2. ASSUME NEW i \in 1..(n + 1) PROVE h[i] = h[i - 1] + Adding(more, c, p, i)
      <3>1. CASE i = n + 1
        <4>1. i - 1 = n /\ n \in 0..n
          BY <1>3, <3>1
        <4> QED
          BY <1>5, <1>8, <3>1, <4>1
      <3>2. CASE i # n + 1
        <4>1. i \in 1..n /\ i \in 0..n /\ i - 1 \in 0..n
          BY <1>3, <3>2
        <4> QED
          BY <1>4, <1>7, <1>8, <4>1
      <3> QED
        BY <3>1, <3>2
    <2> QED
      BY <1>2, <2>1, <2>2 DEF Sums
  <1>10. Total(more, c, p) = h[n + 1]
    BY <1>2, <1>9, TotalIsTheSum
  <1> QED
    BY <1>6, <1>8, <1>10 DEF more, last

\* A total comes to ten times as much in the next unit.
LEMMA TotalIsRefined ==
    ASSUME NEW costs \in Seq(Costs), NEW c, NEW p \in Nat, NEW k \in Nat, Within(costs, c, p)
    PROVE  Total(costs, c, p + k) = Total(costs, c, p) * Tens[k]
  <1> DEFINE n == Len(costs)
             t == Tens[k]
  <1>1. PICK g \in [Nat -> Int] : Sums(g, costs, c, p)
    BY SumsExist
  <1>2. n \in Nat /\ t \in Nat
    BY LenProperties, PowersAreNatural
  <1>3. g[0] = 0 /\ \A i \in 1..n : g[i] = g[i - 1] + Adding(costs, c, p, i)
    BY <1>1 DEF Sums
  <1>4. Total(costs, c, p) = g[n]
    BY <1>1, TotalIsTheSum
  <1>5. ASSUME NEW i
        PROVE  Adding(costs, c, p + k, i) = Adding(costs, c, p, i) * t
    <2>1. CASE i \in In(c, costs)
      <3>1. i \in 1..n /\ Len(costs[i].amount.fraction) <= p
        BY <2>1 DEF In, Within
      <3>2. costs[i].amount \in Amounts
        <4>1. costs[i] \in Costs
          BY <3>1, ElementOfSeq
        <4> QED
          BY <4>1 DEF Costs, Amounts
      <3>3. Worth(costs[i].amount, p + k) = Worth(costs[i].amount, p) * t
        BY <3>1, <3>2, WorthIsRefined
      <3> QED
        BY <2>1, <3>3 DEF Adding
    <2>2. CASE i \notin In(c, costs)
      <3>1. 0 = 0 * t
        BY <1>2
      <3> QED
        BY <2>2, <3>1 DEF Adding
    <2> QED
      BY <2>1, <2>2
  <1> DEFINE h == [i \in 0..n |-> g[i] * t]
  <1> HIDE DEF t
  <1>6. Sums(h, costs, c, p + k)
    <2>1. h[0] = 0
      <3>1. 0 \in 0..n /\ 0 * t = 0
        BY <1>2
      <3> QED
        BY <1>3, <3>1
    <2>2. ASSUME NEW i \in 1..n PROVE h[i] = h[i - 1] + Adding(costs, c, p + k, i)
      <3> DEFINE a == g[i - 1]
                 b == Adding(costs, c, p, i)
      <3>1. i \in 0..n /\ i - 1 \in 0..n /\ i - 1 \in Nat
        BY <1>2
      <3>2. h[i] = g[i] * t /\ h[i - 1] = a * t
        BY <3>1
      <3>3. g[i] = a + b /\ Adding(costs, c, p + k, i) = b * t
        BY <1>3, <1>5
      <3>4. a \in Int /\ b \in Int
        BY <3>1, AddingIsInteger
      <3> HIDE DEF a, b, h
      <3>5. (a + b) * t = a * t + b * t
        BY <1>2, <3>4
      <3> QED
        BY <3>2, <3>3, <3>5
    <2> QED
      BY <2>1, <2>2 DEF Sums
  <1>7. h[n] = g[n] * t
    <2>1. n \in 0..n
      BY <1>2
    <2> QED
      BY <2>1
  <1>8. Total(costs, c, p + k) = h[n]
    BY <1>6, TotalIsTheSum
  <1> QED
    BY <1>4, <1>7, <1>8 DEF t

\* No costs come to nothing.
LEMMA NothingComesToNothing ==
    ASSUME NEW c, NEW p
    PROVE  Total(<<>>, c, p) = 0 /\ In(c, <<>>) = {} /\ <<>> \in Seq(Costs)
  <1> DEFINE g == [i \in 0..0 |-> 0]
  <1>1. <<>> \in Seq(Costs) /\ Len(<<>>) = 0
    OBVIOUS
  <1>2. Sums(g, <<>>, c, p)
    BY <1>1 DEF Sums
  <1>3. In(c, <<>>) = {}
    BY <1>1 DEF In
  <1>4. Total(<<>>, c, p) = g[0]
    BY <1>1, <1>2, TotalIsTheSum
  <1> QED
    BY <1>1, <1>3, <1>4

\* What was accumulated is the total of the costs metered in the attempt's
\* currency, at the finest scale of any of them.
SpentIsTheTotal ==
    /\ metered = <<>> => spent = None /\ currency = None
    /\ metered # <<>> =>
          /\ currency = metered[1].currency
          /\ spent \in Accumulated
          /\ Within(metered, currency, spent.scale)
          /\ \/ spent.scale = 0
             \/ \E i \in In(currency, metered) : Len(metered[i].amount.fraction) = spent.scale
          /\ spent.value = Total(metered, currency, spent.scale)

\* The most places of any cost, where some cost has them and none has more.
LEMMA FinestIs ==
    ASSUME NEW costs \in Seq(Costs), NEW c, NEW p \in Nat, Within(costs, c, p),
           p = 0 \/ \E i \in In(c, costs) : Len(costs[i].amount.fraction) = p
    PROVE  Finest(costs, c) = p
  <1> DEFINE T == {0} \cup {Len(costs[i].amount.fraction) : i \in In(c, costs)}
  <1>1. p \in T
    OBVIOUS
  <1>2. \A y \in T : y \in Nat /\ y <= p
    <2> TAKE y \in T
    <2>1. CASE y = 0
      BY <2>1
    <2>2. CASE y # 0
      <3>1. PICK i \in In(c, costs) : y = Len(costs[i].amount.fraction)
        BY <2>2
      <3>2. i \in 1..Len(costs)
        BY DEF In
      <3>3. costs[i].amount \in Amounts
        <4>1. costs[i] \in Costs
          BY <3>2, ElementOfSeq
        <4> QED
          BY <4>1 DEF Costs, Amounts
      <3>4. y \in Nat
        BY <3>1, <3>3, AmountsAreDigits
      <3> QED
        BY <3>1, <3>4 DEF Within
    <2> QED
      BY <2>1, <2>2
  <1> HIDE DEF T
  <1>3. \E x \in T : \A y \in T : x >= y
    BY <1>1, <1>2
  <1>4. Max(T) \in T /\ \A y \in T : Max(T) >= y
    BY <1>3 DEF Max
  <1>5. Max(T) = p
    <2> DEFINE m == Max(T)
    <2>1. m \in Nat /\ m <= p /\ m >= p
      BY <1>1, <1>2, <1>4
    <2> HIDE DEF m
    <2>2. m = p
      BY <2>1
    <2> QED
      BY <2>2 DEF m
  <1> QED
    BY <1>5 DEF Finest, T

\* Adding an amount to a total gives the total with it, at the finer scale.
LEMMA PlusIsTheTotal ==
    ASSUME NEW costs \in Seq(Costs), NEW c, NEW x \in Accumulated, NEW cost \in Costs,
           Within(costs, c, x.scale), x.value = Total(costs, c, x.scale), cost.currency = c
    PROVE  LET sum == Plus(x, Read(cost.amount)) IN
           /\ sum \in Accumulated
           /\ sum.scale >= x.scale /\ sum.scale >= Len(cost.amount.fraction)
           /\ sum.scale = x.scale \/ sum.scale = Len(cost.amount.fraction)
           /\ sum.value = Total(Append(costs, cost), c, sum.scale)
  <1> DEFINE a == cost.amount
             s == x.scale
             n == Len(a.fraction)
             common == Max({s, n})
             sum == Plus(x, Read(a))
  <1>1. a \in Amounts
    BY DEF Costs, Amounts
  <1>2. s \in Nat /\ n \in Nat /\ x.value \in Int
    BY <1>1, AmountsAreDigits DEF Accumulated
  <1>3. common \in {s, n} /\ common >= s /\ common >= n /\ common \in Nat
    <2>1. \E m \in {s, n} : \A y \in {s, n} : m >= y
      BY <1>2
    <2>2. common \in {s, n} /\ \A y \in {s, n} : common >= y
      BY <2>1 DEF Max
    <2> QED
      BY <1>2, <2>2
  <1>4. Read(a) \in Accumulated /\ Read(a).scale = n /\ Read(a).value = Worth(a, n)
    BY <1>1, ReadIsWorth
  <1>5. /\ sum = [value |-> x.value * Tens[common - s] + Worth(a, n) * Tens[common - n],
                  scale |-> common]
    BY <1>4 DEF Plus
  <1> HIDE DEF a, s, n, common, sum
  <1>6. common - s \in Nat /\ common - n \in Nat /\ s + (common - s) = common
        /\ n + (common - n) = common
    BY <1>2, <1>3
  <1>7. Total(costs, c, common) = x.value * Tens[common - s]
    <2>1. Within(costs, c, s) /\ x.value = Total(costs, c, s)
      BY DEF s
    <2> DEFINE k == common - s
    <2>2. k \in Nat /\ s + k = common
      BY <1>6
    <2> HIDE DEF k
    <2>3. Total(costs, c, s + k) = Total(costs, c, s) * Tens[k]
      BY <1>2, <2>1, <2>2, TotalIsRefined
    <2>4. Total(costs, c, common) = x.value * Tens[k]
      BY <2>1, <2>2, <2>3
    <2> QED
      BY <2>4 DEF k
  <1>8. Worth(a, common) = Worth(a, n) * Tens[common - n]
    <2>1. Len(a.fraction) <= n
      BY <1>2 DEF n
    <2> DEFINE k == common - n
    <2>2. k \in Nat /\ n + k = common
      BY <1>6
    <2> HIDE DEF k
    <2>3. Worth(a, n + k) = Worth(a, n) * Tens[k]
      BY <1>1, <1>2, <2>1, <2>2, WorthIsRefined
    <2>4. Worth(a, common) = Worth(a, n) * Tens[k]
      BY <2>2, <2>3
    <2> QED
      BY <2>4 DEF k
  <1>9. Within(costs, c, common)
    <2> SUFFICES ASSUME NEW i \in In(c, costs) PROVE Len(costs[i].amount.fraction) <= common
      BY DEF Within
    <2>1. i \in 1..Len(costs) /\ Len(costs[i].amount.fraction) <= s
      BY DEF In, Within, s
    <2>2. costs[i].amount \in Amounts
      <3>1. costs[i] \in Costs
        BY <2>1, ElementOfSeq
      <3> QED
        BY <3>1 DEF Costs, Amounts
    <2>3. Len(costs[i].amount.fraction) \in Nat
      BY <2>2, AmountsAreDigits
    <2> QED
      BY <1>2, <1>3, <2>1, <2>3
  <1>10. /\ Total(costs, c, common) \in Int
         /\ Total(Append(costs, cost), c, common) = Total(costs, c, common) + Worth(a, common)
    <2>1. Len(cost.amount.fraction) <= common
      BY <1>3 DEF n, a
    <2> QED
      BY <1>3, <1>9, <2>1, TotalOfMore DEF a
  <1>11. Worth(a, common) \in Int
    <2>1. 0 \in Nat /\ Len(a.fraction) <= common
      BY <1>3 DEF n
    <2> QED
      BY <1>1, <1>3, <2>1, WorthIsRefined
  <1>12. sum.value = Total(Append(costs, cost), c, common) /\ sum.scale = common
    BY <1>5, <1>7, <1>8, <1>10
  <1>13. sum \in Accumulated
    <2>1. Total(costs, c, common) + Worth(a, common) \in Int
      BY <1>10, <1>11
    <2> QED
      BY <1>3, <1>5, <1>7, <1>8, <2>1 DEF Accumulated
  <1> QED
    BY <1>3, <1>12, <1>13 DEF a, s, n, sum

\* A metered cost is the first, or one in another currency, or is added.
LEMMA MeterKeepsTheTotal ==
    ASSUME IInv, SpentIsTheTotal, NEW amount \in Spelled, NEW named \in Currency,
           AmountDecodes(amount), Meter([amount |-> amount, currency |-> named])
    PROVE  SpentIsTheTotal'
  <1> DEFINE cost == [amount |-> amount, currency |-> named]
  <1>1. amount \in Amounts /\ cost \in Costs /\ cost.currency = named /\ cost.amount = amount
    BY DEF Costs, Amounts
  <1>2. /\ metered' = Append(metered, cost)
        /\ currency' = IF currency = None THEN named ELSE currency
        /\ named = currency' =>
              spent' = IF spent = None THEN Read(amount) ELSE Plus(spent, Read(amount))
        /\ named # currency' => spent' = spent
    BY DecodedIsReadable DEF Meter, Add
  <1> HIDE DEF cost
  <1>3. metered \in Seq(Costs) /\ Len(metered) \in Nat
    BY LenProperties DEF IInv, CurrencyIsTheFirst
  <1>4. /\ metered' \in Seq(Costs) /\ Len(metered') = Len(metered) + 1
        /\ \A i \in 1..Len(metered) : metered'[i] = metered[i]
        /\ metered'[Len(metered) + 1] = cost
        /\ \A c : In(c, metered') = In(c, metered) \cup IF named = c THEN {Len(metered) + 1} ELSE {}
    BY <1>1, <1>2, <1>3, OneCostMore
  <1>5. metered' # <<>>
    BY <1>3, <1>4
  <1>6. CASE metered = <<>>
    <2>1. Len(metered) + 1 = 1
      BY <1>6
    <2>2. currency' = named /\ spent' = Read(amount)
      BY <1>2, <1>6 DEF SpentIsTheTotal
    <2>3. In(named, metered') = {1} /\ metered'[1] = cost
      <3>1. In(named, metered) = {}
        BY <1>6, NothingComesToNothing
      <3> QED
        BY <1>4, <2>1, <3>1
    <2> DEFINE n == Len(amount.fraction)
    <2>4. /\ Read(amount) \in Accumulated /\ Read(amount).scale = n
          /\ Read(amount).value = Worth(amount, n) /\ n \in Nat
      BY <1>1, ReadIsWorth, AmountsAreDigits
    <2>5. Total(metered', named, n) = Worth(amount, n)
      <3>1. Within(metered, named, n)
        <4>1. In(named, metered) = {}
          BY <1>6, NothingComesToNothing
        <4> QED
          BY <4>1 DEF Within
      <3>2. Total(metered, named, n) = 0
        BY <1>6, NothingComesToNothing
      <3>3. Total(metered', named, n) = Total(metered, named, n) + Worth(amount, n)
        <4>1. Len(cost.amount.fraction) <= n
          BY <1>1, <2>4
        <4> QED
          BY <1>1, <1>2, <1>3, <2>4, <3>1, <4>1, TotalOfMore
      <3>4. Worth(amount, n) \in Int
        BY <2>4 DEF Accumulated
      <3> QED
        BY <3>2, <3>3, <3>4
    <2>6. Within(metered', named, n)
      BY <1>1, <2>3, <2>4 DEF Within
    <2>7. Len(metered'[1].amount.fraction) = n
      BY <1>1, <2>3
    <2> HIDE DEF n
    <2> QED
      BY <1>1, <1>5, <2>2, <2>3, <2>4, <2>5, <2>6, <2>7 DEF SpentIsTheTotal
  <1>7. CASE metered # <<>>
    <2>1. /\ currency = metered[1].currency /\ spent \in Accumulated
          /\ Within(metered, currency, spent.scale)
          /\ \/ spent.scale = 0
             \/ \E i \in In(currency, metered) : Len(metered[i].amount.fraction) = spent.scale
          /\ spent.value = Total(metered, currency, spent.scale)
      BY <1>7 DEF SpentIsTheTotal
    <2>2. currency' = currency /\ spent # None
      <3>1. currency \in Currency /\ currency # None
        BY <1>7, SessionAssumption DEF IInv, CurrencyIsTheFirst
      <3>2. spent # None
        BY <2>1, TotalAssumption DEF Accumulated
      <3> QED
        BY <1>2, <3>1, <3>2
    <2>3. 1 \in 1..Len(metered) /\ metered'[1] = metered[1]
      <3>1. Len(metered) # 0
        BY <1>3, <1>7, EmptySeq
      <3>2. 1 \in 1..Len(metered)
        BY <1>3, <3>1
      <3> QED
        BY <1>4, <3>2
    <2>4. spent.scale \in Nat
      BY <2>1 DEF Accumulated
    <2>5. \A i \in In(currency, metered) : metered'[i] = metered[i]
      BY <1>4 DEF In
    <2>6. CASE named # currency
      <3>1. spent' = spent
        BY <1>2, <2>2, <2>6
      <3>2. In(currency, metered') = In(currency, metered)
        BY <1>4, <2>6
      <3>3. Total(metered', currency, spent.scale) = Total(metered, currency, spent.scale)
        <4>1. cost.currency # currency
          BY <1>1, <2>6
        <4>2. /\ Total(metered, currency, spent.scale) \in Int
              /\ Total(metered', currency, spent.scale) = Total(metered, currency, spent.scale) + 0
          BY <1>1, <1>2, <1>3, <2>1, <2>4, <4>1, TotalOfMore
        <4> QED
          BY <4>2
      <3>4. Within(metered', currency, spent.scale)
        BY <2>1, <2>5, <3>2 DEF Within
      <3> QED
        BY <1>5, <2>1, <2>2, <2>3, <2>5, <3>1, <3>2, <3>3, <3>4 DEF SpentIsTheTotal
    <2>7. CASE named = currency
      <3> DEFINE sum == Plus(spent, Read(amount))
                 n == Len(amount.fraction)
      <3>1. spent' = sum
        BY <1>2, <2>2, <2>7
      <3>2. /\ sum \in Accumulated
            /\ sum.scale >= spent.scale /\ sum.scale >= n
            /\ sum.scale = spent.scale \/ sum.scale = n
            /\ sum.value = Total(metered', currency, sum.scale)
        <4> DEFINE total == Plus(spent, Read(cost.amount))
        <4>1. /\ total \in Accumulated
              /\ total.scale >= spent.scale /\ total.scale >= Len(cost.amount.fraction)
              /\ total.scale = spent.scale \/ total.scale = Len(cost.amount.fraction)
              /\ total.value = Total(Append(metered, cost), currency, total.scale)
          <5>1. cost \in Costs /\ cost.currency = currency
            BY <1>1, <2>7
          <5>2. Within(metered, currency, spent.scale)
                /\ spent.value = Total(metered, currency, spent.scale) /\ spent \in Accumulated
            BY <2>1
          <5> QED
            BY <1>3, <5>1, <5>2, PlusIsTheTotal, Zenon
        <4>2. total = sum /\ Len(cost.amount.fraction) = n
          BY <1>1
        <4> HIDE DEF total, sum, n
        <4> QED
          BY <1>2, <4>1, <4>2
      <3> HIDE DEF sum
      <3>3. sum.scale \in Nat
        BY <3>2 DEF Accumulated
      <3>4. In(currency, metered') = In(currency, metered) \cup {Len(metered) + 1}
        BY <1>4, <2>7
      <3>5. Within(metered', currency, sum.scale)
        <4> SUFFICES ASSUME NEW i \in In(currency, metered')
                     PROVE  Len(metered'[i].amount.fraction) <= sum.scale
          BY DEF Within
        <4>1. CASE i = Len(metered) + 1
          <5>1. Len(metered'[i].amount.fraction) = n /\ n \in Nat
            BY <1>1, <1>4, <4>1, AmountsAreDigits
          <5> QED
            BY <3>2, <3>3, <5>1
        <4>2. CASE i \in In(currency, metered)
          <5>1. metered[i] \in Costs
            BY <1>3, <4>2, ElementOfSeq DEF In
          <5>2. metered[i].amount \in Amounts
            BY <5>1 DEF Costs, Amounts
          <5>3. Len(metered[i].amount.fraction) \in Nat
            BY <5>2, AmountsAreDigits
          <5>4. Len(metered[i].amount.fraction) <= spent.scale
            BY <2>1, <4>2 DEF Within
          <5> QED
            BY <2>4, <2>5, <3>2, <3>3, <4>2, <5>3, <5>4
        <4> QED
          BY <3>4, <4>1, <4>2
      <3>6. \/ sum.scale = 0
            \/ \E i \in In(currency, metered') : Len(metered'[i].amount.fraction) = sum.scale
        <4>1. CASE sum.scale = n
          <5>1. Len(metered) + 1 \in In(currency, metered')
            BY <3>4
          <5>2. Len(metered'[Len(metered) + 1].amount.fraction) = n
            BY <1>1, <1>4
          <5> QED
            BY <4>1, <5>1, <5>2
        <4>2. CASE sum.scale = spent.scale
          BY <2>1, <2>5, <3>4, <4>2
        <4> QED
          BY <3>2, <4>1, <4>2
      <3> QED
        BY <1>5, <2>1, <2>2, <2>3, <3>1, <3>2, <3>5, <3>6 DEF SpentIsTheTotal
    <2> QED
      BY <2>6, <2>7
  <1> QED
    BY <1>6, <1>7

\* The amount of no cost at all.
LEMMA ZeroIsCanonical ==
    /\ Worth(Zero, 0) = 0 /\ Canonical(Zero) /\ Zero.fraction = <<>> /\ Zero.negative = FALSE
  <1>1. /\ Zero.whole = <<0>> /\ Zero.fraction = <<>> /\ Zero.negative = FALSE
        /\ Zero.point = FALSE
    BY DEF Zero
  <1>2. Number(<<0>>) = 0
    <2>1. <<0>> \in Seq(0..9) /\ Len(<<0>>) = 1 /\ <<0>>[1] = 0
      OBVIOUS
    <2>2. \A i \in 1..Len(<<0>>) : <<0>>[i] = 0
      BY <2>1
    <2> QED
      BY <2>1, <2>2, NumberOfZeros
  <1>3. Number(<<>>) = 0
    <2>1. <<>> \in Seq(0..9) /\ Len(<<>>) = 0
      OBVIOUS
    <2>2. \A i \in 1..Len(<<>>) : <<>>[i] = 0
      BY <2>1
    <2> QED
      BY <2>1, <2>2, NumberOfZeros
  <1>4. Tens[0] = 1 /\ Tens[0 - Len(<<>>)] = 1
    <2>1. 0 - Len(<<>>) = 0
      <3> DEFINE none == Len(<<>>)
      <3>1. none = 0
        OBVIOUS
      <3> HIDE DEF none
      <3>2. 0 - none = 0
        BY <3>1
      <3> QED
        BY <3>2 DEF none
    <2> QED
      BY <2>1, PowersOfTen
  <1>5. Worth(Zero, 0) = 0
    BY <1>1, <1>2, <1>3, <1>4 DEF Worth
  <1> QED
    BY <1>1, <1>5 DEF Canonical

\* What is reported is what was accumulated, or nothing when nothing was.
LEMMA ReportKeepsTheSum ==
    ASSUME IInv, SpentIsTheTotal, NEW failed \in BOOLEAN, Report(failed)
    PROVE  CostIsTheExactSum'
  <1>1. /\ report'.amount = IF spent = None THEN Zero ELSE Printed(spent)
        /\ report'.currency = IF currency = None THEN "USD" ELSE currency
        /\ metered' = metered
    BY DEF Report
  <1>2. metered \in Seq(Costs)
    BY DEF IInv, CurrencyIsTheFirst
  <1>3. CASE metered = <<>>
    <2>1. report'.amount = Zero
      BY <1>1, <1>3 DEF SpentIsTheTotal
    <2>2. Total(metered', report'.currency, 0) = 0 /\ Finest(metered', report'.currency) = 0
      <3>1. In(report'.currency, metered) = {} /\ Total(metered, report'.currency, 0) = 0
        BY <1>3, NothingComesToNothing
      <3>2. Within(metered, report'.currency, 0)
        BY <3>1 DEF Within
      <3> QED
        BY <1>1, <1>2, <3>1, <3>2, FinestIs
    <2>3. Len(Zero.fraction) <= 0
      BY ZeroIsCanonical
    <2> QED
      BY <1>1, <1>3, <2>1, <2>2, <2>3, ZeroIsCanonical DEF CostIsTheExactSum
  <1>4. CASE metered # <<>>
    <2> DEFINE x == spent
               s == spent.scale
               printed == Printed(spent)
    <2>1. /\ currency = metered[1].currency /\ x \in Accumulated
          /\ Within(metered, currency, s)
          /\ s = 0 \/ \E i \in In(currency, metered) : Len(metered[i].amount.fraction) = s
          /\ x.value = Total(metered, currency, s)
      BY <1>4 DEF SpentIsTheTotal
    <2>2. report'.currency = currency /\ report'.amount = printed
      <3>1. currency # None
        BY <1>4, SessionAssumption DEF IInv, CurrencyIsTheFirst
      <3>2. spent # None
        BY <2>1, TotalAssumption DEF Accumulated
      <3> QED
        BY <1>1, <3>1, <3>2
    <2>3. s \in Nat /\ x.value \in Int
      BY <2>1 DEF Accumulated
    <2>4. Finest(metered', report'.currency) = s
      BY <1>1, <1>2, <2>1, <2>2, <2>3, FinestIs
    <2>5. /\ Len(printed.fraction) <= s /\ Canonical(printed)
          /\ printed.fraction # <<>> => Last(printed.fraction) # 0
          /\ printed.negative = (x.value < 0)
          /\ Number(printed.whole) * Tens[s]
                + Number(printed.fraction) * Tens[s - Len(printed.fraction)] = Magnitude(x)
      BY <2>1, PrintedIsCanonical
    <2>6. Worth(printed, s) = x.value
      <3>1. Worth(printed, s) = (IF x.value < 0 THEN -1 ELSE 1) * Magnitude(x)
        BY <2>5 DEF Worth
      <3>2. Magnitude(x) = IF x.value < 0 THEN -x.value ELSE x.value
        BY DEF Magnitude
      <3> HIDE DEF x, printed, s
      <3> QED
        BY <2>3, <3>1, <3>2
    <2>7. printed.negative => Worth(printed, s) # 0
      <3>1. ASSUME printed.negative PROVE x.value < 0
        BY <2>5, <3>1, Zenon
      <3>2. x.value < 0 => x.value # 0
        BY <2>3
      <3> QED
        BY <2>6, <3>1, <3>2
    <2> HIDE DEF printed, s
    <2> QED
      BY <1>1, <2>1, <2>2, <2>4, <2>5, <2>6, <2>7 DEF CostIsTheExactSum
  <1> QED
    BY <1>3, <1>4

\* Only metering changes the total, and only the report reports it.
LEMMA StepKeepsTheSum ==
    IInv /\ SpentIsTheTotal /\ CostIsTheExactSum /\ [Next]_vars
        => SpentIsTheTotal' /\ CostIsTheExactSum'
  <1> SUFFICES ASSUME IInv, SpentIsTheTotal, CostIsTheExactSum, [Next]_vars
               PROVE  SpentIsTheTotal' /\ CostIsTheExactSum'
    OBVIOUS
  <1>1. ASSUME UNCHANGED <<metered, currency, spent>> PROVE SpentIsTheTotal'
    BY <1>1 DEF SpentIsTheTotal
  <1>2. ASSUME report' = None PROVE CostIsTheExactSum'
    BY <1>2 DEF CostIsTheExactSum
  <1>3. CASE Model
    <2>1. CASE \E amount \in Spelled, named \in Currency :
                  AmountDecodes(amount) /\ Meter([amount |-> amount, currency |-> named])
      BY <1>2, <1>3, <2>1, MeterKeepsTheTotal DEF Model
    <2>2. CASE UNCHANGED <<metered, spent, currency, notes>>
      BY <1>1, <1>2, <1>3, <2>2 DEF Model
    <2> QED
      BY <1>3, <2>1, <2>2 DEF Model
  <1>4. CASE SubmitCandidate
    BY <1>1, <1>2, <1>4 DEF SubmitCandidate
  <1>5. CASE Note
    BY <1>1, <1>2, <1>5 DEF Note
  <1>6. CASE \E failed \in BOOLEAN : Report(failed)
    <2>1. PICK failed \in BOOLEAN : Report(failed)
      BY <1>6
    <2>2. UNCHANGED <<metered, currency, spent>>
      BY <2>1 DEF Report
    <2> QED
      BY <1>1, <2>1, <2>2, ReportKeepsTheSum
  <1>7. CASE Reported \/ UNCHANGED vars
    <2>1. UNCHANGED <<metered, currency, spent, report>>
      BY <1>7 DEF Reported, vars
    <2> QED
      BY <1>1, <2>1 DEF CostIsTheExactSum
  <1> QED
    BY <1>3, <1>4, <1>5, <1>6, <1>7 DEF Next

\* The reported cost is exactly the sum of the costs metered in the reported
\* currency, and spelled as the contract has it (decimal.go:9-16, 42-68;
\* session.go:155-178).
THEOREM CostIsExact == Spec => []CostIsTheExactSum
  <1>1. Init => SpentIsTheTotal /\ CostIsTheExactSum
    BY DEF Init, SpentIsTheTotal, CostIsTheExactSum
  <1>2. Spec => []IInv
    BY InitIInv, StepIInv, PTL DEF Spec
  <1>3. Spec => [](IInv /\ SpentIsTheTotal /\ CostIsTheExactSum)
    BY <1>1, <1>2, StepKeepsTheSum, PTL DEF Spec
  <1> QED
    BY <1>3, PTL
=============================================================================
