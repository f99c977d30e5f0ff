---------------------------- MODULE Billing_proofs ----------------------------
(***************************************************************************)
(* Proofs about Billing: however many runs meet, whatever they find        *)
(* committed at each statement and however they end, a committed run has   *)
(* billed each of its students once, a one-time rule is in one invoice of  *)
(* a student at most, and is consumed exactly when it is in one.           *)
(***************************************************************************)
EXTENDS Billing, Sums

(* What the engine may return for rules of the catalogue.                  *)
Fees == UNION {NetFees(OfKind(o, "charge"), OfKind(o, "discount")) : o \in SUBSET Catalogue}

Bill ==
    [student : Students \cup {NoStudent}, reference : References \cup {<<>>},
     base : {0} \cup {fee.base : fee \in Fees},
     applied : {NoRule} \cup {fee.applied : fee \in Fees},
     net : {0} \cup {fee.net : fee \in Fees},
     offered : SUBSET Catalogue]

Consumable == UNION {Consumptions(i) : i \in Bill}

RunType ==
    [pc : {"idle", "rules", "next", "price", "insert", "consume", "committed", "aborted"},
     reference : References \cup {<<>>}, frequency : Frequencies \cup {"none"},
     students : SUBSET Students, todo : SUBSET Students, rules : SUBSET Catalogue,
     row : Bill, invoices : SUBSET Bill, consumed : SUBSET Consumable]

Shape ==
    /\ rules \subseteq Catalogue
    /\ invoices \subseteq Bill
    /\ consumed \subseteq Consumable
    /\ run \in [Runs -> RunType]

ConsumedBy(rows) == {c \in Consumable : \E i \in rows : c \in Consumptions(i)}

(* The committed tables: the unique keys hold, and what is consumed is     *)
(* what the invoices charge or take off.                                   *)
Committed ==
    /\ \A i, j \in invoices : i.student = j.student /\ i.reference = j.reference => i = j
    /\ \A i, j \in invoices : i # j => Consumptions(i) \cap Consumptions(j) = {}
    /\ consumed = ConsumedBy(invoices)

(* A run's own rows.  It has consumed what they use, but for the one whose *)
(* consumption comes next.                                                 *)
Local(x) ==
    /\ x.pc \notin {"next", "price", "insert", "consume"} => x.invoices = {} /\ x.consumed = {}
    /\ x.pc = "rules" => x.todo = x.students
    /\ \A i \in x.invoices : i.reference = x.reference /\ i.student \notin x.todo
    /\ \A i, j \in x.invoices : i.student = j.student => i = j
    /\ x.pc \in {"price", "insert"} =>
          /\ x.row.student \in Students \ x.todo
          /\ \A i \in x.invoices : i.student # x.row.student
    /\ x.pc \in {"insert", "consume"} => x.row.reference = x.reference
    /\ x.pc = "consume" => x.row \in x.invoices
    /\ x.consumed = ConsumedBy(IF x.pc = "consume" THEN x.invoices \ {x.row} ELSE x.invoices)

(* A run and what is committed: nothing of it is there yet, and each       *)
(* student it is done with has an invoice here or there.                   *)
Against(x) ==
    /\ \A i \in x.invoices : ~Has(invoices, i.student, i.reference)
    /\ x.consumed \cap consumed = {}
    /\ x.pc \in {"next", "price", "insert", "consume"} =>
          \A s \in x.students \ x.todo :
              \/ x.pc \in {"price", "insert"} /\ s = x.row.student
              \/ Has(invoices \cup x.invoices, s, x.reference)
    /\ x.pc = "committed" => \A s \in x.students : Has(invoices, s, x.reference)

(* Two runs: the keys of their uncommitted rows differ.                    *)
Apart(x, y) ==
    /\ \A i \in x.invoices : ~Has(y.invoices, i.student, i.reference)
    /\ x.consumed \cap y.consumed = {}

Inv ==
    /\ Shape
    /\ Committed
    /\ \A b \in Runs : Local(run[b]) /\ Against(run[b])
    /\ \A b, d \in Runs : b # d => Apart(run[b], run[d])

-----------------------------------------------------------------------------
LEMMA NewRunType ==
    /\ NewRun \in RunType /\ NoInvoice \in Bill
    /\ NewRun.invoices = {} /\ NewRun.consumed = {} /\ NewRun.pc = "idle"
    /\ ConsumedBy({}) = {}
  <1>1. NoInvoice \in Bill
    BY DEF NoInvoice, Bill
  <1>2. QED
    BY <1>1 DEF NewRun, RunType, ConsumedBy

(* A statement of one run that commits nothing.                            *)
LEMMA RunStep ==
    ASSUME Inv, NEW b \in Runs, NEW x \in RunType,
           run' = [run EXCEPT ![b] = x], UNCHANGED <<rules, invoices, consumed>>,
           Local(x), Against(x), \A d \in Runs \ {b} : Apart(x, run[d])
    PROVE  Inv'
  <1>1. Shape'
    BY DEF Inv, Shape
  <1>2. Committed'
    BY DEF Inv, Committed
  <1>3. \A d \in Runs : run'[d] = IF d = b THEN x ELSE run[d]
    BY DEF Inv, Shape
  <1>4. \A d \in Runs : (Local(run[d]) /\ Against(run[d]))'
    <2>1. ASSUME NEW d \in Runs
          PROVE  Local(run'[d]) /\ Against(run'[d])
      BY <1>3 DEF Inv
    <2>2. QED
      BY <2>1 DEF Local, Against
  <1>5. ASSUME NEW c \in Runs, NEW d \in Runs, c # d
        PROVE  Apart(run[c], run[d])'
    <2>1. \A y \in Runs \ {b} : Apart(run[y], x)
      BY DEF Apart, Has
    <2>2. Apart(run'[c], run'[d])
      BY <1>3, <1>5, <2>1 DEF Inv
    <2>3. QED
      BY <2>2 DEF Apart
  <1>6. QED
    BY <1>1, <1>2, <1>4, <1>5 DEF Inv

(* A run whose rows stay as they are.                                      *)
LEMMA SameRowsStep ==
    ASSUME Inv, NEW b \in Runs, NEW x \in RunType,
           run' = [run EXCEPT ![b] = x], UNCHANGED <<rules, invoices, consumed>>,
           x.invoices = run[b].invoices, x.consumed = run[b].consumed, Local(x), Against(x)
    PROVE  Inv'
  <1>1. \A d \in Runs \ {b} : Apart(x, run[d])
    BY DEF Inv, Apart
  <1>2. QED
    BY <1>1, RunStep

(* A run that has no rows.                                                 *)
LEMMA NoRowsStep ==
    ASSUME Inv, NEW b \in Runs, NEW x \in RunType,
           run' = [run EXCEPT ![b] = x], UNCHANGED <<rules, invoices, consumed>>,
           x.invoices = {}, x.consumed = {}, x.pc \in {"rules", "aborted"},
           x.pc = "rules" => x.todo = x.students
    PROVE  Inv'
  <1>1. Local(x)
    BY NewRunType DEF Local
  <1>2. Against(x) /\ \A d \in Runs \ {b} : Apart(x, run[d])
    BY DEF Against, Apart
  <1>3. QED
    BY <1>1, <1>2, RunStep

-----------------------------------------------------------------------------
LEMMA RollStep ==
    ASSUME Inv, NEW b \in Runs, Roll(b)
    PROVE  Inv'
  <1> DEFINE x == [NewRun EXCEPT !.pc = "aborted"]
  <1>1. x \in RunType /\ x.invoices = {} /\ x.consumed = {} /\ x.pc = "aborted"
    BY NewRunType DEF RunType
  <1>2. run' = [run EXCEPT ![b] = x] /\ UNCHANGED <<rules, invoices, consumed>>
    BY DEF Roll
  <1> HIDE DEF x
  <1>3. QED
    BY <1>1, <1>2, NoRowsStep

LEMMA StartStep ==
    ASSUME Inv, NEW b \in Runs, NEW c \in Cohorts, NEW period \in Periods,
           NEW frequency \in Frequencies, StartRun(b, c, period, frequency)
    PROVE  Inv'
  <1> DEFINE students == {s \in Students : cohort[s] = c}
             x == [NewRun EXCEPT !.pc = "rules", !.reference = <<c, period>>,
                                 !.frequency = frequency,
                                 !.students = students, !.todo = students]
  <1>1. <<c, period>> \in References
    BY DEF References
  <1>2. /\ x \in RunType /\ x.invoices = {} /\ x.consumed = {} /\ x.pc = "rules"
        /\ x.todo = x.students
    BY <1>1, NewRunType DEF RunType
  <1>3. run' = [run EXCEPT ![b] = x] /\ UNCHANGED <<rules, invoices, consumed>>
    BY DEF StartRun
  <1> HIDE DEF x
  <1>4. QED
    BY <1>2, <1>3, NoRowsStep

LEMMA LoadStep ==
    ASSUME Inv, NEW b \in Runs, LoadRules(b)
    PROVE  Inv'
  <1> DEFINE x == [run[b] EXCEPT !.pc = "next",
                      !.rules = {r \in rules : r.cohort \in {run[b].reference[1], AnyCohort}}]
  <1>1. run[b] \in RunType /\ Local(run[b]) /\ Against(run[b]) /\ rules \subseteq Catalogue
    BY DEF Inv, Shape
  <1>2. /\ x \in RunType /\ x.pc = "next" /\ x.invoices = run[b].invoices
        /\ x.consumed = run[b].consumed /\ x.todo = run[b].todo
        /\ x.students = run[b].students
    BY <1>1 DEF RunType
  <1>3. /\ run' = [run EXCEPT ![b] = x] /\ UNCHANGED <<rules, invoices, consumed>>
        /\ run[b].pc = "rules"
    BY DEF LoadRules
  <1> HIDE DEF x
  <1>4. x.invoices = {} /\ x.consumed = {} /\ x.todo = x.students
    BY <1>1, <1>2, <1>3 DEF Local
  <1>5. Local(x) /\ Against(x)
    BY <1>2, <1>4, NewRunType DEF Local, Against
  <1>6. QED
    BY <1>2, <1>3, <1>5, SameRowsStep

LEMMA CheckStep ==
    ASSUME Inv, NEW b \in Runs, NEW s \in Students, CheckInvoice(b, s)
    PROVE  Inv'
  <1> DEFINE found == Has(invoices, s, run[b].reference)
             x == [run[b] EXCEPT !.todo = @ \ {s}, !.row.student = s,
                                 !.pc = IF found THEN "next" ELSE "price"]
  <1>1. /\ run[b] \in RunType /\ Local(run[b]) /\ Against(run[b])
        /\ run[b].pc = "next" /\ s \in run[b].todo
    BY DEF Inv, Shape, CheckInvoice
  <1>2. [run[b].row EXCEPT !.student = s] \in Bill /\ [run[b].row EXCEPT !.student = s].student = s
    BY <1>1 DEF RunType, Bill
  <1>3. /\ x \in RunType /\ x.pc = (IF found THEN "next" ELSE "price")
        /\ x.invoices = run[b].invoices /\ x.consumed = run[b].consumed
        /\ x.todo = run[b].todo \ {s} /\ x.students = run[b].students
        /\ x.reference = run[b].reference /\ x.row.student = s
    BY <1>1, <1>2 DEF RunType
  <1>4. run' = [run EXCEPT ![b] = x] /\ UNCHANGED <<rules, invoices, consumed>>
    BY DEF CheckInvoice
  <1> HIDE DEF x
  <1>5. Local(x)
    BY <1>1, <1>3 DEF Local
  <1>6. Against(x)
    BY <1>1, <1>3 DEF Against, Has
  <1>7. QED
    BY <1>3, <1>4, <1>5, <1>6, SameRowsStep

LEMMA PriceStep ==
    ASSUME Inv, NEW b \in Runs, Price(b)
    PROVE  Inv'
  <1> DEFINE s == run[b].row.student
             offered == Applicable(run[b].rules, Tags[s], run[b].frequency,
                                   {p[1] : p \in {p \in consumed : p[2] = s}})
             row(fee) == [student |-> s, reference |-> run[b].reference, base |-> fee.base,
                          applied |-> fee.applied, net |-> fee.net, offered |-> offered]
             x(fee) == [run[b] EXCEPT !.pc = "insert", !.row = row(fee)]
  <1>1. /\ run[b] \in RunType /\ Local(run[b]) /\ Against(run[b]) /\ run[b].pc = "price"
        /\ UNCHANGED <<rules, invoices, consumed>>
    BY DEF Inv, Shape, Price
  <1>2. PICK fee \in NetFees(OfKind(offered, "charge"), OfKind(offered, "discount")) :
            run' = [run EXCEPT ![b] = x(fee)]
    BY DEF Price
  <1>3. offered \in SUBSET Catalogue
    BY <1>1 DEF Applicable, RunType
  <1> HIDE DEF offered
  <1>4. fee \in Fees
    BY <1>2, <1>3 DEF Fees
  <1>5. s \in Students
    BY <1>1 DEF Local
  <1>6. row(fee) \in Bill
    BY <1>1, <1>3, <1>4, <1>5 DEF RunType, Bill
  <1>7. /\ x(fee) \in RunType /\ x(fee).pc = "insert"
        /\ x(fee).invoices = run[b].invoices /\ x(fee).consumed = run[b].consumed
        /\ x(fee).todo = run[b].todo /\ x(fee).students = run[b].students
        /\ x(fee).reference = run[b].reference /\ x(fee).row.student = run[b].row.student
        /\ x(fee).row.reference = run[b].reference
    BY <1>1, <1>6 DEF RunType
  <1> HIDE DEF x
  <1>8. Local(x(fee))
    BY <1>1, <1>7 DEF Local
  <1>9. Against(x(fee))
    BY <1>1, <1>7 DEF Against
  <1>10. QED
    BY <1>1, <1>2, <1>7, <1>8, <1>9, SameRowsStep

(* The insert meets neither a committed nor another run's row.             *)
LEMMA InsertStep ==
    ASSUME Inv, NEW b \in Runs, InsertInvoice(b)
    PROVE  Inv'
  <1> DEFINE row == run[b].row
             x == [run[b] EXCEPT !.pc = "consume", !.invoices = @ \cup {row}]
  <1>1. /\ run[b] \in RunType /\ Local(run[b]) /\ Against(run[b]) /\ run[b].pc = "insert"
        /\ ~Blocked(b) /\ run[b].row \in Bill
    BY DEF Inv, Shape, InsertInvoice, RunType
  <1>2. CASE Has(invoices, run[b].row.student, run[b].reference)
    <2>1. Roll(b)
      BY <1>2 DEF InsertInvoice
    <2>2. QED
      BY <2>1, RollStep
  <1>3. CASE ~Has(invoices, run[b].row.student, run[b].reference)
    <2>1. run' = [run EXCEPT ![b] = x] /\ UNCHANGED <<rules, invoices, consumed>>
      BY <1>3 DEF InsertInvoice
    <2>2. /\ x \in RunType /\ x.pc = "consume" /\ x.invoices = run[b].invoices \cup {row}
          /\ x.consumed = run[b].consumed /\ x.todo = run[b].todo
          /\ x.students = run[b].students /\ x.reference = run[b].reference /\ x.row = row
      BY <1>1 DEF RunType
    <2> HIDE DEF x
    <2>3. /\ row.reference = run[b].reference /\ row.student \in Students \ run[b].todo
          /\ \A i \in run[b].invoices : i.student # row.student /\ i.reference = run[b].reference
      BY <1>1 DEF Local
    <2>4. x.invoices \ {row} = run[b].invoices
      BY <2>2, <2>3
    <2>5. Local(x)
      BY <1>1, <2>2, <2>3, <2>4 DEF Local
    <2>6. Against(x)
      <3>1. \A i \in x.invoices : ~Has(invoices, i.student, i.reference)
        BY <1>1, <1>3, <2>2, <2>3 DEF Against
      <3>2. \A t \in x.students \ x.todo : Has(invoices \cup x.invoices, t, x.reference)
        BY <1>1, <2>2, <2>3 DEF Against, Has
      <3>3. QED
        BY <1>1, <2>2, <3>1, <3>2 DEF Against
    <2>7. ASSUME NEW d \in Runs \ {b}
          PROVE  Apart(x, run[d])
      <3>1. ~Has(run[d].invoices, row.student, row.reference)
        BY <1>1, <2>3 DEF Blocked, BlockedBy
      <3>2. Apart(run[b], run[d])
        BY DEF Inv
      <3>3. QED
        BY <2>2, <3>1, <3>2 DEF Apart
    <2>8. QED
      BY <2>1, <2>2, <2>5, <2>6, <2>7, RunStep
  <1>4. QED
    BY <1>2, <1>3

LEMMA ConsumeStep ==
    ASSUME Inv, NEW b \in Runs, InsertConsumptions(b)
    PROVE  Inv'
  <1> DEFINE row == run[b].row
             x == [run[b] EXCEPT !.pc = "next", !.row = NoInvoice,
                                 !.consumed = @ \cup Consumptions(row)]
  <1>1. /\ run[b] \in RunType /\ Local(run[b]) /\ Against(run[b]) /\ run[b].pc = "consume"
        /\ ~Blocked(b) /\ run[b].row \in Bill
    BY DEF Inv, Shape, InsertConsumptions, RunType
  <1>2. CASE Consumptions(run[b].row) \cap consumed # {}
    <2>1. Roll(b)
      BY <1>2 DEF InsertConsumptions
    <2>2. QED
      BY <2>1, RollStep
  <1>3. CASE Consumptions(run[b].row) \cap consumed = {}
    <2>1. run' = [run EXCEPT ![b] = x] /\ UNCHANGED <<rules, invoices, consumed>>
      BY <1>3 DEF InsertConsumptions
    <2>2. Consumptions(row) \subseteq Consumable
      BY <1>1 DEF Consumable
    <2>3. /\ x \in RunType /\ x.pc = "next" /\ x.invoices = run[b].invoices
          /\ x.consumed = run[b].consumed \cup Consumptions(row) /\ x.todo = run[b].todo
          /\ x.students = run[b].students /\ x.reference = run[b].reference
      BY <1>1, <2>2, NewRunType DEF RunType
    <2> HIDE DEF x
    <2>4. row \in run[b].invoices /\ run[b].consumed = ConsumedBy(run[b].invoices \ {row})
      BY <1>1 DEF Local
    <2>5. x.consumed = ConsumedBy(x.invoices)
      BY <2>2, <2>3, <2>4 DEF ConsumedBy
    <2>6. Local(x)
      BY <1>1, <2>3, <2>5 DEF Local
    <2>7. Against(x)
      BY <1>1, <1>3, <2>3 DEF Against
    <2>8. ASSUME NEW d \in Runs \ {b}
          PROVE  Apart(x, run[d])
      <3>1. Consumptions(row) \cap run[d].consumed = {}
        BY <1>1 DEF Blocked, BlockedBy
      <3>2. Apart(run[b], run[d])
        BY DEF Inv
      <3>3. QED
        BY <2>3, <3>1, <3>2 DEF Apart
    <2>9. QED
      BY <2>1, <2>3, <2>6, <2>7, <2>8, RunStep
  <1>4. QED
    BY <1>2, <1>3

(* The run's rows become everybody's.                                      *)
LEMMA CommitStep ==
    ASSUME Inv, NEW b \in Runs, Commit(b)
    PROVE  Inv'
  <1> DEFINE old == run[b]
             x == [NewRun EXCEPT !.pc = "committed", !.reference = old.reference,
                                 !.students = old.students]
  <1>1. /\ old \in RunType /\ Local(old) /\ Against(old) /\ old.pc = "next" /\ old.todo = {}
        /\ Shape /\ Committed
    BY DEF Inv, Shape, Commit
  <1>2. /\ x \in RunType /\ x.pc = "committed" /\ x.invoices = {} /\ x.consumed = {}
        /\ x.students = old.students /\ x.reference = old.reference
    BY <1>1, NewRunType DEF RunType
  <1>3. /\ run' = [run EXCEPT ![b] = x] /\ rules' = rules
        /\ invoices' = invoices \cup old.invoices /\ consumed' = consumed \cup old.consumed
    BY DEF Commit
  <1> HIDE DEF x
  <1>4. Shape'
    BY <1>1, <1>2, <1>3 DEF Shape, RunType
  <1>5. old.consumed = ConsumedBy(old.invoices) /\ consumed = ConsumedBy(invoices)
    BY <1>1 DEF Local, Committed
  <1>6. \A i, j \in old.invoices : i # j => Consumptions(i) \cap Consumptions(j) = {}
    BY <1>1 DEF Local, Consumptions
  <1>7. \A i \in invoices \cup old.invoices : i \in Bill /\ Consumptions(i) \subseteq Consumable
    BY <1>1 DEF Shape, RunType, Consumable
  <1>8. \A i \in invoices : \A j \in old.invoices : Consumptions(i) \cap Consumptions(j) = {}
    <2>1. \A i \in invoices : Consumptions(i) \subseteq consumed
      BY <1>5, <1>7 DEF ConsumedBy
    <2>2. \A j \in old.invoices : Consumptions(j) \subseteq old.consumed
      BY <1>5, <1>7 DEF ConsumedBy
    <2>3. old.consumed \cap consumed = {}
      BY <1>1 DEF Against
    <2>4. QED
      BY <2>1, <2>2, <2>3
  <1>9. Committed'
    <2>1. \A i, j \in invoices' : i.student = j.student /\ i.reference = j.reference => i = j
      BY <1>1, <1>3 DEF Committed, Local, Against, Has
    <2>2. \A i, j \in invoices' : i # j => Consumptions(i) \cap Consumptions(j) = {}
      BY <1>1, <1>3, <1>6, <1>8 DEF Committed
    <2>3. consumed' = ConsumedBy(invoices')
      BY <1>3, <1>5 DEF ConsumedBy
    <2>4. QED
      BY <2>1, <2>2, <2>3 DEF Committed, ConsumedBy
  <1>10. \A d \in Runs : run'[d] = IF d = b THEN x ELSE run[d]
    BY <1>1, <1>3 DEF Shape
  <1>11. ASSUME NEW d \in Runs
         PROVE  (Local(run[d]) /\ Against(run[d]))'
    <2>1. CASE d = b
      <3>1. run'[d] = x /\ Local(x)
        BY <1>2, <1>10, <2>1, NewRunType DEF Local
      <3>2. \A s \in x.students : Has(invoices', s, x.reference)
        BY <1>1, <1>2, <1>3 DEF Against
      <3>3. QED
        BY <1>2, <3>1, <3>2 DEF Local, Against
    <2>2. CASE d # b
      <3>1. run'[d] = run[d] /\ Local(run[d]) /\ Against(run[d]) /\ Apart(run[d], old)
        BY <1>10, <2>2 DEF Inv
      <3>2. \A i \in run[d].invoices : ~Has(invoices', i.student, i.reference)
        BY <1>3, <3>1 DEF Against, Apart, Has
      <3>3. run[d].consumed \cap consumed' = {}
        BY <1>3, <3>1 DEF Against, Apart
      <3>4. \A s, ref : Has(invoices, s, ref) => Has(invoices', s, ref)
        BY <1>3 DEF Has
      <3>5. \A s, ref : Has(invoices \cup run[d].invoices, s, ref)
                         => Has(invoices' \cup run[d].invoices, s, ref)
        BY <1>3 DEF Has
      <3>6. Local(run'[d])
        BY <3>1
      <3>7. QED
        BY <3>1, <3>2, <3>3, <3>4, <3>5 DEF Local, Against
    <2>3. QED
      BY <2>1, <2>2
  <1>12. ASSUME NEW c \in Runs, NEW d \in Runs, c # d
         PROVE  Apart(run[c], run[d])'
    <2>1. Apart(run'[c], run'[d])
      BY <1>2, <1>10, <1>12 DEF Inv, Apart, Has
    <2>2. QED
      BY <2>1 DEF Apart
  <1>13. QED
    BY <1>4, <1>9, <1>11, <1>12 DEF Inv

-----------------------------------------------------------------------------
(* Creating a rule and promoting a cohort touch no run and no invoice.     *)
LEMMA OtherStep ==
    ASSUME Inv, rules' \subseteq Catalogue, UNCHANGED <<invoices, consumed, run>>
    PROVE  Inv'
  <1>1. Shape' /\ Committed'
    BY DEF Inv, Shape, Committed
  <1>2. \A b \in Runs : (Local(run[b]) /\ Against(run[b]))'
    BY DEF Inv, Local, Against
  <1>3. \A b, d \in Runs : b # d => Apart(run[b], run[d])'
    BY DEF Inv, Apart
  <1>4. QED
    BY <1>1, <1>2, <1>3 DEF Inv

LEMMA InvStep ==
    ASSUME Inv, [Next]_vars
    PROVE  Inv'
  <1>0. rules \subseteq Catalogue
    BY DEF Inv, Shape
  <1>1. ASSUME NEW r \in Catalogue, CreateRule(r)
        PROVE  Inv'
    BY <1>0, <1>1, OtherStep DEF CreateRule
  <1>2. ASSUME NEW from \in Cohorts, NEW to \in Cohorts, Promote(from, to)
        PROVE  Inv'
    BY <1>0, <1>2, OtherStep DEF Promote
  <1>3. ASSUME NEW b \in Runs, Statement(b)
        PROVE  Inv'
    BY <1>3, LoadStep, CheckStep, PriceStep, InsertStep, ConsumeStep, CommitStep DEF Statement
  <1>4. ASSUME NEW b \in Runs, Abort(b)
        PROVE  Inv'
    BY <1>4, RollStep DEF Abort
  <1>5. CASE UNCHANGED vars
    BY <1>0, <1>5, OtherStep DEF vars
  <1>6. QED
    BY <1>1, <1>2, <1>3, <1>4, <1>5, StartStep DEF Next

(* The inductive invariant of the billing runs.                            *)
THEOREM Invariance == Spec => []Inv
  <1>1. ASSUME Init
        PROVE  Inv
    <2>1. \A b \in Runs : run[b] = NewRun
      BY <1>1 DEF Init
    <2>2. Shape
      BY <1>1, NewRunType DEF Init, Shape
    <2>3. Committed
      BY <1>1, NewRunType DEF Init, Committed
    <2>4. Local(NewRun) /\ Against(NewRun) /\ Apart(NewRun, NewRun)
      BY NewRunType DEF Local, Against, Apart
    <2>5. QED
      BY <2>1, <2>2, <2>3, <2>4 DEF Inv
  <1>2. Inv /\ [Next]_vars => Inv'
    BY InvStep
  <1>3. QED
    BY <1>1, <1>2, PTL DEF Spec

(* billing.ts, "idempotent": each student that a committed run found in    *)
(* the cohort has exactly one invoice for its reference.                   *)
THEOREM EveryStudentBilledAlways == Spec => []EveryStudentBilled
  <1>1. ASSUME Inv, NEW b \in Runs, run[b].pc = "committed", NEW s \in run[b].students
        PROVE  Cardinality({i \in invoices :
                   i.student = s /\ i.reference = run[b].reference}) = 1
    <2>1. PICK i \in invoices : i.student = s /\ i.reference = run[b].reference
      BY <1>1 DEF Inv, Against, Has
    <2>2. \A j \in invoices : j.student = s /\ j.reference = run[b].reference => j = i
      BY <1>1, <2>1 DEF Inv, Committed
    <2>3. {j \in invoices : j.student = s /\ j.reference = run[b].reference} = {i}
      BY <2>1, <2>2
    <2>4. QED
      BY <2>3, FS_Singleton
  <1>2. Inv => EveryStudentBilled
    BY <1>1 DEF EveryStudentBilled
  <1>3. QED
    BY <1>2, Invariance, PTL

(* What an invoice consumes is what it uses.                               *)
LEMMA UsesIsConsumed ==
    ASSUME NEW i \in Bill, NEW r \in Catalogue
    PROVE  Uses(i, r) <=> <<r.id, i.student>> \in Consumptions(i)
  <1>1. i.offered \subseteq Catalogue
    BY DEF Bill
  <1>2. \A q \in Catalogue : q.id = r.id => q = r
    BY CatalogueAssumption
  <1>3. <<r.id, i.student>> \in Consumptions(i) <=> r.id \in AppliedOneTime(i)
    BY DEF Consumptions
  <1>4. r.id \in AppliedOneTime(i) <=> Uses(i, r)
    BY <1>1, <1>2 DEF AppliedOneTime, Uses
  <1>5. QED
    BY <1>3, <1>4

(* schema.ts, rule_consumptions_once: a one-time rule is in one invoice of *)
(* a student at most, whichever runs priced the student.                   *)
THEOREM OneTimeOnceAlways == Spec => []OneTimeOnce
  <1>1. ASSUME Inv, NEW s \in Students, NEW r \in rules
        PROVE  Cardinality({i \in invoices : i.student = s /\ Uses(i, r)}) <= 1
    <2> DEFINE using == {i \in invoices : i.student = s /\ Uses(i, r)}
    <2>1. r \in Catalogue /\ invoices \subseteq Bill
      BY <1>1 DEF Inv, Shape
    <2>2. \A i, j \in using : i = j
      <3>1. ASSUME NEW i \in using, NEW j \in using
            PROVE  <<r.id, s>> \in Consumptions(i) \cap Consumptions(j)
        BY <2>1, <3>1, UsesIsConsumed
      <3>2. QED
        BY <1>1, <3>1 DEF Inv, Committed
    <2>3. using = {} \/ \E i : using = {i}
      BY <2>2
    <2>4. Cardinality(using) = 0 \/ Cardinality(using) = 1
      BY <2>3, FS_EmptySet, FS_Singleton
    <2>5. QED
      BY <2>4
  <1>2. Inv => OneTimeOnce
    BY <1>1 DEF OneTimeOnce
  <1>3. QED
    BY <1>2, Invariance, PTL

(* billing.ts: a student has used up exactly the one-time rules that one   *)
(* of the invoices charges or takes off.                                   *)
THEOREM ConsumedIffAppliedAlways == Spec => []ConsumedIffApplied
  <1>1. ASSUME Inv, NEW s \in Students, NEW r \in rules
        PROVE  <<r.id, s>> \in consumed <=> \E i \in invoices : i.student = s /\ Uses(i, r)
    <2>1. r \in Catalogue /\ invoices \subseteq Bill /\ consumed = ConsumedBy(invoices)
      BY <1>1 DEF Inv, Shape, Committed
    <2>2. <<r.id, s>> \in consumed <=> \E i \in invoices : <<r.id, s>> \in Consumptions(i)
      BY <2>1 DEF ConsumedBy, Consumable
    <2>3. \A i \in invoices : <<r.id, s>> \in Consumptions(i) => i.student = s
      BY DEF Consumptions
    <2>4. QED
      BY <2>1, <2>2, <2>3, UsesIsConsumed
  <1>2. Inv => ConsumedIffApplied
    BY <1>1 DEF ConsumedIffApplied
  <1>3. QED
    BY <1>2, Invariance, PTL

-----------------------------------------------------------------------------
(* HighestWins: each invoice is what the engine may return for the rules   *)
(* it was offered, and these are finitely many.                            *)

Priced(row) ==
    /\ row.offered \subseteq Catalogue /\ IsFiniteSet(row.offered)
    /\ \E fee \in NetFees(OfKind(row.offered, "charge"), OfKind(row.offered, "discount")) :
          row.base = fee.base /\ row.applied = fee.applied /\ row.net = fee.net

PricedRun(x) ==
    /\ x.rules \subseteq Catalogue /\ IsFiniteSet(x.rules)
    /\ \A i \in x.invoices : Priced(i)
    /\ x.pc \in {"insert", "consume"} => Priced(x.row)

PricedInv ==
    /\ Shape
    /\ IsFiniteSet(rules)
    /\ \A i \in invoices : Priced(i)
    /\ \A b \in Runs : PricedRun(run[b])

(* What the engine computes from a base that is a natural number: a        *)
(* discount is worth between nothing and the base.                         *)
LEMMA Worth ==
    ASSUME NEW base \in Nat, NEW d \in Catalogue
    PROVE  /\ Raw(base, d) \in Nat
           /\ DiscountValue(base, d) \in 0..base
           /\ DiscountValue(base, d) = base \/ DiscountValue(base, d) = Raw(base, d)
           /\ DiscountValue(base, d) >= base \/ DiscountValue(base, d) >= Raw(base, d)
  <1>1. PICK v \in Nat : v = d.value
    BY CatalogueAssumption
  <1>2. PICK p \in Nat : p = base * v
    OBVIOUS
  <1>3. p \div 10000 \in Nat
    OBVIOUS
  <1>4. Raw(base, d) \in Nat
    BY <1>1, <1>2, <1>3 DEF Raw, BasisPoints
  <1>5. PICK raw \in Nat : raw = Raw(base, d)
    BY <1>4
  <1>6. DiscountValue(base, d) = IF raw > base THEN base ELSE raw
    BY <1>5 DEF DiscountValue
  <1>7. QED
    BY ONLY <1>5, <1>6, base \in Nat

LEMMA BaseIsNat ==
    ASSUME NEW charges, charges \subseteq Catalogue, IsFiniteSet(charges)
    PROVE  Base(charges) \in Nat
  <1> DEFINE f == [r \in charges |-> r.value]
  <1>1. \A r \in charges : f[r] \in Nat
    BY CatalogueAssumption
  <1>2. Base(charges) = SumFunctionOnSet(f, charges)
    BY DEF Base, SumFunction
  <1> HIDE DEF f
  <1>3. QED
    BY <1>1, <1>2, SumNat

(* computeNetFee: the winner's worth comes off the base, and no other      *)
(* discount is worth more.                                                 *)
LEMMA WinnerTakesAll ==
    ASSUME NEW charges, charges \subseteq Catalogue, IsFiniteSet(charges),
           NEW discounts, discounts \subseteq Catalogue, NEW fee \in NetFees(charges, discounts)
    PROVE  /\ fee.base \in Nat
           /\ fee.base - fee.net \in 0..fee.base
           /\ \A d \in discounts : \/ fee.base - fee.net >= fee.base
                                   \/ fee.base - fee.net >= Raw(fee.base, d)
           /\ fee.base - fee.net > 0 =>
                 \E d \in discounts : /\ d.id = fee.applied
                                      /\ fee.base - fee.net \in {Raw(fee.base, d), fee.base}
  <1>1. PICK base \in Nat : base = Base(charges)
    BY BaseIsNat
  <1>2. CASE discounts = {}
    <2>1. fee = [base |-> base, applied |-> NoRule, net |-> base]
      BY <1>1, <1>2 DEF NetFees
    <2>2. fee.base = base /\ fee.net = base
      BY <2>1
    <2>3. fee.base - fee.net = 0
      BY <1>1, <2>2
    <2>4. QED
      BY <1>1, <1>2, <2>2, <2>3
  <1>3. CASE discounts # {}
    <2>1. PICK w \in Winners(base, discounts) :
             fee = [base |-> base,
                    applied |-> IF DiscountValue(base, w) > 0 THEN w.id ELSE NoRule,
                    net |-> base - DiscountValue(base, w)]
      BY <1>1, <1>3 DEF NetFees
    <2>2. /\ w \in discounts
          /\ \A d \in discounts : DiscountValue(base, d) <= DiscountValue(base, w)
      BY <2>1 DEF Winners
    <2>3. PICK best \in 0..base : best = DiscountValue(base, w)
      BY <2>2, Worth
    <2>4. /\ fee.base = base /\ fee.net = base - best
          /\ fee.applied = IF best > 0 THEN w.id ELSE NoRule
      BY <2>1, <2>3
    <2>5. fee.base - fee.net = best
      BY <2>3, <2>4
    <2>6. ASSUME NEW d \in discounts
          PROVE  best >= base \/ best >= Raw(base, d)
      <3>1. PICK raw \in Nat : raw = Raw(base, d)
        BY Worth
      <3>2. PICK worth \in Nat : worth = DiscountValue(base, d)
        BY Worth
      <3>3. (worth >= base \/ worth >= raw) /\ worth <= best
        BY <2>2, <2>3, <3>1, <3>2, Worth
      <3>4. best >= base \/ best >= raw
        BY ONLY <3>3, raw \in Nat, worth \in Nat, base \in Nat, best \in 0..base
      <3>5. QED
        BY <3>1, <3>4
    <2>7. best \in {Raw(base, w), base}
      BY <2>2, <2>3, Worth
    <2>8. QED
      BY <1>1, <2>2, <2>3, <2>4, <2>5, <2>6, <2>7
  <1>4. QED
    BY <1>2, <1>3

(* A statement of one run keeps PricedInv when what the run becomes, and   *)
(* what it adds to the invoices, is priced.                                *)
LEMMA PricedStep ==
    ASSUME PricedInv, NEW b \in Runs, NEW x, run' = [run EXCEPT ![b] = x],
           Shape', rules' = rules, PricedRun(x), \A i \in invoices' : Priced(i)
    PROVE  PricedInv'
  <1>1. \A d \in Runs : run'[d] = IF d = b THEN x ELSE run[d]
    BY DEF PricedInv, Shape
  <1>2. \A d \in Runs : PricedRun(run'[d])
    BY <1>1 DEF PricedInv
  <1>3. QED
    BY <1>2 DEF PricedInv

LEMMA PricedRoll ==
    ASSUME PricedInv, Shape', NEW b \in Runs, Roll(b)
    PROVE  PricedInv'
  <1> DEFINE x == [NewRun EXCEPT !.pc = "aborted"]
  <1>1. x.rules = {} /\ x.invoices = {} /\ x.pc = "aborted"
    BY DEF NewRun
  <1>2. run' = [run EXCEPT ![b] = x] /\ rules' = rules /\ invoices' = invoices
    BY DEF Roll
  <1> HIDE DEF x
  <1>3. PricedRun(x)
    BY <1>1, FS_EmptySet DEF PricedRun
  <1>4. QED
    BY <1>2, <1>3, PricedStep DEF PricedInv

LEMMA PricedStatement ==
    ASSUME PricedInv, Shape', NEW b \in Runs, Statement(b)
    PROVE  PricedInv'
  <1> DEFINE old == run[b]
  <1>1. old \in RunType /\ PricedRun(old) /\ \A i \in invoices : Priced(i)
    BY DEF PricedInv, Shape
  <1>2. CASE LoadRules(b)
    <2> DEFINE mine == {r \in rules : r.cohort \in {old.reference[1], AnyCohort}}
               x == [old EXCEPT !.pc = "next", !.rules = mine]
    <2>1. run' = [run EXCEPT ![b] = x] /\ rules' = rules /\ invoices' = invoices
      BY <1>2 DEF LoadRules
    <2>2. mine \subseteq Catalogue /\ IsFiniteSet(mine)
      BY FS_Subset DEF PricedInv, Shape
    <2>3. x.pc = "next" /\ x.rules = mine /\ x.invoices = old.invoices
      BY <1>1 DEF RunType
    <2> HIDE DEF x, mine
    <2>4. PricedRun(x)
      BY <1>1, <2>2, <2>3 DEF PricedRun
    <2>5. QED
      BY <1>1, <2>1, <2>4, PricedStep
  <1>3. ASSUME NEW s \in Students, CheckInvoice(b, s)
        PROVE  PricedInv'
    <2> DEFINE x == [old EXCEPT !.todo = @ \ {s}, !.row.student = s,
                        !.pc = IF Has(invoices, s, old.reference) THEN "next" ELSE "price"]
    <2>1. run' = [run EXCEPT ![b] = x] /\ rules' = rules /\ invoices' = invoices
      BY <1>3 DEF CheckInvoice
    <2>2. x.pc \in {"next", "price"} /\ x.rules = old.rules /\ x.invoices = old.invoices
      BY <1>1 DEF RunType
    <2> HIDE DEF x
    <2>3. PricedRun(x)
      BY <1>1, <2>2 DEF PricedRun
    <2>4. QED
      BY <1>1, <2>1, <2>3, PricedStep
  <1>4. CASE Price(b)
    <2> DEFINE s == old.row.student
               offered == Applicable(old.rules, Tags[s], old.frequency,
                                     {p[1] : p \in {p \in consumed : p[2] = s}})
               row(fee) == [student |-> s, reference |-> old.reference, base |-> fee.base,
                            applied |-> fee.applied, net |-> fee.net, offered |-> offered]
               x(fee) == [old EXCEPT !.pc = "insert", !.row = row(fee)]
    <2>1. PICK fee \in NetFees(OfKind(offered, "charge"), OfKind(offered, "discount")) :
             run' = [run EXCEPT ![b] = x(fee)]
      BY <1>4 DEF Price
    <2>2. rules' = rules /\ invoices' = invoices
      BY <1>4 DEF Price
    <2>3. offered \subseteq Catalogue /\ IsFiniteSet(offered)
      BY <1>1, FS_Subset DEF Applicable, PricedRun
    <2> HIDE DEF offered
    <2>4. Priced(row(fee))
      BY <2>1, <2>3 DEF Priced
    <2>5. /\ x(fee).rules = old.rules /\ x(fee).invoices = old.invoices
          /\ x(fee).row = row(fee)
      BY <1>1 DEF RunType
    <2> HIDE DEF x, row
    <2>6. PricedRun(x(fee))
      BY <1>1, <2>4, <2>5 DEF PricedRun
    <2>7. QED
      BY <1>1, <2>1, <2>2, <2>6, PricedStep
  <1>5. CASE InsertInvoice(b)
    <2> DEFINE x == [old EXCEPT !.pc = "consume", !.invoices = @ \cup {old.row}]
    <2>1. CASE Has(invoices, old.row.student, old.reference)
      BY <1>5, <2>1, PricedRoll DEF InsertInvoice
    <2>2. CASE ~Has(invoices, old.row.student, old.reference)
      <3>1. run' = [run EXCEPT ![b] = x] /\ rules' = rules /\ invoices' = invoices
        BY <1>5, <2>2 DEF InsertInvoice
      <3>2. x.rules = old.rules /\ x.invoices = old.invoices \cup {old.row} /\ x.row = old.row
        BY <1>1 DEF RunType
      <3> HIDE DEF x
      <3>3. PricedRun(x)
        BY <1>1, <1>5, <3>2 DEF PricedRun, InsertInvoice
      <3>4. QED
        BY <1>1, <3>1, <3>3, PricedStep
    <2>3. QED
      BY <2>1, <2>2
  <1>6. CASE InsertConsumptions(b)
    <2> DEFINE x == [old EXCEPT !.pc = "next", !.row = NoInvoice,
                                !.consumed = @ \cup Consumptions(old.row)]
    <2>1. CASE Consumptions(old.row) \cap consumed # {}
      BY <1>6, <2>1, PricedRoll DEF InsertConsumptions
    <2>2. CASE Consumptions(old.row) \cap consumed = {}
      <3>1. run' = [run EXCEPT ![b] = x] /\ rules' = rules /\ invoices' = invoices
        BY <1>6, <2>2 DEF InsertConsumptions
      <3>2. x.rules = old.rules /\ x.invoices = old.invoices /\ x.pc = "next"
        BY <1>1 DEF RunType
      <3> HIDE DEF x
      <3>3. PricedRun(x)
        BY <1>1, <3>2 DEF PricedRun
      <3>4. QED
        BY <1>1, <3>1, <3>3, PricedStep
    <2>3. QED
      BY <2>1, <2>2
  <1>7. CASE Commit(b)
    <2> DEFINE x == [NewRun EXCEPT !.pc = "committed", !.reference = old.reference,
                                   !.students = old.students]
    <2>1. /\ run' = [run EXCEPT ![b] = x] /\ rules' = rules
          /\ invoices' = invoices \cup old.invoices
      BY <1>7 DEF Commit
    <2>2. x.rules = {} /\ x.invoices = {} /\ x.pc = "committed"
      BY DEF NewRun
    <2> HIDE DEF x
    <2>3. PricedRun(x)
      BY <2>2, FS_EmptySet DEF PricedRun
    <2>4. \A i \in invoices' : Priced(i)
      BY <1>1, <2>1 DEF PricedRun
    <2>5. QED
      BY <2>1, <2>3, <2>4, PricedStep
  <1>8. QED
    BY <1>2, <1>3, <1>4, <1>5, <1>6, <1>7 DEF Statement

LEMMA PricedNext ==
    ASSUME PricedInv, Shape', [Next]_vars
    PROVE  PricedInv'
  <1>1. ASSUME NEW r \in Catalogue, CreateRule(r)
        PROVE  PricedInv'
    <2>1. IsFiniteSet(rules \cup {r})
      BY FS_AddElement DEF PricedInv
    <2>2. QED
      BY <1>1, <2>1 DEF PricedInv, CreateRule
  <1>2. ASSUME UNCHANGED <<rules, invoices, run>>
        PROVE  PricedInv'
    BY <1>2 DEF PricedInv
  <1>3. ASSUME NEW from \in Cohorts, NEW to \in Cohorts, Promote(from, to)
        PROVE  PricedInv'
    BY <1>2, <1>3 DEF Promote
  <1>4. ASSUME NEW b \in Runs, NEW c \in Cohorts, NEW period \in Periods,
               NEW frequency \in Frequencies, StartRun(b, c, period, frequency)
        PROVE  PricedInv'
    <2> DEFINE students == {s \in Students : cohort[s] = c}
               x == [NewRun EXCEPT !.pc = "rules", !.reference = <<c, period>>,
                                   !.frequency = frequency,
                                   !.students = students, !.todo = students]
    <2>1. run' = [run EXCEPT ![b] = x] /\ rules' = rules /\ invoices' = invoices
      BY <1>4 DEF StartRun
    <2>2. x.rules = {} /\ x.invoices = {} /\ x.pc = "rules"
      BY DEF NewRun
    <2> HIDE DEF x
    <2>3. PricedRun(x)
      BY <2>2, FS_EmptySet DEF PricedRun
    <2>4. QED
      BY <2>1, <2>3, PricedStep DEF PricedInv
  <1>5. ASSUME NEW b \in Runs, Abort(b)
        PROVE  PricedInv'
    BY <1>5, PricedRoll DEF Abort
  <1>6. CASE UNCHANGED vars
    BY <1>2, <1>6 DEF vars
  <1>7. QED
    BY <1>1, <1>3, <1>4, <1>5, <1>6, PricedStatement DEF Next

(* billing.ts, runBilling: every invoice, and every row a run is about     *)
(* to insert, is what the engine returns for the rules it was offered.     *)
THEOREM PricedAlways == Spec => []PricedInv
  <1>1. ASSUME Init, Shape
        PROVE  PricedInv
    <2>1. \A b \in Runs : run[b] = NewRun
      BY <1>1 DEF Init
    <2>2. PricedRun(NewRun)
      BY FS_EmptySet DEF NewRun, PricedRun
    <2>3. QED
      BY <1>1, <2>1, <2>2, FS_EmptySet DEF Init, PricedInv
  <1>2. Inv => Shape
    BY DEF Inv
  <1>3. PricedInv /\ Shape' /\ [Next]_vars => PricedInv'
    BY PricedNext
  <1>4. Init /\ Shape => PricedInv
    BY <1>1
  <1>5. QED
    BY <1>2, <1>3, <1>4, Invariance, PTL DEF Spec

(* fee.ts, computeNetFee: an invoice takes off its base what the best      *)
(* of the discounts it was offered takes off, and never more than the      *)
(* base, for any charges, discounts and amounts.                           *)
THEOREM HighestWinsAlways == Spec => []HighestWins
  <1>1. ASSUME PricedInv, NEW i \in invoices
        PROVE  LET discounts == OfKind(i.offered, "discount")
                   off == i.base - i.net
               IN
               /\ 0 <= off /\ off <= i.base
               /\ \A d \in discounts : off >= i.base \/ off >= Raw(i.base, d)
               /\ off > 0 => \E d \in discounts :
                                d.id = i.applied /\ off \in {Raw(i.base, d), i.base}
    <2> DEFINE charges == OfKind(i.offered, "charge")
               discounts == OfKind(i.offered, "discount")
    <2>1. Priced(i)
      BY <1>1 DEF PricedInv
    <2>2. /\ charges \subseteq Catalogue /\ discounts \subseteq Catalogue
          /\ IsFiniteSet(charges)
      BY <2>1, FS_Subset DEF Priced, OfKind
    <2>3. PICK fee \in NetFees(charges, discounts) :
             i.base = fee.base /\ i.applied = fee.applied /\ i.net = fee.net
      BY <2>1 DEF Priced
    <2> HIDE DEF charges, discounts
    <2>4. /\ i.base \in Nat
          /\ i.base - i.net \in 0..i.base
          /\ \A d \in discounts : i.base - i.net >= i.base \/ i.base - i.net >= Raw(i.base, d)
          /\ i.base - i.net > 0 =>
                \E d \in discounts : /\ d.id = i.applied
                                     /\ i.base - i.net \in {Raw(i.base, d), i.base}
      BY <2>2, <2>3, WinnerTakesAll
    <2>5. 0 <= i.base - i.net /\ i.base - i.net <= i.base
      BY <2>4
    <2>6. QED
      BY <2>4, <2>5 DEF discounts
  <1>2. PricedInv => HighestWins
    BY <1>1 DEF HighestWins
  <1>3. QED
    BY <1>2, PricedAlways, PTL

-----------------------------------------------------------------------------
(* Types.  What Shape leaves open: whose an invoice is, and where a run is *)
(* in its reference, its students and the table of rules.                  *)

Addressed(row) == row.student \in Students /\ row.reference \in References

PlacedRun(x) ==
    /\ x.pc \notin {"idle", "aborted"} => x.reference \in References
    /\ x.todo \subseteq x.students
    /\ x.rules \subseteq rules
    /\ \A i \in x.invoices : Addressed(i)

PlacedInv ==
    /\ cohort \in [Students -> Cohorts]
    /\ \A i \in invoices : Addressed(i)
    /\ \A b \in Runs : PlacedRun(run[b])

(* A statement of one run: what the run becomes is placed, and what it     *)
(* adds to the invoices.                                                   *)
LEMMA PlacedStep ==
    ASSUME Inv, PlacedInv, NEW b \in Runs, NEW x, run' = [run EXCEPT ![b] = x],
           cohort' = cohort, rules' = rules, PlacedRun(x), \A i \in invoices' : Addressed(i)
    PROVE  PlacedInv'
  <1>1. \A d \in Runs : run'[d] = IF d = b THEN x ELSE run[d]
    BY DEF Inv, Shape
  <1>2. ASSUME NEW d \in Runs
        PROVE  PlacedRun(run[d])'
    <2>1. PlacedRun(run'[d])
      BY <1>1 DEF PlacedInv
    <2>2. QED
      BY <2>1 DEF PlacedRun
  <1>3. QED
    BY <1>2 DEF PlacedInv

(* A run without rows and rules of its own.                                *)
LEMMA PlacedNew ==
    ASSUME NEW x, x.todo \subseteq x.students, x.rules = {}, x.invoices = {},
           x.pc = "aborted" \/ x.reference \in References
    PROVE  PlacedRun(x)
  BY DEF PlacedRun

LEMMA PlacedRoll ==
    ASSUME Inv, PlacedInv, NEW b \in Runs, Roll(b)
    PROVE  PlacedInv'
  <1> DEFINE x == [NewRun EXCEPT !.pc = "aborted"]
  <1>1. x.todo = {} /\ x.rules = {} /\ x.invoices = {} /\ x.pc = "aborted"
    BY DEF NewRun
  <1>2. /\ run' = [run EXCEPT ![b] = x]
        /\ cohort' = cohort /\ rules' = rules /\ invoices' = invoices
    BY DEF Roll
  <1> HIDE DEF x
  <1>3. PlacedRun(x)
    BY <1>1, PlacedNew
  <1>4. QED
    BY <1>2, <1>3, PlacedStep DEF PlacedInv

LEMMA PlacedStatement ==
    ASSUME Inv, PlacedInv, NEW b \in Runs, Statement(b)
    PROVE  PlacedInv'
  <1> DEFINE old == run[b]
  <1>1. old \in RunType /\ Local(old) /\ PlacedRun(old) /\ \A i \in invoices : Addressed(i)
    BY DEF PlacedInv, Inv, Shape
  <1>2. CASE LoadRules(b)
    <2> DEFINE mine == {r \in rules : r.cohort \in {old.reference[1], AnyCohort}}
               x == [old EXCEPT !.pc = "next", !.rules = mine]
    <2>1. /\ run' = [run EXCEPT ![b] = x] /\ old.pc = "rules"
          /\ cohort' = cohort /\ rules' = rules /\ invoices' = invoices
      BY <1>2 DEF LoadRules
    <2>2. /\ x.pc = "next" /\ x.rules \subseteq rules /\ x.invoices = old.invoices
          /\ x.reference = old.reference /\ x.todo = old.todo /\ x.students = old.students
      BY <1>1 DEF RunType
    <2> HIDE DEF x
    <2>3. PlacedRun(x)
      BY <1>1, <2>1, <2>2 DEF PlacedRun
    <2>4. QED
      BY <1>1, <2>1, <2>3, PlacedStep
  <1>3. ASSUME NEW s \in Students, CheckInvoice(b, s)
        PROVE  PlacedInv'
    <2> DEFINE x == [old EXCEPT !.todo = @ \ {s}, !.row.student = s,
                        !.pc = IF Has(invoices, s, old.reference) THEN "next" ELSE "price"]
    <2>1. /\ run' = [run EXCEPT ![b] = x] /\ old.pc = "next"
          /\ cohort' = cohort /\ rules' = rules /\ invoices' = invoices
      BY <1>3 DEF CheckInvoice
    <2>2. /\ x.rules = old.rules /\ x.invoices = old.invoices
          /\ x.reference = old.reference /\ x.todo = old.todo \ {s}
          /\ x.students = old.students
      BY <1>1 DEF RunType
    <2> HIDE DEF x
    <2>3. PlacedRun(x)
      BY <1>1, <2>1, <2>2 DEF PlacedRun
    <2>4. QED
      BY <1>1, <2>1, <2>3, PlacedStep
  <1>4. CASE Price(b)
    <2> DEFINE s == old.row.student
               offered == Applicable(old.rules, Tags[s], old.frequency,
                                     {p[1] : p \in {p \in consumed : p[2] = s}})
               row(fee) == [student |-> s, reference |-> old.reference, base |-> fee.base,
                            applied |-> fee.applied, net |-> fee.net, offered |-> offered]
               x(fee) == [old EXCEPT !.pc = "insert", !.row = row(fee)]
    <2>1. PICK fee \in NetFees(OfKind(offered, "charge"), OfKind(offered, "discount")) :
             run' = [run EXCEPT ![b] = x(fee)]
      BY <1>4 DEF Price
    <2>2. /\ old.pc = "price"
          /\ cohort' = cohort /\ rules' = rules /\ invoices' = invoices
      BY <1>4 DEF Price
    <2> HIDE DEF offered, row
    <2>3. /\ x(fee).rules = old.rules /\ x(fee).invoices = old.invoices
          /\ x(fee).reference = old.reference /\ x(fee).todo = old.todo
          /\ x(fee).students = old.students
      BY <1>1 DEF RunType
    <2> HIDE DEF x
    <2>4. PlacedRun(x(fee))
      BY <1>1, <2>2, <2>3 DEF PlacedRun
    <2>5. QED
      BY <1>1, <2>1, <2>2, <2>4, PlacedStep
  <1>5. CASE InsertInvoice(b)
    <2> DEFINE x == [old EXCEPT !.pc = "consume", !.invoices = @ \cup {old.row}]
    <2>1. CASE Has(invoices, old.row.student, old.reference)
      BY <1>5, <2>1, PlacedRoll DEF InsertInvoice
    <2>2. CASE ~Has(invoices, old.row.student, old.reference)
      <3>1. /\ run' = [run EXCEPT ![b] = x] /\ old.pc = "insert"
            /\ cohort' = cohort /\ rules' = rules /\ invoices' = invoices
        BY <1>5, <2>2 DEF InsertInvoice
      <3>2. /\ x.rules = old.rules /\ x.invoices = old.invoices \cup {old.row}
            /\ x.reference = old.reference /\ x.todo = old.todo /\ x.students = old.students
        BY <1>1 DEF RunType
      <3>3. Addressed(old.row)
        BY <1>1, <3>1 DEF Local, PlacedRun, Addressed
      <3> HIDE DEF x
      <3>4. PlacedRun(x)
        BY <1>1, <3>1, <3>2, <3>3 DEF PlacedRun
      <3>5. QED
        BY <1>1, <3>1, <3>4, PlacedStep
    <2>3. QED
      BY <2>1, <2>2
  <1>6. CASE InsertConsumptions(b)
    <2> DEFINE x == [old EXCEPT !.pc = "next", !.row = NoInvoice,
                                !.consumed = @ \cup Consumptions(old.row)]
    <2>1. CASE Consumptions(old.row) \cap consumed # {}
      BY <1>6, <2>1, PlacedRoll DEF InsertConsumptions
    <2>2. CASE Consumptions(old.row) \cap consumed = {}
      <3>1. /\ run' = [run EXCEPT ![b] = x] /\ old.pc = "consume"
            /\ cohort' = cohort /\ rules' = rules /\ invoices' = invoices
        BY <1>6, <2>2 DEF InsertConsumptions
      <3>2. /\ x.rules = old.rules /\ x.invoices = old.invoices
            /\ x.reference = old.reference /\ x.todo = old.todo /\ x.students = old.students
        BY <1>1 DEF RunType
      <3> HIDE DEF x
      <3>3. PlacedRun(x)
        BY <1>1, <3>1, <3>2 DEF PlacedRun
      <3>4. QED
        BY <1>1, <3>1, <3>3, PlacedStep
    <2>3. QED
      BY <2>1, <2>2
  <1>7. CASE Commit(b)
    <2> DEFINE x == [NewRun EXCEPT !.pc = "committed", !.reference = old.reference,
                                   !.students = old.students]
    <2>1. /\ run' = [run EXCEPT ![b] = x] /\ old.pc = "next"
          /\ cohort' = cohort /\ rules' = rules /\ invoices' = invoices \cup old.invoices
      BY <1>7 DEF Commit
    <2>2. /\ x.todo = {} /\ x.rules = {} /\ x.invoices = {} /\ x.reference = old.reference
      BY DEF NewRun
    <2> HIDE DEF x
    <2>3. PlacedRun(x)
      BY <1>1, <2>1, <2>2, PlacedNew DEF PlacedRun
    <2>4. \A i \in invoices' : Addressed(i)
      BY <1>1, <2>1 DEF PlacedRun
    <2>5. QED
      BY <2>1, <2>3, <2>4, PlacedStep
  <1>8. QED
    BY <1>2, <1>3, <1>4, <1>5, <1>6, <1>7 DEF Statement

LEMMA PlacedNext ==
    ASSUME Inv, PlacedInv, [Next]_vars
    PROVE  PlacedInv'
  <1>1. ASSUME NEW r \in Catalogue, CreateRule(r)
        PROVE  PlacedInv'
    BY <1>1 DEF CreateRule, PlacedInv, PlacedRun
  <1>2. ASSUME NEW from \in Cohorts, NEW to \in Cohorts, Promote(from, to)
        PROVE  PlacedInv'
    <2>1. cohort' \in [Students -> Cohorts]
      BY <1>2 DEF Promote, PlacedInv
    <2>2. QED
      BY <1>2, <2>1 DEF Promote, PlacedInv, PlacedRun
  <1>3. ASSUME NEW b \in Runs, NEW c \in Cohorts, NEW period \in Periods,
               NEW frequency \in Frequencies, StartRun(b, c, period, frequency)
        PROVE  PlacedInv'
    <2> DEFINE students == {s \in Students : cohort[s] = c}
               x == [NewRun EXCEPT !.pc = "rules", !.reference = <<c, period>>,
                                   !.frequency = frequency,
                                   !.students = students, !.todo = students]
    <2>1. /\ run' = [run EXCEPT ![b] = x]
          /\ cohort' = cohort /\ rules' = rules /\ invoices' = invoices
      BY <1>3 DEF StartRun
    <2>2. /\ x.todo = x.students /\ x.rules = {} /\ x.invoices = {}
          /\ x.reference = <<c, period>>
      BY DEF NewRun
    <2> HIDE DEF x
    <2>3. PlacedRun(x)
      BY <2>2, PlacedNew DEF References
    <2>4. QED
      BY <2>1, <2>3, PlacedStep DEF PlacedInv
  <1>4. ASSUME NEW b \in Runs, Abort(b)
        PROVE  PlacedInv'
    BY <1>4, PlacedRoll DEF Abort
  <1>5. CASE UNCHANGED vars
    BY <1>5 DEF vars, PlacedInv, PlacedRun
  <1>6. QED
    BY <1>1, <1>2, <1>3, <1>4, <1>5, PlacedStatement DEF Next

(* A priced row that is a student's under a reference is an invoice: its   *)
(* net is not negative (invoice_amounts_nonneg).                           *)
LEMMA RowIsInvoice ==
    ASSUME NEW row \in Bill, Addressed(row), Priced(row)
    PROVE  row \in Invoice
  <1> DEFINE charges == OfKind(row.offered, "charge")
             discounts == OfKind(row.offered, "discount")
  <1>1. /\ charges \subseteq Catalogue /\ discounts \subseteq Catalogue
        /\ IsFiniteSet(charges)
    BY FS_Subset DEF Priced, OfKind
  <1>2. PICK fee \in NetFees(charges, discounts) :
           row.base = fee.base /\ row.applied = fee.applied /\ row.net = fee.net
    BY DEF Priced
  <1>3. fee.applied \in {r.id : r \in Catalogue} \cup {NoRule}
    BY <1>1, <1>2 DEF NetFees, Winners
  <1>4. PICK base \in Nat : base = Base(charges)
    BY <1>1, BaseIsNat
  <1> HIDE DEF charges, discounts
  <1>5. fee.base \in Nat /\ fee.net \in Nat
    <2>1. CASE discounts = {}
      BY <1>2, <1>4, <2>1 DEF NetFees
    <2>2. CASE discounts # {}
      <3>1. PICK w \in Winners(base, discounts) :
               fee = [base |-> base,
                      applied |-> IF DiscountValue(base, w) > 0 THEN w.id ELSE NoRule,
                      net |-> base - DiscountValue(base, w)]
        BY <1>2, <1>4, <2>2 DEF NetFees
      <3>2. PICK best \in 0..base : best = DiscountValue(base, w)
        BY <1>1, <3>1, Worth DEF Winners
      <3>3. fee.base = base /\ fee.net = base - best
        BY <3>1, <3>2
      <3>4. QED
        BY <1>4, <3>2, <3>3
    <2>3. QED
      BY <2>1, <2>2
  <1>6. QED
    BY <1>2, <1>3, <1>5 DEF Bill, Invoice, Addressed

(* What an invoice consumes is a rule of the catalogue for its student.    *)
LEMMA PairsConsumed ==
    ASSUME NEW rows, \A i \in rows : i \in Bill /\ Addressed(i)
    PROVE  ConsumedBy(rows) \subseteq Pairs
  <1>1. \A i \in rows : Consumptions(i) \subseteq Pairs
    BY DEF Consumptions, AppliedOneTime, Pairs, Bill, Addressed
  <1>2. QED
    BY <1>1 DEF ConsumedBy

(* The tables and the runs' rows stay well typed, for any catalogue and    *)
(* any number of runs and students, and no invoice is negative             *)
(* (invoice_amounts_nonneg).                                               *)
THEOREM TypeCorrect == Spec => []TypeOK
  <1>1. Init => PlacedInv
    BY DEF Init, PlacedInv, PlacedRun, NewRun
  <1>2. Inv /\ PlacedInv /\ [Next]_vars => PlacedInv'
    BY PlacedNext
  <1>3. ASSUME Inv, PricedInv, PlacedInv
        PROVE  TypeOK
    <2>1. /\ rules \subseteq Catalogue /\ invoices \subseteq Bill /\ run \in [Runs -> RunType]
          /\ cohort \in [Students -> Cohorts]
      BY <1>3 DEF Inv, Shape, PlacedInv
    <2>2. \A i \in invoices : i \in Bill /\ Addressed(i) /\ Priced(i)
      BY <1>3, <2>1 DEF PlacedInv, PricedInv
    <2>3. invoices \subseteq Invoice
      BY <2>2, RowIsInvoice
    <2>4. consumed \subseteq Pairs
      BY <1>3, <2>2, PairsConsumed DEF Inv, Committed
    <2>5. ASSUME NEW b \in Runs
          PROVE  /\ run[b].pc \in {"idle", "rules", "next", "price", "insert", "consume",
                                    "committed", "aborted"}
                 /\ run[b].pc # "idle" /\ run[b].pc # "aborted" =>
                       run[b].reference \in References
                 /\ run[b].todo \subseteq run[b].students
                 /\ run[b].students \subseteq Students
                 /\ run[b].rules \subseteq rules
                 /\ run[b].pc \in {"insert", "consume"} => run[b].row \in Invoice
                 /\ run[b].invoices \subseteq Invoice
                 /\ run[b].consumed \subseteq Pairs
      <3>1. run[b] \in RunType /\ Local(run[b]) /\ PlacedRun(run[b]) /\ PricedRun(run[b])
        BY <1>3, <2>1 DEF Inv, PlacedInv, PricedInv
      <3>2. \A i \in run[b].invoices : i \in Bill /\ Addressed(i) /\ Priced(i)
        BY <3>1 DEF RunType, PlacedRun, PricedRun
      <3>3. run[b].invoices \subseteq Invoice
        BY <3>2, RowIsInvoice
      <3>4. run[b].consumed \subseteq Pairs
        BY <3>1, <3>2, PairsConsumed DEF Local
      <3>5. ASSUME run[b].pc \in {"insert", "consume"}
            PROVE  run[b].row \in Invoice
        <4>1. Addressed(run[b].row)
          BY <3>1, <3>2, <3>5 DEF Local, PlacedRun, Addressed
        <4>2. run[b].row \in Bill /\ Priced(run[b].row)
          BY <3>1, <3>5 DEF RunType, PricedRun
        <4>3. QED
          BY <4>1, <4>2, RowIsInvoice
      <3>6. run[b].students \subseteq Students /\ run[b].pc \in {"idle", "rules", "next",
               "price", "insert", "consume", "committed", "aborted"}
        BY <3>1 DEF RunType
      <3>7. QED
        BY <3>1, <3>3, <3>4, <3>5, <3>6 DEF PlacedRun
    <2>6. DOMAIN run = Runs
      BY <2>1
    <2>7. QED
      BY <2>1, <2>3, <2>4, <2>5, <2>6 DEF TypeOK
  <1>4. Inv /\ PricedInv /\ PlacedInv => TypeOK
    BY <1>3
  <1>5. QED
    BY <1>1, <1>2, <1>4, Invariance, PricedAlways, PTL DEF Spec

=============================================================================
