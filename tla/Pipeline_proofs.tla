---------------------------- MODULE Pipeline_proofs ----------------------------
(***************************************************************************)
(* Proofs about Inbound and Waterfall along MCPipeline, for any amounts    *)
(* and any number of invoices of any size: what the receiver lets in, that *)
(* both ways in agree, and that the waterfall is the FIFO allocation whose *)
(* postings balance and whose decision fits.                               *)
(***************************************************************************)
EXTENDS MCPipeline, Sums, SequenceTheorems

Bills == {inv \in Stored : inv.settled <= inv.expected}

Over(x) == IF x <= 0 THEN 0 ELSE x

(* What the first k invoices of a list owe.                                *)
Due(list, k) == SumFunctionOnSet([i \in DOMAIN list |-> Payable(list[i])], 1..k)

LEMMA ListOfBills ==
    ASSUME NEW n \in Nat, NEW list \in [1..n -> Bills]
    PROVE  Len(list) = n /\ DOMAIN list = 1..n
  <1>1. list \in Seq(Bills)
    BY SeqDef
  <1>2. DOMAIN list = 1..Len(list) /\ Len(list) \in Nat
    BY <1>1, LenProperties
  <1>3. DOMAIN list = 1..n
    OBVIOUS
  <1>4. 1..Len(list) = 1..n
    BY <1>2, <1>3
  <1>5. PICK m \in Nat : m = Len(list)
    BY <1>2
  <1>6. \A x \in Nat : x \in 1..m <=> x \in 1..n
    BY <1>4, <1>5
  <1>7. m = n
    <2>1. m # 0 => m \in 1..m
      OBVIOUS
    <2>2. n # 0 => n \in 1..n
      OBVIOUS
    <2>3. m <= n
      BY <1>6, <2>1
    <2>4. n <= m
      BY <1>6, <2>2
    <2>5. QED
      BY <2>3, <2>4
  <1>8. QED
    BY <1>3, <1>5, <1>7

LEMMA BillFacts ==
    ASSUME NEW inv \in Bills
    PROVE  /\ inv.expected \in Nat /\ inv.settled \in Nat /\ inv.settled <= inv.expected
           /\ inv.status = IF inv.settled = 0 THEN "open"
                           ELSE IF inv.settled < inv.expected THEN "partially_paid" ELSE "settled"
           /\ inv = [expected |-> inv.expected, settled |-> inv.settled, status |-> inv.status]
  <1>1. PICK x \in 0..MaxInvoice, y \in 0..MaxInvoice :
           inv = [expected |-> x, settled |-> y,
                  status |-> IF y = 0 THEN "open" ELSE IF y < x THEN "partially_paid" ELSE "settled"]
    BY DEF Bills, Stored
  <1>2. inv.settled <= inv.expected
    BY DEF Bills
  <1>3. x \in Nat /\ y \in Nat
    BY PipelineBounds
  <1>4. QED
    BY <1>1, <1>2, <1>3

(* One iteration takes what the invoice owes, or all there is.             *)
LEMMA AppliedIs ==
    ASSUME NEW inv \in Bills, NEW remaining \in Nat
    PROVE  /\ Payable(inv) \in Nat
           /\ Applied(remaining, inv) =
                 IF remaining < Payable(inv) THEN remaining ELSE Payable(inv)
  <1>1. inv.expected \in Nat /\ inv.settled \in Nat
    BY BillFacts
  <1>2. PICK out \in Int : out = inv.expected - inv.settled
    BY <1>1
  <1>3. Payable(inv) = IF IsOpen(inv) /\ out > 0 THEN out ELSE 0
    BY <1>2 DEF Payable, Outstanding
  <1>4. Applied(remaining, inv) =
           IF ~IsOpen(inv) \/ out <= 0 \/ remaining <= 0 THEN 0
           ELSE IF remaining < out THEN remaining ELSE out
    BY <1>2 DEF Applied, Outstanding
  <1>5. CASE IsOpen(inv) /\ out > 0
    BY <1>3, <1>4, <1>5
  <1>6. CASE ~(IsOpen(inv) /\ out > 0)
    BY <1>3, <1>4, <1>6
  <1>7. QED
    BY <1>5, <1>6

LEMMA DueStep ==
    ASSUME NEW n \in Nat, NEW list \in [1..n -> Bills]
    PROVE  /\ Due(list, 0) = 0
           /\ \A k \in 0..n : Due(list, k) \in Nat
           /\ \A k \in 1..n : Due(list, k) = Due(list, k - 1) + Payable(list[k])
  <1> DEFINE f == [i \in DOMAIN list |-> Payable(list[i])]
  <1>1. \A i \in 1..n : f[i] \in Nat /\ f[i] = Payable(list[i])
    BY AppliedIs
  <1>2. \A k : Due(list, k) = SumFunctionOnSet(f, 1..k)
    BY DEF Due
  <1> HIDE DEF f
  <1>3. Due(list, 0) = 0
    <2>1. 1..0 = {}
      OBVIOUS
    <2>2. QED
      BY <1>2, <2>1, SumEmpty
  <1>4. ASSUME NEW k \in 0..n
        PROVE  Due(list, k) \in Nat
    <2>1. IsFiniteSet(1..k)
      <3>1. 1 \in Int /\ k \in Int
        OBVIOUS
      <3>2. QED
        BY ONLY <3>1, FS_Interval
    <2>2. \A i \in 1..k : f[i] \in Nat
      BY <1>1
    <2>3. SumFunctionOnSet(f, 1..k) \in Nat
      BY ONLY <2>1, <2>2, SumNat
    <2>4. QED
      BY <1>2, <2>3
  <1>5. ASSUME NEW k \in 1..n
        PROVE  Due(list, k) = Due(list, k - 1) + Payable(list[k])
    <2>1. 1..k = 1..(k - 1) \cup {k} /\ k \notin 1..(k - 1)
      OBVIOUS
    <2>2. IsFiniteSet(1..(k - 1)) /\ \A i \in 1..(k - 1) \cup {k} : f[i] \in Int
      BY <1>1, FS_Interval
    <2>3. SumFunctionOnSet(f, 1..(k - 1) \cup {k}) = f[k] + SumFunctionOnSet(f, 1..(k - 1))
      BY <2>1, <2>2, SumInsert
    <2>4. PICK a \in Nat : a = Due(list, k - 1)
      BY <1>4
    <2>5. PICK b \in Nat : b = f[k]
      BY <1>1
    <2>6. Due(list, k) = b + a
      BY <1>2, <2>1, <2>3, <2>4, <2>5
    <2>7. QED
      BY <1>1, <2>4, <2>5, <2>6
  <1>6. QED
    BY <1>3, <1>4, <1>5

(* What a run leaves after the k-th invoice is what the first k do not owe *)
LEMMA RunLeaves ==
    ASSUME NEW n \in Nat, NEW list \in [1..n -> Bills], NEW amount \in Nat,
           NEW run \in Runs(amount, list)
    PROVE  \A k \in 0..n : run[k] = Over(amount - Due(list, k))
  <1> DEFINE good == {k \in Nat : k <= n => run[k] = Over(amount - Due(list, k))}
  <1>1. Len(list) = n
    BY ListOfBills
  <1>2. /\ run[0] = amount
        /\ \A i \in 1..n : run[i] = run[i - 1] - Applied(run[i - 1], list[i])
    BY <1>1 DEF Runs
  <1>3. 0 \in good
    BY <1>2, DueStep DEF Over
  <1>4. ASSUME NEW k \in Nat, k \in good
        PROVE  k + 1 \in good
    <2> SUFFICES ASSUME k + 1 <= n
                 PROVE  run[k + 1] = Over(amount - Due(list, k + 1))
      OBVIOUS
    <2>1. k \in 0..n /\ k + 1 \in 1..n /\ (k + 1) - 1 = k
      OBVIOUS
    <2>2. PICK due \in Nat : due = Due(list, k)
      BY <2>1, DueStep
    <2>3. PICK owed \in Nat : owed = Payable(list[k + 1])
      BY <2>1, AppliedIs
    <2>d. \A j \in 1..n : Due(list, j) = Due(list, j - 1) + Payable(list[j])
      BY DueStep
    <2>4. Due(list, k + 1) = due + owed
      BY ONLY <2>1, <2>2, <2>3, <2>d
    <2>5. run[k] = Over(amount - due)
      BY <1>4, <2>1, <2>2
    <2>6. PICK left \in Nat : left = run[k] /\ left = IF amount - due <= 0 THEN 0 ELSE amount - due
      BY <2>5 DEF Over
    <2>7. Applied(left, list[k + 1]) = IF left < owed THEN left ELSE owed
      BY <2>1, <2>3, AppliedIs
    <2>8. run[k + 1] = left - (IF left < owed THEN left ELSE owed)
      BY <1>2, <2>1, <2>6, <2>7
    <2>9. left - (IF left < owed THEN left ELSE owed)
             = IF amount - (due + owed) <= 0 THEN 0 ELSE amount - (due + owed)
      BY <2>6
    <2>10. QED
      BY <2>4, <2>8, <2>9 DEF Over
  <1> HIDE DEF good
  <1>5. \A k \in Nat : k \in good
    BY <1>3, <1>4, NaturalInduction
  <1>6. QED
    BY <1>5 DEF good

(* "There is exactly one run": two runs of an amount are the same.         *)
LEMMA OneRun ==
    ASSUME NEW n \in Nat, NEW list \in [1..n -> Bills], NEW amount \in Nat,
           NEW run \in Runs(amount, list)
    PROVE  Cardinality(Runs(amount, list)) = 1
  <1>1. Len(list) = n
    BY ListOfBills
  <1>2. ASSUME NEW other \in Runs(amount, list)
        PROVE  other = run
    <2>1. other \in [0..n -> 0..amount] /\ run \in [0..n -> 0..amount]
      BY <1>1 DEF Runs
    <2>2. \A k \in 0..n : other[k] = run[k]
      BY RunLeaves
    <2>3. QED
      BY <2>1, <2>2
  <1>3. Runs(amount, list) = {run}
    BY <1>2
  <1>4. QED
    BY <1>3, FS_Singleton

-----------------------------------------------------------------------------
(* What Decide starts from: a payment that reconcile() accepts, over       *)
(* invoices as the program writes them.                                    *)
Pours(n) ==
    /\ invs \in [1..n -> Bills]
    /\ Gross \in Nat /\ Gross > 0
    /\ Fee \in Nat /\ Fee <= Gross
    /\ rem \in Runs(Gross, invs)

(* The run, step by step: what it holds and what each invoice gets.        *)
LEMMA Pouring ==
    ASSUME NEW n \in Nat, Pours(n)
    PROVE  /\ DOMAIN invs = 1..n /\ Len(invs) = n
           /\ rem[0] = Gross
           /\ \A k \in 0..n : rem[k] \in Nat /\ rem[k] <= Gross
           /\ \A i \in 1..n :
                 /\ Payable(invs[i]) \in Nat
                 /\ rem[i - 1] - rem[i] \in 0..Payable(invs[i])
                 /\ rem[i - 1] - rem[i] =
                       IF rem[i - 1] < Payable(invs[i]) THEN rem[i - 1] ELSE Payable(invs[i])
  <1>1. DOMAIN invs = 1..n /\ Len(invs) = n
    BY ListOfBills DEF Pours
  <1>2. /\ rem \in [0..n -> 0..Gross] /\ rem[0] = Gross /\ Gross \in Nat
        /\ \A i \in 1..n : rem[i] = rem[i - 1] - Applied(rem[i - 1], invs[i])
    BY <1>1 DEF Pours, Runs
  <1>3. \A k \in 0..n : rem[k] \in Nat /\ rem[k] <= Gross
    BY <1>2
  <1>4. ASSUME NEW i \in 1..n
        PROVE  /\ Payable(invs[i]) \in Nat
               /\ rem[i - 1] - rem[i] \in 0..Payable(invs[i])
               /\ rem[i - 1] - rem[i] =
                     IF rem[i - 1] < Payable(invs[i]) THEN rem[i - 1] ELSE Payable(invs[i])
    <2>1. invs[i] \in Bills
      BY DEF Pours
    <2>2. i - 1 \in 0..n /\ i \in 0..n
      OBVIOUS
    <2>3. PICK before \in Nat : before = rem[i - 1]
      BY <1>3, <2>2
    <2>4. PICK owed \in Nat : owed = Payable(invs[i])
      BY <2>1, AppliedIs
    <2>5. rem[i] = before - (IF before < owed THEN before ELSE owed)
      BY <1>2, <2>1, <2>3, <2>4, AppliedIs
    <2>6. before - rem[i] = IF before < owed THEN before ELSE owed
      BY <2>5
    <2>7. QED
      BY <2>3, <2>4, <2>6
  <1>5. QED
    BY <1>1, <1>2, <1>3, <1>4

(* The reference's sum over the older invoices.                            *)
LEMMA OlderIsDue ==
    ASSUME NEW n \in Nat, Pours(n), NEW i \in 1..n
    PROVE  OlderThan(i) = Due(invs, i - 1)
  <1> DEFINE f == [j \in 1..(i - 1) |-> Payable(invs[j])]
             g == [j \in DOMAIN invs |-> Payable(invs[j])]
  <1>1. \A j \in 1..(i - 1) : f[j] \in Int /\ f[j] = g[j]
    <2>1. \A j \in 1..(i - 1) : j \in 1..n
      OBVIOUS
    <2>2. QED
      BY <2>1, Pouring
  <1>2. OlderThan(i) = SumFunctionOnSet(f, 1..(i - 1))
    BY DEF OlderThan, SumFunction
  <1>3. Due(invs, i - 1) = SumFunctionOnSet(g, 1..(i - 1))
    BY DEF Due
  <1>4. IsFiniteSet(1..(i - 1))
    BY FS_Interval
  <1> HIDE DEF f, g
  <1>5. QED
    BY <1>1, <1>2, <1>3, <1>4, SumEqual

LEMMA ShareIs ==
    ASSUME NEW n \in Nat, Pours(n), NEW i \in 1..n
    PROVE  Share(i) = rem[i - 1] - rem[i]
  <1>1. PICK due \in Nat : due = Due(invs, i - 1)
    <2>1. i - 1 \in 0..n
      OBVIOUS
    <2>2. QED
      BY <2>1, DueStep DEF Pours
  <1>2. PICK gross \in Nat : gross = Gross
    BY DEF Pours
  <1>3. PICK owed \in Nat : owed = Payable(invs[i])
    BY Pouring
  <1>4. rem[i - 1] = IF gross - due <= 0 THEN 0 ELSE gross - due
    <2>1. i - 1 \in 0..n
      OBVIOUS
    <2>2. rem[i - 1] = Over(Gross - Due(invs, i - 1))
      BY <2>1, RunLeaves DEF Pours
    <2>3. QED
      BY <1>1, <1>2, <2>2 DEF Over
  <1>5. PICK before \in Nat : before = rem[i - 1]
    BY <1>4
  <1>6. rem[i - 1] - rem[i] = IF before < owed THEN before ELSE owed
    BY <1>3, <1>5, Pouring
  <1>7. Share(i) = IF gross - due <= 0 THEN 0
                   ELSE IF gross - due < owed THEN gross - due ELSE owed
    BY <1>1, <1>2, <1>3, OlderIsDue DEF Share
  <1>8. QED
    BY <1>4, <1>5, <1>6, <1>7

LEMMA FifoFits ==
    ASSUME NEW n \in Nat, Pours(n)
    PROVE  Fifo
  <1>1. Cardinality(Runs(Gross, invs)) = 1
    BY OneRun DEF Pours
  <1>2. ASSUME NEW i \in 1..n
        PROVE  After[i].settled = invs[i].settled + Share(i)
    <2>1. PICK share \in Nat : share = rem[i - 1] - rem[i]
      BY Pouring
    <2>2. share = Share(i)
      BY <2>1, ShareIs
    <2>3. invs[i].settled \in Nat /\ "settled" \in DOMAIN invs[i]
      BY BillFacts DEF Pours
    <2>4. After[i] = PayInvoice(invs[i], share)
      BY <2>1, Pouring DEF After, Poured
    <2>5. QED
      BY <2>2, <2>3, <2>4 DEF PayInvoice
  <1>3. Surplus = Gross - SumFunction([i \in DOMAIN invs |-> Share(i)])
    <2> DEFINE d == [i \in DOMAIN invs |-> Share(i)]
    <2>1. DOMAIN d = 1..n /\ \A i \in 1..n : d[i] = rem[i - 1] - rem[i]
      BY Pouring, ShareIs
    <2>2. \A i \in 0..n : rem[i] \in Int
      BY Pouring
    <2> HIDE DEF d
    <2>3. SumFunctionOnSet(d, 1..n) = rem[0] - rem[n]
      BY <2>1, <2>2, Telescope
    <2>4. PICK gross \in Nat : gross = Gross /\ rem[0] = gross
      BY Pouring DEF Pours
    <2>5. PICK surplus \in Nat : surplus = rem[n] /\ Surplus = surplus
      <3>1. n \in 0..n
        OBVIOUS
      <3>2. QED
        BY <3>1, Pouring DEF Surplus
    <2>6. SumFunction(d) = gross - surplus
      BY <2>1, <2>3, <2>4, <2>5 DEF SumFunction
    <2>7. QED
      BY <2>4, <2>5, <2>6 DEF d
  <1>4. QED
    BY <1>1, <1>2, <1>3, Pouring DEF Fifo

(* What an invoice becomes.                                                *)
LEMMA PaidFits ==
    ASSUME NEW inv \in Bills, NEW apply \in 0..Payable(inv), Payable(inv) \in Nat
    PROVE  LET paid == PayInvoice(inv, apply) IN
           /\ paid.settled = inv.settled + apply /\ paid.expected = inv.expected
           /\ paid.settled <= paid.expected
           /\ paid.status = "settled" <=> paid.settled > 0 /\ paid.settled = paid.expected
           /\ paid.status = "open" <=> paid.settled = 0
           /\ Payable(paid) = Payable(inv) - apply
  <1>1. PICK x \in Nat : x = inv.expected
    BY BillFacts
  <1>2. PICK y \in Nat : y = inv.settled
    BY BillFacts
  <1>3. /\ y <= x
        /\ inv.status = IF y = 0 THEN "open" ELSE IF y < x THEN "partially_paid" ELSE "settled"
        /\ inv = [expected |-> x, settled |-> y, status |-> inv.status]
    BY <1>1, <1>2, BillFacts
  <1>4. Payable(inv) = x - y
    BY <1>1, <1>2, <1>3 DEF Payable, IsOpen, Outstanding
  <1> DEFINE z == y + apply
             status == IF apply = 0 THEN inv.status
                       ELSE IF z >= x THEN "settled" ELSE "partially_paid"
             paid == PayInvoice(inv, apply)
  <1>5. apply \in Nat /\ z \in Nat /\ z <= x /\ z = y + apply /\ (apply = 0 => z = y)
    BY <1>4
  <1>6. paid.expected = x /\ paid.settled = z /\ paid.status = status
    <2>1. CASE apply = 0
      BY <1>1, <1>2, <1>5, <2>1 DEF PayInvoice
    <2>2. CASE apply # 0
      <3>1. paid = [inv EXCEPT !.settled = z, !.status = status]
        BY <1>1, <1>2, <2>2 DEF PayInvoice
      <3> HIDE DEF paid, z, status
      <3>2. QED
        BY <1>1, <1>3, <3>1
    <2>3. QED
      BY <2>1, <2>2
  <1>7. status = IF z = 0 THEN "open" ELSE IF z < x THEN "partially_paid" ELSE "settled"
    BY <1>3, <1>5
  <1> HIDE DEF z, status, paid
  <1>8. Payable(paid) = x - z
    BY <1>5, <1>6, <1>7 DEF Payable, IsOpen, Outstanding
  <1>9. x - z = (x - y) - apply
    BY <1>5
  <1>10. paid.status = "settled" <=> z > 0 /\ z = x
    BY <1>5, <1>6, <1>7
  <1>11. QED
    BY <1>1, <1>2, <1>4, <1>5, <1>6, <1>7, <1>8, <1>9, <1>10 DEF paid

LEMMA StatusesFit ==
    ASSUME NEW n \in Nat, Pours(n)
    PROVE  StatusFits
  <1>1. ASSUME NEW i \in 1..n
        PROVE  /\ After[i].settled <= After[i].expected
               /\ After[i].status = "settled" <=>
                     After[i].settled > 0 /\ After[i].settled = After[i].expected
               /\ After[i].status = "open" <=> After[i].settled = 0
    <2>1. After[i] = PayInvoice(invs[i], rem[i - 1] - rem[i])
      BY Pouring DEF After, Poured
    <2>2. /\ invs[i] \in Bills /\ rem[i - 1] - rem[i] \in 0..Payable(invs[i])
          /\ Payable(invs[i]) \in Nat
      BY Pouring DEF Pours
    <2>3. QED
      BY <2>1, <2>2, PaidFits
  <1>2. QED
    BY <1>1, Pouring DEF StatusFits

(* What the loop adds up is what `remaining` went down by.                 *)
LEMMA AppliedAddsUp ==
    ASSUME NEW n \in Nat, Pours(n)
    PROVE  AppliedTotal(rem, invs) = Gross - Surplus
  <1> DEFINE d == [i \in DOMAIN invs |-> Applied(rem[i - 1], invs[i])]
  <1>1. DOMAIN invs = 1..n /\ Len(invs) = n
    BY Pouring
  <1>2. rem[0] = Gross /\ \A i \in 0..n : rem[i] \in Int
    BY Pouring
  <1>3. ASSUME NEW i \in 1..n
        PROVE  d[i] = rem[i - 1] - rem[i]
    <2>1. i - 1 \in 0..n /\ i \in 0..n
      OBVIOUS
    <2>2. PICK before \in Nat : before = rem[i - 1]
      BY <2>1, Pouring
    <2>3. PICK owed \in Nat : owed = Payable(invs[i])
      BY Pouring
    <2>4. Applied(before, invs[i]) = IF before < owed THEN before ELSE owed
      BY <2>3, AppliedIs DEF Pours
    <2>5. rem[i - 1] - rem[i] = IF before < owed THEN before ELSE owed
      BY <2>2, <2>3, Pouring
    <2>6. QED
      BY <1>1, <2>2, <2>4, <2>5
  <1>4. DOMAIN d = 1..n
    BY <1>1
  <1> HIDE DEF d
  <1>5. SumFunctionOnSet(d, 1..n) = rem[0] - rem[n]
    BY <1>2, <1>3, Telescope
  <1>6. QED
    BY <1>1, <1>2, <1>4, <1>5 DEF AppliedTotal, SumFunction, Surplus, d

LEMMA PostingsFit ==
    ASSUME NEW n \in Nat, Pours(n)
    PROVE  PostingsBalance
  <1>1. PICK gross \in Nat : gross = Gross
    BY DEF Pours
  <1>2. PICK fee \in Nat : fee = Fee /\ fee <= gross
    BY <1>1 DEF Pours
  <1>3. PICK surplus \in Nat : surplus = Surplus /\ surplus <= gross
    <2>1. n \in 0..n
      OBVIOUS
    <2>2. QED
      BY <1>1, <2>1, Pouring DEF Surplus
  <1> DEFINE e == CustomerPostings(gross, fee, rem, invs)
             o == OrphanPostings(gross, fee)
  <1>4. /\ e["cash"] = gross - fee /\ e["fees"] = fee /\ e["suspense"] = 0
        /\ e["receivable"] = gross - surplus /\ e["credit"] = surplus
    <2>1. AppliedTotal(rem, invs) = gross - surplus
      BY <1>1, <1>3, AppliedAddsUp
    <2>2. QED
      BY <1>3, <2>1 DEF CustomerPostings, Surplus, Nothing, Accounts
  <1>5. /\ o["cash"] = gross - fee /\ o["fees"] = fee /\ o["suspense"] = gross
        /\ o["receivable"] = 0 /\ o["credit"] = 0
    BY DEF OrphanPostings, Nothing, Accounts
  <1> HIDE DEF e, o
  <1>6. Balanced(e) /\ Balanced(o)
    BY <1>4, <1>5 DEF Balanced
  <1>7. \A a \in Accounts : e[a] >= 0
    BY <1>2, <1>3, <1>4 DEF Accounts
  <1>8. QED
    BY <1>1, <1>2, <1>3, <1>6, <1>7 DEF PostingsBalance, e, o

(* What the first k invoices owe is part of what all of them do.           *)
LEMMA DueGrows ==
    ASSUME NEW n \in Nat, NEW list \in [1..n -> Bills], NEW k \in 0..n
    PROVE  Due(list, k) <= Due(list, n)
  <1> DEFINE good == {m \in Nat : k + m <= n => Due(list, k) <= Due(list, k + m)}
  <1>1. 0 \in good
    <2>1. Due(list, k) \in Nat /\ k + 0 = k
      BY DueStep
    <2>2. QED
      BY <2>1
  <1>2. ASSUME NEW m \in Nat, m \in good
        PROVE  m + 1 \in good
    <2> SUFFICES ASSUME k + (m + 1) <= n
                 PROVE  Due(list, k) <= Due(list, k + (m + 1))
      OBVIOUS
    <2>1. /\ k + m \in 0..n /\ k + (m + 1) \in 1..n /\ (k + (m + 1)) - 1 = k + m
          /\ k + m <= n
      OBVIOUS
    <2>2. PICK a \in Nat : a = Due(list, k)
      BY DueStep
    <2>3. PICK b \in Nat : b = Due(list, k + m) /\ a <= b
      BY <1>2, <2>1, <2>2, DueStep
    <2>4. PICK owed \in Nat : owed = Payable(list[k + (m + 1)])
      BY <2>1, AppliedIs
    <2>d. \A j \in 1..n : Due(list, j) = Due(list, j - 1) + Payable(list[j])
      BY DueStep
    <2>5. Due(list, k + (m + 1)) = b + owed
      BY ONLY <2>1, <2>3, <2>4, <2>d
    <2>6. QED
      BY <2>2, <2>3, <2>5
  <1> HIDE DEF good
  <1>3. n - k \in good /\ n - k \in Nat /\ k + (n - k) = n /\ k \in Nat
    BY <1>1, <1>2, NaturalInduction
  <1>4. QED
    BY <1>3 DEF good

LEMMA TotalIsDue ==
    ASSUME NEW n \in Nat, Pours(n)
    PROVE  TotalOutstanding(invs) = Due(invs, n)
  BY Pouring DEF TotalOutstanding, Due, SumFunction

(* Nothing is touched exactly when nothing is owed.                        *)
LEMMA TouchedIfOwed ==
    ASSUME NEW n \in Nat, Pours(n)
    PROVE  /\ Touched(rem, invs) = {} <=> \A i \in 1..n : Payable(invs[i]) <= 0
           /\ Touched(rem, invs) = {} => Surplus = Gross
  <1>1. Touched(rem, invs) = {} <=> \A i \in 1..n : rem[i] = rem[i - 1]
    BY Pouring DEF Touched
  <1>2. ASSUME \A i \in 1..n : Payable(invs[i]) <= 0, NEW i \in 1..n
        PROVE  rem[i] = rem[i - 1]
    <2>1. Payable(invs[i]) = 0
      BY <1>2, Pouring
    <2>2. PICK a \in Nat, b \in Nat : a = rem[i - 1] /\ b = rem[i]
      <3>1. i - 1 \in 0..n /\ i \in 0..n
        OBVIOUS
      <3>2. QED
        BY <3>1, Pouring
    <2>3. a - b = 0
      BY <2>1, <2>2, Pouring
    <2>4. QED
      BY <2>2, <2>3
  <1>3. ASSUME \A i \in 1..n : rem[i] = rem[i - 1]
        PROVE  \A k \in 0..n : rem[k] = Gross
    <2> DEFINE good == {k \in Nat : k <= n => rem[k] = Gross}
    <2>1. 0 \in good
      BY Pouring
    <2>2. ASSUME NEW k \in Nat, k \in good
          PROVE  k + 1 \in good
      <3>1. k + 1 <= n => k + 1 \in 1..n /\ (k + 1) - 1 = k
        OBVIOUS
      <3>2. QED
        BY <1>3, <2>2, <3>1
    <2> HIDE DEF good
    <2>3. \A k \in Nat : k \in good
      BY <2>1, <2>2, NaturalInduction
    <2>4. QED
      BY <2>3 DEF good
  <1>4. ASSUME \A i \in 1..n : rem[i] = rem[i - 1], NEW i \in 1..n
        PROVE  Payable(invs[i]) <= 0
    <2>1. PICK gross \in Nat : gross = Gross /\ gross > 0
      BY DEF Pours
    <2>2. i - 1 \in 0..n /\ i \in 0..n
      OBVIOUS
    <2>3. rem[i] = gross /\ rem[i - 1] = gross
      BY <1>3, <1>4, <2>1, <2>2
    <2>4. PICK owed \in Nat : owed = Payable(invs[i])
      BY Pouring
    <2>5. 0 = IF gross < owed THEN gross ELSE owed
      BY <2>1, <2>3, <2>4, Pouring
    <2>6. QED
      BY <2>1, <2>4, <2>5
  <1>5. ASSUME \A i \in 1..n : rem[i] = rem[i - 1]
        PROVE  Surplus = Gross
    <2>1. n \in 0..n
      OBVIOUS
    <2>2. QED
      BY <1>3, <1>5, <2>1, Pouring DEF Surplus
  <1>6. QED
    BY <1>1, <1>2, <1>4, <1>5

(* What is owed after the payment.                                         *)
LEMMA OwedAfter ==
    ASSUME NEW n \in Nat, Pours(n), NEW i \in 1..n
    PROVE  /\ DOMAIN After = 1..n
           /\ Payable(After[i]) > 0 <=> rem[i - 1] - rem[i] < Payable(invs[i])
  <1>1. DOMAIN After = 1..n /\ After[i] = PayInvoice(invs[i], rem[i - 1] - rem[i])
    BY Pouring DEF After, Poured
  <1>2. PICK owed \in Nat : owed = Payable(invs[i])
    BY Pouring
  <1>3. PICK share \in 0..owed : share = rem[i - 1] - rem[i]
    BY <1>2, Pouring
  <1>4. Payable(After[i]) = owed - share
    BY <1>1, <1>2, <1>3, PaidFits DEF Pours
  <1>5. QED
    BY <1>1, <1>2, <1>3, <1>4

LEMMA DecisionsFit ==
    ASSUME NEW n \in Nat, Pours(n)
    PROVE  DecisionFits
  <1> DEFINE label == Classification(Gross, invs, rem)
             owed(list) == \E i \in DOMAIN list : Payable(list[i]) > 0
  <1>1. PICK gross \in Nat : gross = Gross /\ gross > 0
    BY DEF Pours
  <1>2. PICK total \in Nat : total = TotalOutstanding(invs) /\ total = Due(invs, n)
    <2>1. n \in 0..n
      OBVIOUS
    <2>2. QED
      BY <2>1, TotalIsDue, DueStep DEF Pours
  <1>3. PICK surplus \in Nat : /\ surplus = Surplus /\ surplus = rem[Len(invs)]
                               /\ surplus = IF gross - total <= 0 THEN 0 ELSE gross - total
    <2>1. n \in 0..n
      OBVIOUS
    <2>2. rem[n] = Over(gross - total) /\ Surplus = rem[n] /\ Len(invs) = n /\ rem[n] \in Nat
      BY <1>1, <1>2, <2>1, Pouring, RunLeaves DEF Pours, Surplus
    <2>3. QED
      BY <2>2 DEF Over
  <1>4. Touched(rem, invs) = {} <=> ~owed(invs)
    <2>1. DOMAIN invs = 1..n /\ \A i \in 1..n : Payable(invs[i]) \in Nat
      BY Pouring
    <2>2. \A i \in 1..n : Payable(invs[i]) <= 0 <=> ~(Payable(invs[i]) > 0)
      BY <2>1
    <2>3. QED
      BY <2>1, <2>2, TouchedIfOwed
  <1>5. Touched(rem, invs) = {} => surplus = gross
    BY <1>1, <1>3, TouchedIfOwed
  <1>6. label = IF Touched(rem, invs) = {} \/ gross > total THEN "overpayment"
                ELSE IF gross < total THEN "underpayment" ELSE "exact"
    BY <1>1, <1>2 DEF Classification
  <1>7. owed(After) <=> gross < total
    <2>1. ASSUME NEW i \in 1..n
          PROVE  /\ rem[i - 1] = Over(gross - Due(invs, i - 1))
                 /\ Due(invs, i - 1) \in Nat /\ Payable(invs[i]) \in Nat
                 /\ Due(invs, i) = Due(invs, i - 1) + Payable(invs[i])
                 /\ rem[i - 1] - rem[i] =
                       IF rem[i - 1] < Payable(invs[i]) THEN rem[i - 1] ELSE Payable(invs[i])
      <3>1. i - 1 \in 0..n
        OBVIOUS
      <3>2. rem[i - 1] = Over(gross - Due(invs, i - 1))
        BY <1>1, <3>1, RunLeaves DEF Pours
      <3>3. Due(invs, i - 1) \in Nat /\ Due(invs, i) = Due(invs, i - 1) + Payable(invs[i])
        BY <3>1, DueStep DEF Pours
      <3>4. QED
        BY <3>2, <3>3, Pouring
    <2>2. ASSUME NEW i \in 1..n
          PROVE  Payable(After[i]) > 0 <=> Payable(invs[i]) > 0 /\ gross < Due(invs, i)
      <3>1. PICK due \in Nat, mine \in Nat, before \in Nat :
               /\ due = Due(invs, i - 1) /\ mine = Payable(invs[i]) /\ before = rem[i - 1]
               /\ before = IF gross - due <= 0 THEN 0 ELSE gross - due
        BY <2>1 DEF Over
      <3>2. Due(invs, i) = due + mine
        BY <2>1, <3>1
      <3>3. rem[i - 1] - rem[i] = IF before < mine THEN before ELSE mine
        BY <2>1, <3>1
      <3>4. (IF before < mine THEN before ELSE mine) < mine
               <=> mine > 0 /\ gross < due + mine
        BY <3>1
      <3>5. QED
        BY <3>1, <3>2, <3>3, <3>4, OwedAfter
    <2>3. ASSUME owed(After)
          PROVE  gross < total
      <3>1. PICK i \in 1..n : Payable(After[i]) > 0
        BY <2>3, Pouring DEF After, Poured
      <3>2. i \in 0..n /\ n \in 0..n
        OBVIOUS
      <3>3. PICK due \in Nat : due = Due(invs, i) /\ due <= total
        BY <1>2, <3>2, DueStep, DueGrows DEF Pours
      <3>4. gross < due
        BY <2>2, <3>1, <3>3
      <3>5. QED
        BY <3>3, <3>4
    <2>4. ASSUME gross < total
          PROVE  owed(After)
      <3> DEFINE short == {k \in Nat : k <= n /\ gross < Due(invs, k)}
      <3>1. n \in short /\ short \in SUBSET Nat
        BY <1>2, <2>4
      <3>2. PICK k \in short : \A j \in short : k <= j
        BY <3>1, Least
      <3>3. k # 0
        BY <3>2, DueStep DEF Pours
      <3>4. k \in 1..n /\ k - 1 \in Nat /\ k - 1 <= n /\ k - 1 \notin short
        BY <3>2, <3>3
      <3>5. PICK a \in Nat, mine \in Nat :
               a = Due(invs, k - 1) /\ mine = Payable(invs[k]) /\ Due(invs, k) = a + mine
        BY <2>1, <3>4
      <3>6. ~(gross < a) /\ gross < a + mine
        BY <3>2, <3>4, <3>5
      <3>7. mine > 0
        BY <3>6
      <3>8. Payable(After[k]) > 0
        BY <2>2, <3>2, <3>4, <3>5, <3>7
      <3>9. QED
        BY <3>4, <3>8, Pouring DEF After, Poured
    <2>5. QED
      BY <2>3, <2>4
  <1> DEFINE untouched == Touched(rem, invs) = {}
             later == owed(After)
             earlier == owed(invs)
  <1>8. /\ untouched <=> ~earlier
        /\ untouched => surplus = gross
        /\ later <=> gross < total
        /\ label = IF untouched \/ gross > total THEN "overpayment"
                   ELSE IF gross < total THEN "underpayment" ELSE "exact"
        /\ RefundAmount(invs, rem) = IF untouched THEN 0 ELSE surplus
    BY <1>3, <1>4, <1>5, <1>6, <1>7 DEF RefundAmount
  <1>9. DecisionFits <=> (Decided => /\ label = "overpayment" <=> surplus > 0
                                     /\ label = "underpayment" <=> surplus = 0 /\ later
                                     /\ RefundAmount(invs, rem) = IF earlier THEN surplus ELSE 0)
    BY <1>3 DEF DecisionFits
  <1> HIDE DEF untouched, later, earlier, label
  <1>10. label = "overpayment" <=> surplus > 0
    BY <1>1, <1>3, <1>8
  <1>11. label = "underpayment" <=> surplus = 0 /\ later
    BY <1>1, <1>3, <1>8
  <1>12. RefundAmount(invs, rem) = IF earlier THEN surplus ELSE 0
    BY <1>8
  <1>13. QED
    BY <1>9, <1>10, <1>11, <1>12

-----------------------------------------------------------------------------
(* The ways in.  An amount in naira comes back as its kobo, whatever the   *)
(* float arithmetic adds.                                                  *)
LEMMA Rounding ==
    ASSUME NEW kobo \in Nat, NEW noise \in Noise
    PROVE  NairaToKobo(KoboToNaira(kobo), noise) = kobo
  <1>1. noise \in -49..49
    BY NoiseIsSmall
  <1>2. (kobo * 100 + noise + 50) \div 100 = kobo
    BY <1>1
  <1>3. QED
    BY <1>2 DEF NairaToKobo, KoboToNaira

LEMMA OrElseOne ==
    ASSUME NEW x, NEW default
    PROVE  OrElse({x}, default) = x
  BY DEF OrElse

(* Options that agree: the first one given is what they say.               *)
LEMMA FirstGiven ==
    ASSUME NEW options, DOMAIN options \subseteq Nat, NEW x,
           \A i \in DOMAIN options : options[i] \in {{}, {x}},
           \E i \in DOMAIN options : options[i] = {x}
    PROVE  First(options) = {x}
  <1> DEFINE given == {i \in DOMAIN options : options[i] # {}}
             first == CHOOSE i \in given : \A j \in given : i <= j
  <1>1. given # {} /\ given \in SUBSET Nat
    OBVIOUS
  <1>2. first \in given
    <2>1. \E i \in given : \A j \in given : i <= j
      BY <1>1, Least
    <2>2. QED
      BY <2>1
  <1>3. First(options) = options[first]
    BY <1>1 DEF First
  <1> HIDE DEF first
  <1>4. QED
    BY <1>2, <1>3

LEMMA FirstOfThree ==
    ASSUME NEW x, NEW a \in {{}, {x}}, NEW b \in {{}, {x}}, NEW c \in {{}, {x}},
           {x} \in {a, b, c}
    PROVE  First(<<a, b, c>>) = {x}
  <1> DEFINE options == <<a, b, c>>
  <1>1. DOMAIN options = {1, 2, 3} /\ options[1] = a /\ options[2] = b /\ options[3] = c
    OBVIOUS
  <1> HIDE DEF options
  <1>2. First(options) = {x}
    BY <1>1, FirstGiven
  <1>3. QED
    BY <1>2 DEF options

LEMMA FirstOfTwo ==
    ASSUME NEW x, NEW a \in {{}, {x}}, NEW b \in {{}, {x}}, {x} \in {a, b}
    PROVE  First(<<a, b>>) = {x}
  <1> DEFINE options == <<a, b>>
  <1>1. DOMAIN options = {1, 2} /\ options[1] = a /\ options[2] = b
    OBVIOUS
  <1> HIDE DEF options
  <1>2. First(options) = {x}
    BY <1>1, FirstGiven
  <1>3. QED
    BY <1>2 DEF options

(* Nothing is given.                                                       *)
LEMMA FirstOfNone == First(<<{}, {}>>) = {} /\ First(<<{}, {}, {}>>) = {}
  <1>1. ASSUME NEW options, \A i \in DOMAIN options : options[i] = {}
        PROVE  First(options) = {}
    BY <1>1 DEF First
  <1> DEFINE two == <<{}, {}>>
             three == <<{}, {}, {}>>
  <1>2. \A i \in DOMAIN two : two[i] = {}
    OBVIOUS
  <1>3. \A i \in DOMAIN three : three[i] = {}
    OBVIOUS
  <1> HIDE DEF two, three
  <1>4. First(two) = {} /\ First(three) = {}
    BY <1>1, <1>2, <1>3
  <1>5. QED
    BY <1>4 DEF two, three

(* The first of two, when it is there.                                     *)
LEMMA FirstIsHead ==
    ASSUME NEW x, NEW b
    PROVE  First(<<{x}, b>>) = {x}
  <1> DEFINE options == <<{x}, b>>
             given == {i \in DOMAIN options : options[i] # {}}
             first == CHOOSE i \in given : \A j \in given : i <= j
  <1>1. DOMAIN options = 1..2 /\ options[1] = {x} /\ 1..2 = {1, 2}
    OBVIOUS
  <1> HIDE DEF options
  <1>2. 1 \in given /\ \A j \in given : 1 <= j
    BY <1>1
  <1>3. given \in SUBSET Nat
    BY <1>1
  <1>4. first \in given /\ \A j \in given : first <= j
    BY <1>2
  <1>5. first = 1
    BY <1>2, <1>3, <1>4
  <1>6. First(options) = options[first]
    BY <1>2 DEF First
  <1>7. QED
    BY <1>1, <1>5, <1>6 DEF options

-----------------------------------------------------------------------------
LEMMA WebhookFacts ==
    ASSUME delivery \in Webhooks
    PROVE  /\ delivery.path = "webhook"
           /\ delivery.scheme \in {"colon", "raw", "unsigned"}
           /\ delivery.key \in {"ours", "another"}
           /\ delivery.timestampSent \in BOOLEAN
           /\ delivery.omitted \subseteq {"aliasAccountReference", "aliasAccountNumber", "fee"}
           /\ delivery.userId \in Ids /\ delivery.responseCode \in Texts
  BY DEF Webhooks

LEMMA ListingFacts ==
    ASSUME delivery \in Listings
    PROVE  /\ delivery.path = "backfill"
           /\ delivery.amounts \subseteq {"top", "meta", "plain"}
           /\ delivery.fees \subseteq {"top", "meta"}
           /\ delivery.sessions \subseteq {"top", "meta"}
           /\ delivery.times \subseteq {"time", "timeCreated"} /\ delivery.reference \in BOOLEAN
  BY DEF Listings

(* The transfer as a listed transaction shows it.                          *)
LEMMA ListedAmounts ==
    ASSUME NEW g \in Nat, NEW f \in Nat, transfer = Transfer(g, f), delivery \in Listings,
           NEW noise \in Noise
    PROVE  /\ MapTransaction(Entry, noise).amount = IF delivery.amounts # {} THEN g ELSE 0
           /\ MapTransaction(Entry, noise).fee = IF delivery.fees # {} THEN f ELSE 0
           /\ "top" \in delivery.sessions => MapTransaction(Entry, noise).sessionId = {"session"}
           /\ delivery.times # {} => MapTransaction(Entry, noise).occurredAt = {"t0"}
           /\ MapTransaction(Entry, noise).aliasAccountReference \in {{}, {"r1"}}
  <1> DEFINE tx == MapTransaction(Entry, noise)
             naira == KoboToNaira(g)
             levy == KoboToNaira(f)
             e == Entry
  <1>1. /\ e.transactionAmount = Opt(naira, "top" \in delivery.amounts)
        /\ e.metaTransactionAmount = Opt(naira, "meta" \in delivery.amounts)
        /\ e.amount = Opt(naira, "plain" \in delivery.amounts)
        /\ e.fee = Opt(levy, "top" \in delivery.fees)
        /\ e.metaFee = Opt(levy, "meta" \in delivery.fees)
        /\ e.sessionId = Opt("session", "top" \in delivery.sessions)
        /\ e.aliasAccountReference = Opt("r1", delivery.reference)
        /\ e.time = Opt("t0", "time" \in delivery.times)
        /\ e.timeCreated = Opt("t0", "timeCreated" \in delivery.times)
    BY DEF Entry, Transfer, KoboToNaira
  <1>2. /\ tx.amount = Num(<<e.transactionAmount, e.metaTransactionAmount, e.amount>>, noise)
        /\ tx.fee = Num(<<e.fee, e.metaFee>>, noise)
        /\ tx.sessionId = First(<<e.sessionId, e.metaTransactionId>>)
        /\ tx.occurredAt = First(<<e.time, e.timeCreated>>)
        /\ tx.aliasAccountReference = e.aliasAccountReference
    BY DEF MapTransaction
  <1> HIDE DEF e, tx, naira, levy
  <1>3. \A x : Opt(x, TRUE) = {x} /\ Opt(x, FALSE) = {}
    BY DEF Opt
  <1>4. First(<<e.transactionAmount, e.metaTransactionAmount, e.amount>>) =
            IF delivery.amounts # {} THEN {naira} ELSE {}
    <2>1. /\ e.transactionAmount \in {{}, {naira}} /\ e.metaTransactionAmount \in {{}, {naira}}
          /\ e.amount \in {{}, {naira}}
      BY <1>1 DEF Opt
    <2>2. CASE delivery.amounts # {}
      <3>1. {naira} \in {e.transactionAmount, e.metaTransactionAmount, e.amount}
        BY <1>1, <2>2, ListingFacts DEF Opt
      <3>2. QED
        BY <2>1, <2>2, <3>1, FirstOfThree
    <2>3. CASE delivery.amounts = {}
      <3>1. e.transactionAmount = {} /\ e.metaTransactionAmount = {} /\ e.amount = {}
        BY <1>1, <2>3 DEF Opt
      <3>2. QED
        BY <2>3, <3>1, FirstOfNone
    <2>4. QED
      BY <2>2, <2>3
  <1>5. First(<<e.fee, e.metaFee>>) = IF delivery.fees # {} THEN {levy} ELSE {}
    <2>1. e.fee \in {{}, {levy}} /\ e.metaFee \in {{}, {levy}}
      BY <1>1 DEF Opt
    <2>2. CASE delivery.fees # {}
      <3>1. {levy} \in {e.fee, e.metaFee}
        BY <1>1, <2>2, ListingFacts DEF Opt
      <3>2. QED
        BY <2>1, <2>2, <3>1, FirstOfTwo
    <2>3. CASE delivery.fees = {}
      <3>1. e.fee = {} /\ e.metaFee = {}
        BY <1>1, <2>3 DEF Opt
      <3>2. QED
        BY <2>3, <3>1, FirstOfNone
    <2>4. QED
      BY <2>2, <2>3
  <1>6. tx.amount = IF delivery.amounts # {} THEN g ELSE 0
    <2>1. tx.amount = IF delivery.amounts # {} THEN NairaToKobo(naira, noise) ELSE 0
      BY <1>2, <1>4, OrElseOne DEF Num
    <2>2. QED
      BY <2>1, Rounding DEF naira
  <1>7. tx.fee = IF delivery.fees # {} THEN f ELSE 0
    <2>1. tx.fee = IF delivery.fees # {} THEN NairaToKobo(levy, noise) ELSE 0
      BY <1>2, <1>5, OrElseOne DEF Num
    <2>2. QED
      BY <2>1, Rounding DEF levy
  <1>8. "top" \in delivery.sessions => tx.sessionId = {"session"}
    BY <1>1, <1>2, FirstIsHead DEF Opt
  <1>9. delivery.times # {} => tx.occurredAt = {"t0"}
    <2>1. e.time \in {{}, {"t0"}} /\ e.timeCreated \in {{}, {"t0"}}
      BY <1>1 DEF Opt
    <2>2. delivery.times # {} => {"t0"} \in {e.time, e.timeCreated}
      BY <1>1, ListingFacts DEF Opt
    <2>3. QED
      BY <1>2, <2>1, <2>2, FirstOfTwo
  <1>10. tx.aliasAccountReference \in {{}, {"r1"}}
    BY <1>1, <1>2 DEF Opt
  <1>11. QED
    BY <1>6, <1>7, <1>8, <1>9, <1>10 DEF tx

-----------------------------------------------------------------------------
(* The receiver.                                                           *)
Received == Receive(WebhookBody, Header, Opt("now", delivery.timestampSent), "ours")

LEMMA IdFacts ==
    ASSUME NEW v \in Ids
    PROVE  \/ v.kind = "string" /\ v.text = "user"
           \/ v.kind = "number" /\ v.text = "7"
           \/ v.kind = "missing" /\ v.text = ""
  <1>1. CASE v = [kind |-> "string", text |-> "user"]
    BY <1>1
  <1>2. CASE v = [kind |-> "number", text |-> "7"]
    BY <1>2
  <1>3. CASE v = Missing
    BY <1>3 DEF Missing
  <1>4. QED
    BY <1>1, <1>2, <1>3 DEF Ids

LEMMA TextFacts ==
    ASSUME NEW v \in Texts
    PROVE  \/ v.kind = "string" /\ v.text \in {"", "null", "00"}
           \/ v.kind \in {"missing", "null"} /\ v.text = ""
  <1>1. CASE v = [kind |-> "string", text |-> ""]
    BY <1>1
  <1>2. CASE v = [kind |-> "string", text |-> "null"]
    BY <1>2
  <1>3. CASE v = [kind |-> "string", text |-> "00"]
    BY <1>3
  <1>4. CASE v = Missing
    BY <1>4 DEF Missing
  <1>5. CASE v = [kind |-> "null", text |-> ""]
    BY <1>5
  <1>6. QED
    BY <1>1, <1>2, <1>3, <1>4, <1>5 DEF Texts

(* Both sides build the same text of a body whose fields are primitive.    *)
LEMMA SameText ==
    ASSUME delivery \in Webhooks
    PROVE  BuildSignaturePayload(WebhookBody, "now")
              = <<"transfer", SignedText(delivery.userId), SignedText(delivery.responseCode), "now">>
  <1>1. /\ WebhookBody.identity = "transfer" /\ WebhookBody.userId = delivery.userId
        /\ WebhookBody.responseCode = delivery.responseCode
    BY DEF WebhookBody
  <1>2. Str(delivery.userId) = SignedText(delivery.userId)
    BY WebhookFacts, IdFacts DEF Str, SignedText
  <1>3. (IF Str(delivery.responseCode) = "null" THEN "" ELSE Str(delivery.responseCode))
           = SignedText(delivery.responseCode)
    BY WebhookFacts, TextFacts DEF Str, SignedText
  <1>4. QED
    BY <1>1, <1>2, <1>3 DEF BuildSignaturePayload

LEMMA Verified ==
    ASSUME delivery \in Webhooks
    PROVE  /\ Header = {} <=> delivery.scheme = "unsigned"
           /\ VerifyWebhook(WebhookBody, Header, Opt("now", delivery.timestampSent), "ours") <=>
                 /\ delivery.scheme # "unsigned"
                 /\ delivery.key = "ours"
                 /\ delivery.scheme = "colon" => delivery.timestampSent
  <1> DEFINE times == Opt("now", delivery.timestampSent)
             signed == BuildSignaturePayload(WebhookBody, "now")
             raw == RawBody(WebhookBody)
             mac == IF delivery.scheme = "raw" THEN Hmac(delivery.key, raw, "hex")
                    ELSE Hmac(delivery.key, signed, "base64")
  <1>1. times = IF delivery.timestampSent THEN {"now"} ELSE {}
    BY WebhookFacts DEF Opt
  <1>2. Header = IF delivery.scheme = "unsigned" THEN {}
                 ELSE {[mac |-> mac, upperCase |-> delivery.upperCase]}
    BY SameText DEF Header
  <1>3. VerifyWebhook(WebhookBody, Header, times, "ours") <=>
           \E h \in Header :
              \/ \E t \in times : Hmac("ours", BuildSignaturePayload(WebhookBody, t), "base64") = h.mac
              \/ Hmac("ours", raw, "hex") = h.mac
    BY DEF VerifyWebhook, CiEqual
  <1>4. VerifyWebhook(WebhookBody, Header, times, "ours") <=>
           /\ delivery.scheme # "unsigned"
           /\ \/ delivery.timestampSent /\ Hmac("ours", signed, "base64") = mac
              \/ Hmac("ours", raw, "hex") = mac
    <2> HIDE DEF mac, raw
    <2>1. CASE delivery.scheme = "unsigned"
      BY <1>2, <1>3, <2>1
    <2>2. CASE delivery.scheme # "unsigned"
      <3>1. VerifyWebhook(WebhookBody, Header, times, "ours") <=>
               \/ \E t \in times :
                     Hmac("ours", BuildSignaturePayload(WebhookBody, t), "base64") = mac
               \/ Hmac("ours", raw, "hex") = mac
        <4>1. PICK h : Header = {h} /\ h.mac = mac
          <5>1. PICK h : h = [mac |-> mac, upperCase |-> delivery.upperCase]
            OBVIOUS
          <5>2. Header = {h} /\ h.mac = mac
            BY <1>2, <2>2, <5>1
          <5>3. QED
            BY <5>2
        <4>2. QED
          BY <1>3, <4>1
      <3>2. (\E t \in times :
                Hmac("ours", BuildSignaturePayload(WebhookBody, t), "base64") = mac)
               <=> delivery.timestampSent /\ Hmac("ours", signed, "base64") = mac
        BY <1>1, WebhookFacts
      <3>3. QED
        BY <2>2, <3>1, <3>2
    <2>3. QED
      BY <2>1, <2>2
  <1> HIDE DEF signed, raw
  <1>5. ASSUME NEW k, NEW x, NEW y, NEW d, NEW e
        PROVE  Hmac(k, x, d) = Hmac("ours", y, e) <=> k = "ours" /\ x = y /\ d = e
    BY DEF Hmac
  <1>6. Hmac("ours", signed, "base64") = mac <=>
           delivery.scheme # "raw" /\ delivery.key = "ours"
    BY <1>5
  <1>7. Hmac("ours", raw, "hex") = mac <=> delivery.scheme = "raw" /\ delivery.key = "ours"
    BY <1>5
  <1>8. QED
    BY <1>2, <1>4, <1>6, <1>7, WebhookFacts

LEMMA ReceivedIs ==
    ASSUME delivery \in Webhooks
    PROVE  /\ Received \in {"ignored", "refused", "failed", "persisted"}
           /\ Received = "ignored" <=> delivery.scheme = "unsigned"
           /\ Received = "refused" <=>
                 /\ delivery.scheme # "unsigned"
                 /\ \/ delivery.key = "another"
                    \/ delivery.scheme = "colon" /\ ~delivery.timestampSent
           /\ Received = "failed" =>
                 \/ "null" \in {delivery.userId.kind, delivery.responseCode.kind}
                 \/ delivery.userId.kind = "number"
           /\ Received = "persisted" => EnvelopeParses(WebhookBody)
  <1> DEFINE parses == EnvelopeParses(WebhookBody)
             verified == VerifyWebhook(WebhookBody, Header, Opt("now", delivery.timestampSent), "ours")
  <1>1. Received = IF Header = {} THEN "ignored" ELSE IF ~verified THEN "refused"
                   ELSE IF ~parses THEN "failed" ELSE "persisted"
    BY DEF Received, Receive
  <1>2. parses <=> OptionalString(delivery.userId) /\ OptionalString(delivery.responseCode)
    BY DEF EnvelopeParses, WebhookBody, OptionalString
  <1>3. ~parses => \/ "null" \in {delivery.userId.kind, delivery.responseCode.kind}
                   \/ delivery.userId.kind = "number"
    BY <1>2, WebhookFacts, IdFacts, TextFacts DEF OptionalString
  <1> HIDE DEF parses, verified
  <1>4. /\ Header = {} <=> delivery.scheme = "unsigned"
        /\ verified <=> /\ delivery.scheme # "unsigned"
                        /\ delivery.key = "ours"
                        /\ delivery.scheme = "colon" => delivery.timestampSent
    BY Verified DEF verified
  <1>5. QED
    BY <1>1, <1>3, <1>4, WebhookFacts DEF parses

-----------------------------------------------------------------------------
(* The persisted body, and what the engine sees of it.                     *)
Account == [accountRef |-> "r1", number |-> "n1"]

Bodied ==
    \/ delivery \in Webhooks /\ Received = "persisted" /\ body = WebhookBody
    \/ /\ delivery \in Listings
       /\ \E noise \in Noise :
             LET tx == MapTransaction(Entry, noise) IN
             Scanned(tx) /\ body = BuildSyntheticPayload(Account, tx)

(* The fee that reaches the engine.                                        *)
SeenFee(f) == IF FeeShown THEN f ELSE 0

\* What a JSON value's kind is, for a value that is absent and for a string.
LEMMA KindOfMissing ==
    ASSUME NEW v, v = Missing
    PROVE  v.kind = "missing"
  BY DEF Missing

LEMMA KindOfString ==
    ASSUME NEW v, NEW t, v = [kind |-> "string", text |-> t]
    PROVE  v.kind = "string"
  OBVIOUS

(* What every body carries, by either way in.                              *)
LEMMA BodyCarries ==
    ASSUME NEW g \in Nat, NEW f \in Nat, transfer = Transfer(g, f), Bodied
    PROVE  /\ body.transactionAmount = {KoboToNaira(g)}
           /\ body.fee \in {{}, {KoboToNaira(SeenFee(f))}}
           /\ body.fee = {} => SeenFee(f) = 0
           /\ Complete => EnvelopeParses(body) /\ body.sessionId = {"session"}
           /\ body.aliasAccountReference \in {{}, {"r1"}}
           /\ body.aliasAccountNumber \in {{}, {"n1"}}
           /\ Identified => \/ body.aliasAccountReference = {"r1"}
                            \/ body.aliasAccountNumber = {"n1"}
  <1>1. CASE delivery \in Webhooks /\ Received = "persisted" /\ body = WebhookBody
    <2>1. /\ body.transactionAmount = {KoboToNaira(g)}
          /\ body.fee = Opt(KoboToNaira(f), "fee" \notin delivery.omitted)
          /\ body.sessionId = {"session"}
          /\ body.aliasAccountReference = Opt("r1", "aliasAccountReference" \notin delivery.omitted)
          /\ body.aliasAccountNumber = Opt("n1", "aliasAccountNumber" \notin delivery.omitted)
      BY <1>1 DEF WebhookBody, Transfer
    <2>2. EnvelopeParses(body)
      BY <1>1, ReceivedIs
    <2>3. Identified => \/ "aliasAccountReference" \notin delivery.omitted
                        \/ "aliasAccountNumber" \notin delivery.omitted
      BY <1>1, WebhookFacts DEF Identified
    <2>4. SeenFee(f) = IF "fee" \notin delivery.omitted THEN f ELSE 0
      BY <1>1, WebhookFacts DEF SeenFee, FeeShown
    <2>5. QED
      BY <2>1, <2>2, <2>3, <2>4 DEF Opt
  <1>2. ASSUME delivery \in Listings, NEW noise \in Noise, Scanned(MapTransaction(Entry, noise)),
               body = BuildSyntheticPayload(Account, MapTransaction(Entry, noise))
        PROVE  /\ body.transactionAmount = {KoboToNaira(g)}
               /\ body.fee = {KoboToNaira(SeenFee(f))}
               /\ Complete => EnvelopeParses(body) /\ body.sessionId = {"session"}
               /\ body.aliasAccountReference = {"r1"} /\ body.aliasAccountNumber = {"n1"}
    <2> DEFINE tx == MapTransaction(Entry, noise)
    <2>0. SeenFee(f) = IF delivery.fees # {} THEN f ELSE 0
      BY <1>2, ListingFacts DEF SeenFee, FeeShown
    <2>1. /\ tx.amount = g /\ tx.fee = SeenFee(f)
          /\ "top" \in delivery.sessions => tx.sessionId = {"session"}
          /\ delivery.times # {} => tx.occurredAt = {"t0"}
          /\ tx.aliasAccountReference \in {{}, {"r1"}}
      <3>1. tx.amount > 0
        BY <1>2 DEF Scanned
      <3>2. QED
        BY <1>2, <2>0, <3>1, ListedAmounts
    <2> HIDE DEF tx
    <2>2. body = BuildSyntheticPayload(Account, tx)
      BY <1>2 DEF tx
    <2>3. /\ body.transactionAmount = {KoboToNaira(tx.amount)}
          /\ body.fee = {KoboToNaira(tx.fee)}
          /\ body.sessionId = tx.sessionId
          /\ body.aliasAccountReference = {OrElse(tx.aliasAccountReference, "r1")}
          /\ body.aliasAccountNumber = {"n1"}
          /\ body.userId = Missing /\ body.responseCode = [kind |-> "string", text |-> ""]
          /\ body.time = IF tx.occurredAt = {} THEN [kind |-> "null", text |-> ""]
                         ELSE [kind |-> "string", text |-> OrElse(tx.occurredAt, "")]
      BY <2>2 DEF BuildSyntheticPayload, Account
    <2>4. OrElse(tx.aliasAccountReference, "r1") = "r1"
      BY <2>1 DEF OrElse
    <2>5. Complete => "top" \in delivery.sessions /\ delivery.times # {}
      BY <1>2, ListingFacts DEF Complete
    <2>6. body.userId.kind = "missing" /\ body.responseCode.kind = "string"
      <3>1. body.userId = Missing /\ body.responseCode = [kind |-> "string", text |-> ""]
        BY <2>3
      <3>2. body.userId.kind = "missing"
        BY <3>1, KindOfMissing
      <3>3. body.responseCode.kind = "string"
        BY <3>1, KindOfString
      <3>4. QED
        BY <3>2, <3>3
    <2>7. Complete => body.time.kind = "string"
      <3>1. ASSUME Complete
            PROVE  body.time.kind = "string"
        <4>1. body.time = [kind |-> "string", text |-> OrElse(tx.occurredAt, "")]
          BY <2>1, <2>3, <2>5, <3>1
        <4>2. QED
          BY <4>1, KindOfString
      <3>2. QED
        BY <3>1
    <2>8. Complete => EnvelopeParses(body)
      BY <2>6, <2>7 DEF EnvelopeParses, OptionalString
    <2>9. QED
      BY <2>1, <2>3, <2>4, <2>5, <2>8
  <1>3. QED
    BY <1>1, <1>2 DEF Bodied

LEMMA EngineSees ==
    ASSUME NEW g \in Nat, NEW f \in Nat, transfer = Transfer(g, f), Bodied,
           NEW noise \in Noise
    PROVE  LET seen == NormalizeInboundPayment(body, noise) IN
           /\ seen.gross = g /\ seen.fee = SeenFee(f)
           /\ Complete => InboundParses(body) /\ seen.sessionId = "session"
           /\ Identified => Resolve(Customers, VirtualAccounts, seen) = {"owner"}
  <1> DEFINE seen == NormalizeInboundPayment(body, noise)
  <1>1. /\ seen.gross = NairaToKobo(OrElse(body.transactionAmount, 0), noise)
        /\ seen.fee = NairaToKobo(OrElse(body.fee, 0), noise)
        /\ seen.sessionId = OrElse(body.sessionId, "")
        /\ seen.accountRef = body.aliasAccountReference
        /\ seen.virtualAccountNumber = body.aliasAccountNumber
    BY DEF NormalizeInboundPayment
  <1> HIDE DEF seen
  <1>2. seen.gross = g
    <2>1. body.transactionAmount = {KoboToNaira(g)}
      BY BodyCarries
    <2>2. PICK naira : naira = KoboToNaira(g)
      OBVIOUS
    <2>3. OrElse(body.transactionAmount, 0) = naira
      BY <2>1, <2>2, OrElseOne
    <2>4. QED
      BY <1>1, <2>2, <2>3, Rounding
  <1>c. PICK charged \in Nat : charged = SeenFee(f)
    BY DEF SeenFee
  <1>3. seen.fee = charged
    <2>1. /\ body.fee \in {{}, {KoboToNaira(charged)}}
          /\ body.fee = {} => charged = 0
      BY <1>c, BodyCarries
    <2>2. PICK naira : naira = KoboToNaira(charged)
      OBVIOUS
    <2>3. OrElse(body.fee, 0) = naira
      <3>1. CASE body.fee = {}
        BY <2>1, <2>2, <3>1 DEF OrElse, KoboToNaira
      <3>2. CASE body.fee = {KoboToNaira(charged)}
        BY <2>2, <3>2, OrElseOne
      <3>3. QED
        BY <2>1, <3>1, <3>2
    <2>4. QED
      BY <1>1, <2>2, <2>3, Rounding
  <1>4. Complete => InboundParses(body) /\ seen.sessionId = "session"
    <2>1. KoboToNaira(g) >= 0 /\ KoboToNaira(charged) >= 0
      BY DEF KoboToNaira
    <2>2. \A fee \in body.fee : fee >= 0
      <3>1. body.fee \in {{}, {KoboToNaira(charged)}}
        BY <1>c, BodyCarries
      <3>2. QED
        BY <2>1, <3>1
    <2>3. \E amount \in body.transactionAmount : amount >= 0
      <3>1. body.transactionAmount = {KoboToNaira(g)}
        BY BodyCarries
      <3>2. QED
        BY <2>1, <3>1
    <2>4. ASSUME Complete
          PROVE  InboundParses(body) /\ seen.sessionId = "session"
      <3>1. EnvelopeParses(body) /\ body.sessionId = {"session"}
        BY <2>4, BodyCarries
      <3>2. OrElse(body.sessionId, "") = "session"
        BY ONLY <3>1, OrElseOne
      <3>3. InboundParses(body)
        BY <2>2, <2>3, <3>1 DEF InboundParses
      <3>4. QED
        BY <1>1, <3>2, <3>3
    <2>5. QED
      BY <2>4
  <1>5. Identified => Resolve(Customers, VirtualAccounts, seen) = {"owner"}
    <2> DEFINE byRef == {c.id : c \in {c \in Customers : c.accountRef \in seen.accountRef}}
               byNumber == {a.customer : a \in {a \in VirtualAccounts :
                                                   a.number \in seen.virtualAccountNumber}}
    <2>1. Resolve(Customers, VirtualAccounts, seen) = IF byRef # {} THEN byRef ELSE byNumber
      BY DEF Resolve
    <2>2. seen.accountRef = {"r1"} => byRef = {"owner"}
      <3>1. PICK a, b : /\ a = [id |-> "owner", accountRef |-> "r1"]
                        /\ b = [id |-> "other", accountRef |-> "r2"]
        OBVIOUS
      <3>2. a.id = "owner" /\ a.accountRef = "r1" /\ b.accountRef = "r2"
        BY <3>1
      <3>3. Customers = {a, b}
        BY <3>1 DEF Customers
      <3>4. QED
        BY <3>2, <3>3
    <2>3. seen.accountRef = {} => byRef = {}
      OBVIOUS
    <2>4. seen.virtualAccountNumber = {"n1"} => byNumber = {"owner"}
      <3>1. PICK a, b : /\ a = [customer |-> "owner", number |-> "n1"]
                        /\ b = [customer |-> "other", number |-> "n2"]
        OBVIOUS
      <3>2. a.customer = "owner" /\ a.number = "n1" /\ b.number = "n2"
        BY <3>1
      <3>3. VirtualAccounts = {a, b}
        BY <3>1 DEF VirtualAccounts
      <3>4. QED
        BY <3>2, <3>3
    <2> HIDE DEF byRef, byNumber
    <2>5. /\ seen.accountRef \in {{}, {"r1"}}
          /\ Identified => seen.accountRef = {"r1"} \/ seen.virtualAccountNumber = {"n1"}
      BY <1>1, BodyCarries
    <2>6. QED
      BY <2>1, <2>2, <2>3, <2>4, <2>5
  <1>6. QED
    BY <1>2, <1>3, <1>4, <1>5, <1>c DEF seen

-----------------------------------------------------------------------------
(* How far the transfer is, and what has been made of it.                  *)
PipelineInv ==
    /\ \E g, f \in Nat : transfer = Transfer(g, f)
    /\ delivery \in Webhooks \cup Listings
    /\ \E n \in Nat : invs \in [1..n -> Bills]
    /\ verdict \in {"persisted", "normalised", "threw"} => Bodied
    /\ delivery \in Webhooks /\ verdict # "sent" =>
          \/ verdict = Received
          \/ Received = "persisted" /\ verdict \in {"normalised", "threw"}
    /\ verdict = "skipped" =>
          delivery \in Listings /\ \E noise \in Noise : ~Scanned(MapTransaction(Entry, noise))
    /\ verdict = "normalised" =>
          \E noise \in Noise : normal = NormalizeInboundPayment(body, noise)
    /\ verdict = "threw" => ~InboundParses(body)
    /\ rem # <<>> =>
          /\ verdict = "normalised"
          /\ Accepts(normal.gross, normal.fee)
          /\ rem \in Runs(normal.gross, invs)

LEMMA PipelineInit == Init => PipelineInv
  <1> SUFFICES ASSUME Init
               PROVE  PipelineInv
    OBVIOUS
  <1>1. verdict = "sent" /\ rem = <<>>
    BY DEF Init
  <1>2. PlainDelivery \in Webhooks
    BY DEF PlainDelivery, Webhooks, Ids, Texts
  <1>3. 0..MaxAmount \subseteq Nat /\ MaxAmount \in Nat /\ 0..MaxInvoices \subseteq Nat /\ 1 \in Nat
    BY PipelineBounds
  <1>4. delivery \in Webhooks \cup Listings
    BY <1>2 DEF Init
  <1>5. \E g, f \in Nat : transfer = Transfer(g, f)
    <2>1. CASE transfer \in {Transfer(g, f) : g \in 0..MaxAmount, f \in 0..MaxAmount}
      BY <1>3, <2>1
    <2>2. CASE transfer = Transfer(MaxAmount, 1)
      BY <1>3, <2>2
    <2>3. QED
      BY <2>1, <2>2 DEF Init
  <1>6. \E n \in Nat : invs \in [1..n -> Bills]
    <2>1. CASE \E n \in 0..MaxInvoices :
                  invs \in [1..n -> {inv \in Stored : inv.settled <= inv.expected}]
      BY <1>3, <2>1 DEF Bills
    <2>2. CASE invs = <<>>
      <3>1. <<>> \in [1..0 -> Bills]
        OBVIOUS
      <3>2. QED
        BY <2>2, <3>1
    <2>3. QED
      BY <2>1, <2>2 DEF Init
  <1>7. QED
    BY <1>1, <1>4, <1>5, <1>6 DEF PipelineInv

(* What the transfer and its delivery determine does not change.           *)
LEMMA Unchanging ==
    ASSUME UNCHANGED <<transfer, delivery>>
    PROVE  Received' = Received /\ WebhookBody' = WebhookBody /\ Entry' = Entry
  <1>1. WebhookBody' = WebhookBody /\ Header' = Header /\ Entry' = Entry
    BY DEF WebhookBody, Header, Entry
  <1>2. QED
    BY <1>1 DEF Received

LEMMA PipelineStep == PipelineInv /\ [Next]_vars => PipelineInv'
  <1> SUFFICES ASSUME PipelineInv, [Next]_vars
               PROVE  PipelineInv'
    OBVIOUS
  <1> USE DEF PipelineInv
  <1>1. ASSUME Arrive
        PROVE  PipelineInv'
    <2>1. /\ verdict = "sent" /\ delivery \in Webhooks /\ verdict' = Received
          /\ verdict' = "persisted" => body' = WebhookBody
          /\ UNCHANGED <<transfer, delivery, normal, invs, rem>>
      BY <1>1, ListingFacts DEF Arrive, Received
    <2>2. Received' = Received /\ WebhookBody' = WebhookBody
      BY <2>1, Unchanging
    <2>3. verdict' \in {"ignored", "refused", "failed", "persisted"}
      BY <2>1, ReceivedIs
    <2>4. verdict' = "persisted" => Bodied'
      BY <2>1, <2>2 DEF Bodied
    <2>5. rem' = <<>>
      BY <2>1
    <2>6. QED
      BY <2>1, <2>2, <2>3, <2>4, <2>5
  <1>2. ASSUME Find
        PROVE  PipelineInv'
    <2>1. /\ verdict = "sent" /\ delivery \in Listings /\ delivery \notin Webhooks
          /\ UNCHANGED <<transfer, delivery, normal, invs, rem>>
      BY <1>2, WebhookFacts DEF Find
    <2>2. Entry' = Entry /\ rem' = <<>>
      BY <2>1, Unchanging
    <2>3. PICK noise \in Noise :
             IF Scanned(MapTransaction(Entry, noise))
             THEN /\ verdict' = "persisted"
                  /\ body' = BuildSyntheticPayload(Account, MapTransaction(Entry, noise))
             ELSE verdict' = "skipped"
      BY <1>2 DEF Find, Account
    <2>4. CASE Scanned(MapTransaction(Entry, noise))
      <3>1. verdict' = "persisted" /\ Bodied'
        BY <2>1, <2>2, <2>3, <2>4 DEF Bodied
      <3>2. QED
        BY <2>1, <2>2, <3>1
    <2>5. CASE ~Scanned(MapTransaction(Entry, noise))
      <3>1. verdict' = "skipped" /\ \E other \in Noise : ~Scanned(MapTransaction(Entry', other))
        BY <2>2, <2>3, <2>5
      <3>2. QED
        BY <2>1, <2>2, <3>1
    <2>6. QED
      BY <2>4, <2>5
  <1>3. ASSUME Normalize
        PROVE  PipelineInv'
    <2>1. /\ verdict = "persisted" /\ Bodied /\ rem' = <<>>
          /\ UNCHANGED <<transfer, delivery, body, invs, rem>>
          /\ \/ verdict' = "normalised" /\ \E noise \in Noise :
                                              normal' = NormalizeInboundPayment(body, noise)
             \/ verdict' = "threw" /\ ~InboundParses(body)
      BY <1>3 DEF Normalize
    <2>2. Received' = Received /\ WebhookBody' = WebhookBody /\ Entry' = Entry
      BY <2>1, Unchanging
    <2>3. Bodied'
      BY <2>1, <2>2 DEF Bodied
    <2>4. delivery \in Webhooks => Received = "persisted"
      BY <2>1
    <2>5. QED
      BY <2>1, <2>2, <2>3, <2>4
  <1>4. ASSUME Decide
        PROVE  PipelineInv'
    <2>1. /\ verdict = "normalised" /\ Bodied
          /\ Accepts(normal.gross, normal.fee) /\ rem' \in Runs(normal.gross, invs)
          /\ UNCHANGED <<transfer, delivery, verdict, body, normal, invs>>
      BY <1>4 DEF Decide
    <2>2. Received' = Received /\ WebhookBody' = WebhookBody /\ Entry' = Entry
      BY <2>1, Unchanging
    <2>3. Bodied'
      BY <2>1, <2>2 DEF Bodied
    <2>4. QED
      BY <2>1, <2>2, <2>3
  <1>5. CASE UNCHANGED vars
    <2>1. UNCHANGED <<transfer, delivery, verdict, body, normal, invs, rem>>
      BY <1>5 DEF vars
    <2>2. Received' = Received /\ WebhookBody' = WebhookBody /\ Entry' = Entry
      BY <2>1, Unchanging
    <2>3. Bodied => Bodied'
      BY <2>1, <2>2 DEF Bodied
    <2>4. QED
      BY <2>1, <2>2, <2>3
  <1>6. QED
    BY <1>1, <1>2, <1>3, <1>4, <1>5 DEF Next

(* How far a transfer can be, for any amounts, invoices and deliveries.    *)
THEOREM PipelineInvariance == Spec => []PipelineInv
  BY PipelineInit, PipelineStep, PTL DEF Spec

(* signature.ts and the webhook route: exactly what the shared secret      *)
(* signed gets in, and of that only what the schema refuses fails.         *)
THEOREM GenuineIsAcceptedAlways == Spec => []GenuineIsAccepted
  <1>1. ASSUME PipelineInv, delivery.path = "webhook", verdict # "sent"
        PROVE  /\ verdict = "ignored" <=> delivery.scheme = "unsigned"
               /\ verdict = "refused" <=>
                     /\ delivery.scheme # "unsigned"
                     /\ \/ delivery.key = "another"
                        \/ delivery.scheme = "colon" /\ ~delivery.timestampSent
               /\ verdict = "failed" =>
                     \/ "null" \in {delivery.userId.kind, delivery.responseCode.kind}
                     \/ delivery.userId.kind = "number"
    <2>1. delivery \in Webhooks
      BY <1>1, ListingFacts DEF PipelineInv
    <2>2. \/ verdict = Received
          \/ Received = "persisted" /\ verdict \in {"normalised", "threw"}
      BY <1>1, <2>1 DEF PipelineInv
    <2>3. QED
      BY <2>1, <2>2, ReceivedIs
  <1>2. PipelineInv => GenuineIsAccepted
    BY <1>1 DEF GenuineIsAccepted
  <1>3. QED
    BY <1>2, PipelineInvariance, PTL

(* backfill.ts, "converge on identical ledger writes": by either way in    *)
(* the engine sees the same session, gross and customer, and the fee where *)
(* the message shows it.                                                   *)
THEOREM PathsConvergeAlways == Spec => []PathsConverge
  <1>1. ASSUME PipelineInv, Complete
        PROVE  /\ verdict # "threw"
               /\ verdict = "skipped" => transfer.gross = 0 \/ ~AmountShown
               /\ verdict = "normalised" =>
                     /\ normal.sessionId = transfer.session
                     /\ normal.gross = transfer.gross
                     /\ normal.fee = IF FeeShown THEN transfer.fee ELSE 0
                     /\ Identified => Resolve(Customers, VirtualAccounts, normal) = {"owner"}
    <2>1. PICK g \in Nat, f \in Nat : transfer = Transfer(g, f)
      BY <1>1 DEF PipelineInv
    <2>2. transfer.gross = g /\ transfer.fee = f /\ transfer.session = "session"
      BY <2>1 DEF Transfer
    <2>3. verdict # "threw"
      <3>1. 0 \in Noise
        BY NoiseIsSmall
      <3>2. QED
        BY <1>1, <2>1, <3>1, EngineSees DEF PipelineInv
    <2>4. verdict = "skipped" => g = 0 \/ ~AmountShown
      <3>1. ASSUME verdict = "skipped", AmountShown
            PROVE  g = 0
        <4>1. delivery \in Listings
          BY <1>1, <3>1 DEF PipelineInv
        <4>2. PICK noise \in Noise : ~Scanned(MapTransaction(Entry, noise))
          BY <1>1, <3>1 DEF PipelineInv
        <4>3. "top" \in delivery.sessions
          BY <1>1, <4>1, ListingFacts DEF Complete
        <4>4. /\ MapTransaction(Entry, noise).amount = g
              /\ MapTransaction(Entry, noise).sessionId # {}
          BY <2>1, <3>1, <4>1, <4>3, ListingFacts, ListedAmounts DEF AmountShown
        <4>5. QED
          BY <4>2, <4>4 DEF Scanned
      <3>2. QED
        BY <3>1
    <2>5. ASSUME verdict = "normalised"
          PROVE  /\ normal.sessionId = "session" /\ normal.gross = g
                 /\ normal.fee = SeenFee(f)
                 /\ Identified => Resolve(Customers, VirtualAccounts, normal) = {"owner"}
      <3>1. Bodied /\ \E noise \in Noise : normal = NormalizeInboundPayment(body, noise)
        BY <1>1, <2>5 DEF PipelineInv
      <3>2. QED
        BY <1>1, <2>1, <3>1, EngineSees
    <2>6. QED
      BY <2>2, <2>3, <2>4, <2>5 DEF SeenFee
  <1>2. PipelineInv => PathsConverge
    BY <1>1 DEF PathsConverge
  <1>3. QED
    BY <1>2, PipelineInvariance, PTL

(* A decided payment poured its own gross over the invoices.               *)
LEMMA DecidedPours ==
    ASSUME PipelineInv, Decided
    PROVE  \E n \in Nat : Pours(n)
  <1>1. PICK g \in Nat, f \in Nat : transfer = Transfer(g, f)
    BY DEF PipelineInv
  <1>2. PICK n \in Nat : invs \in [1..n -> Bills]
    BY DEF PipelineInv
  <1>3. /\ Bodied /\ \E noise \in Noise : normal = NormalizeInboundPayment(body, noise)
        /\ Accepts(normal.gross, normal.fee) /\ rem \in Runs(normal.gross, invs)
    BY DEF PipelineInv, Decided
  <1>4. PICK fee \in Nat : fee = SeenFee(f)
    BY DEF SeenFee
  <1>5. normal.gross = g /\ normal.fee = fee
    BY <1>1, <1>3, <1>4, EngineSees
  <1>6. QED
    BY <1>2, <1>3, <1>5 DEF Pours, Accepts, Gross, Fee

(* reconcile.ts and credit.ts: the waterfall is the FIFO allocation, for   *)
(* any amount and any number of invoices.                                  *)
THEOREM FifoAlways == Spec => []Fifo
  <1>1. PipelineInv => Fifo
    BY DecidedPours, FifoFits DEF Fifo
  <1>2. QED
    BY <1>1, PipelineInvariance, PTL

(* reconcile.ts: the status of an invoice is the one of its amounts, and   *)
(* no invoice gets more than it asks for.                                  *)
THEOREM StatusFitsAlways == Spec => []StatusFits
  <1>1. PipelineInv => StatusFits
    BY DecidedPours, StatusesFit DEF StatusFits
  <1>2. QED
    BY <1>1, PipelineInvariance, PTL

(* ledger.ts, build(): debits equal credits and no posting is negative.    *)
THEOREM PostingsBalanceAlways == Spec => []PostingsBalance
  <1>1. PipelineInv => PostingsBalance
    BY DecidedPours, PostingsFit DEF PostingsBalance
  <1>2. QED
    BY <1>1, PipelineInvariance, PTL

(* reconcile.ts, classification and refund: the label and the proposed     *)
(* refund agree with what is left over and what is still owed.             *)
THEOREM DecisionFitsAlways == Spec => []DecisionFits
  <1>1. PipelineInv => DecisionFits
    BY DecidedPours, DecisionsFit DEF DecisionFits
  <1>2. QED
    BY <1>1, PipelineInvariance, PTL

=============================================================================
