------------------------------- MODULE Billing -------------------------------
(***************************************************************************)
(* The billing runs of packages/school.  A run is one transaction, READ    *)
(* COMMITTED: each of its statements sees what is committed by then and    *)
(* the run's own rows, and an insert under a unique key waits for the      *)
(* uncommitted row of another run, and fails when that run commits.        *)
(* Requests run side by side, and a cohort may be promoted or a rule       *)
(* created between any two statements.                                     *)
(*                                                                         *)
(* The standing credit that a run applies to its new invoices is the       *)
(* business of Ledger.tla.                                                 *)
(***************************************************************************)
EXTENDS FeeEngine, FiniteSets

CONSTANTS
    Students,
    NoStudent,          \* a run that is between two students
    Tags,               \* customers.metadata, by student
    Cohorts,
    AnyCohort,          \* rules.cohort is NULL
    Catalogue,          \* the rules the bursar may create
    Periods,
    Frequencies,
    Runs                \* requests to POST /school/billing-runs

ASSUME StudentAssumption == NoStudent \notin Students
ASSUME CohortAssumption == AnyCohort \notin Cohorts
ASSUME TagsAssumption == DOMAIN Tags = Students
ASSUME CatalogueAssumption ==
    /\ \A r \in Catalogue : r.value \in Nat /\ r.id # NoRule
    /\ \A r, q \in Catalogue : r.id = q.id => r = q

VARIABLES
    cohort,             \* customers.cohort
    rules,              \* the table rules; all rows are active
    invoices,           \* committed invoices, with the rules that were offered
    consumed,           \* committed rule_consumptions
    run                 \* the requests, with their uncommitted rows

vars == <<cohort, rules, invoices, consumed, run>>

(* `${cohort}-${period}`, taken for different whenever cohort or period is. *)
References == Cohorts \X Periods

(* `offered` is history: the applicable rules the fee was computed from.   *)
NoInvoice ==
    [student |-> NoStudent, reference |-> <<>>, base |-> 0, applied |-> NoRule,
     net |-> 0, offered |-> {}]

NewRun ==
    [pc |-> "idle", reference |-> <<>>, frequency |-> "none", students |-> {},
     todo |-> {}, rules |-> {}, row |-> NoInvoice, invoices |-> {}, consumed |-> {}]

Init ==
    /\ cohort \in [Students -> Cohorts]
    /\ rules = {}
    /\ invoices = {}
    /\ consumed = {}
    /\ run = [b \in Runs |-> NewRun]

-----------------------------------------------------------------------------
(* POST /school/rules and POST /school/cohorts/promote.                    *)

CreateRule(r) ==
    /\ r \in Catalogue \ rules
    /\ rules' = rules \cup {r}
    /\ UNCHANGED <<cohort, invoices, consumed, run>>

Promote(from, to) ==
    /\ from # to
    /\ cohort' = [s \in Students |-> IF cohort[s] = from THEN to ELSE cohort[s]]
    /\ UNCHANGED <<rules, invoices, consumed, run>>

-----------------------------------------------------------------------------
(* runBilling: the students of the cohort, then the rules offered to it.   *)

StartRun(b, c, period, frequency) ==
    LET students == {s \in Students : cohort[s] = c} IN
    /\ run[b].pc = "idle"
    /\ run' = [run EXCEPT ![b] =
          [NewRun EXCEPT !.pc = "rules", !.reference = <<c, period>>,
                         !.frequency = frequency,
                         !.students = students, !.todo = students]]
    /\ UNCHANGED <<cohort, rules, invoices, consumed>>

LoadRules(b) ==
    /\ run[b].pc = "rules"
    /\ run' = [run EXCEPT ![b].pc = "next",
                          ![b].rules = {r \in rules :
                              r.cohort \in {run[b].reference[1], AnyCohort}}]
    /\ UNCHANGED <<cohort, rules, invoices, consumed>>

Has(rows, s, reference) == \E i \in rows : i.student = s /\ i.reference = reference

Uncommitted(b) == UNION {run[d].invoices : d \in Runs \ {b}}

(* Mutant: the check also sees the rows of runs that have not committed.   *)
CheckInvoiceDirty(b, s) ==
    /\ run[b].pc = "next"
    /\ s \in run[b].todo
    /\ run' = [run EXCEPT
          ![b].todo = @ \ {s},
          ![b].row.student = s,
          ![b].pc = IF Has(invoices \cup Uncommitted(b), s, run[b].reference)
                      THEN "next" ELSE "price"]
    /\ UNCHANGED <<cohort, rules, invoices, consumed>>

(* The next student, in the order of the query, which is any: one with an  *)
(* invoice for this reference is skipped.                                  *)
CheckInvoice(b, s) ==
    /\ run[b].pc = "next"
    /\ s \in run[b].todo
    /\ run' = [run EXCEPT
          ![b].todo = @ \ {s},
          ![b].row.student = s,
          ![b].pc = IF Has(invoices, s, run[b].reference) THEN "next" ELSE "price"]
    /\ UNCHANGED <<cohort, rules, invoices, consumed>>

(* Reads what the student has consumed and computes the fee.               *)
Price(b) ==
    LET s == run[b].row.student
        offered == Applicable(run[b].rules, Tags[s], run[b].frequency,
                              {p[1] : p \in {p \in consumed : p[2] = s}})
    IN
    /\ run[b].pc = "price"
    /\ \E fee \in NetFees(OfKind(offered, "charge"), OfKind(offered, "discount")) :
          run' = [run EXCEPT
             ![b].pc = "insert",
             ![b].row = [student |-> s, reference |-> run[b].reference, base |-> fee.base,
                         applied |-> fee.applied, net |-> fee.net, offered |-> offered]]
    /\ UNCHANGED <<cohort, rules, invoices, consumed>>

-----------------------------------------------------------------------------
(* Inserts under invoice_ref_unique and rule_consumptions_once.            *)

(* Mutant: every one-time rule that was offered is consumed.               *)
OfferedOneTime(row) == {r.id : r \in {r \in row.offered : r.recurrence = "one_time"}}

(* One-time charges, and the one-time discount that won.                   *)
AppliedOneTime(row) ==
    {r.id : r \in {r \in row.offered :
        r.recurrence = "one_time" /\ (r.kind = "charge" \/ r.id = row.applied)}}

Consumptions(row) == {<<id, row.student>> : id \in AppliedOneTime(row)}

(* Run d holds a row that the pending insert of b must wait for.           *)
BlockedBy(b, d) ==
    /\ d # b
    /\ \/ run[b].pc = "insert" /\ Has(run[d].invoices, run[b].row.student, run[b].reference)
       \/ run[b].pc = "consume" /\ Consumptions(run[b].row) \cap run[d].consumed # {}

Blocked(b) == \E d \in Runs : BlockedBy(b, d)

(* Rolled back: the caller gets an error and none of the run's rows stay.  *)
Roll(b) ==
    /\ run' = [run EXCEPT ![b] = [NewRun EXCEPT !.pc = "aborted"]]
    /\ UNCHANGED <<cohort, rules, invoices, consumed>>

InsertInvoice(b) ==
    /\ run[b].pc = "insert"
    /\ ~Blocked(b)
    /\ IF Has(invoices, run[b].row.student, run[b].reference)
         THEN Roll(b)
         ELSE /\ run' = [run EXCEPT ![b].pc = "consume",
                                    ![b].invoices = @ \cup {run[b].row}]
              /\ UNCHANGED <<cohort, rules, invoices, consumed>>

(* Mutant: (rule_id, customer_id) is not UNIQUE.                           *)
InsertConsumptionsNotUnique(b) ==
    /\ run[b].pc = "consume"
    /\ run' = [run EXCEPT ![b].pc = "next",
                          ![b].row = NoInvoice,
                          ![b].consumed = @ \cup Consumptions(run[b].row)]
    /\ UNCHANGED <<cohort, rules, invoices, consumed>>

InsertConsumptions(b) ==
    /\ run[b].pc = "consume"
    /\ ~Blocked(b)
    /\ IF Consumptions(run[b].row) \cap consumed # {}
         THEN Roll(b)
         ELSE /\ run' = [run EXCEPT ![b].pc = "next",
                                    ![b].row = NoInvoice,
                                    ![b].consumed = @ \cup Consumptions(run[b].row)]
              /\ UNCHANGED <<cohort, rules, invoices, consumed>>

Commit(b) ==
    /\ run[b].pc = "next"
    /\ run[b].todo = {}
    /\ invoices' = invoices \cup run[b].invoices
    /\ consumed' = consumed \cup run[b].consumed
    /\ run' = [run EXCEPT ![b] =
          [NewRun EXCEPT !.pc = "committed", !.reference = run[b].reference,
                         !.students = run[b].students]]
    /\ UNCHANGED <<cohort, rules>>

(* The process or the connection dies, or PostgreSQL picks the run as the  *)
(* victim of a deadlock.                                                   *)
Abort(b) ==
    /\ run[b].pc \in {"rules", "next", "price", "insert", "consume"}
    /\ Roll(b)

-----------------------------------------------------------------------------
Statement(b) ==
    \/ LoadRules(b)
    \/ \E s \in Students : CheckInvoice(b, s)
    \/ Price(b)
    \/ InsertInvoice(b)
    \/ InsertConsumptions(b)
    \/ Commit(b)

Next ==
    \/ \E r \in Catalogue : CreateRule(r)
    \/ \E from, to \in Cohorts : Promote(from, to)
    \/ \E b \in Runs :
          \/ \E c \in Cohorts, period \in Periods, frequency \in Frequencies :
                StartRun(b, c, period, frequency)
          \/ Statement(b)
          \/ Abort(b)

Spec == Init /\ [][Next]_vars

-----------------------------------------------------------------------------
Invoice ==
    [student : Students, reference : References, base : Nat,
     applied : {r.id : r \in Catalogue} \cup {NoRule}, net : Nat,
     offered : SUBSET Catalogue]

Pairs == {r.id : r \in Catalogue} \X Students

(* Types of the tables and of the runs' rows; what is billed is never      *)
(* negative (invoice_amounts_nonneg).                                      *)
TypeOK ==
    /\ cohort \in [Students -> Cohorts]
    /\ rules \subseteq Catalogue
    /\ invoices \subseteq Invoice
    /\ consumed \subseteq Pairs
    /\ DOMAIN run = Runs
    /\ \A b \in Runs :
          /\ run[b].pc \in {"idle", "rules", "next", "price", "insert", "consume",
                            "committed", "aborted"}
          /\ run[b].pc # "idle" /\ run[b].pc # "aborted" => run[b].reference \in References
          /\ run[b].todo \subseteq run[b].students
          /\ run[b].students \subseteq Students
          /\ run[b].rules \subseteq rules
          /\ run[b].pc \in {"insert", "consume"} => run[b].row \in Invoice
          /\ run[b].invoices \subseteq Invoice
          /\ run[b].consumed \subseteq Pairs

(* "one net invoice per student per term, idempotent" (README): when a run *)
(* commits, each student it found in the cohort has exactly one invoice    *)
(* for its reference, whichever runs it met on the way and however they    *)
(* ended, and keeps it.                                                    *)
EveryStudentBilled ==
    \A b \in Runs : run[b].pc = "committed" =>
        \A s \in run[b].students :
            Cardinality({i \in invoices :
                i.student = s /\ i.reference = run[b].reference}) = 1

(* "Charges sum; among discounts the single highest wins (no stacking)"    *)
(* (README): what an invoice takes off its base is what the best discount  *)
(* offered alone would take off, and never more than the base.             *)
HighestWins ==
    \A i \in invoices :
        LET discounts == OfKind(i.offered, "discount")
            off == i.base - i.net
        IN
        /\ 0 <= off /\ off <= i.base
        /\ \A d \in discounts : off >= i.base \/ off >= Raw(i.base, d)
        /\ off > 0 => \E d \in discounts :
                         d.id = i.applied /\ off \in {Raw(i.base, d), i.base}

(* The one-time rule r is part of what the invoice i charges.              *)
Uses(i, r) ==
    /\ r \in i.offered
    /\ r.recurrence = "one_time"
    /\ r.kind = "charge" \/ r.id = i.applied

(* A one-time rule enters one invoice of a student at most, also when two  *)
(* runs price the student before either commits.                           *)
OneTimeOnce ==
    \A s \in Students : \A r \in rules :
        Cardinality({i \in invoices : i.student = s /\ Uses(i, r)}) <= 1

(* "a one-time rule is consumed only when applied" (README): a student has *)
(* used up exactly the one-time charges billed and the discounts that won. *)
ConsumedIffApplied ==
    \A s \in Students : \A r \in rules :
        <<r.id, s>> \in consumed <=> \E i \in invoices : i.student = s /\ Uses(i, r)

=============================================================================
