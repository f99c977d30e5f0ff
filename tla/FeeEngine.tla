------------------------------ MODULE FeeEngine ------------------------------
(***************************************************************************)
(* The pure engine of packages/school: which rules apply to a student in a *)
(* billing run, and the net fee they make.                                 *)
(*                                                                         *)
(* A rule is a record of the columns of the table `rules`; metadata is a   *)
(* set of tags, one per key and value.  Amounts are kobo, percentages are  *)
(* basis points.                                                           *)
(***************************************************************************)
EXTENDS Integers, FiniteSetsExt

CONSTANT NoRule         \* appliedDiscountId = null

BasisPoints == 10000

(* matchesMetadata: every pair of the rule's `match` is among the tags.    *)
MatchesMetadata(rule, tags) == rule.match \subseteq tags

(* Matching rules of the run's frequency, and one-time rules that the      *)
(* student has not consumed.                                               *)
Applicable(rules, tags, frequency, consumed) ==
    {r \in rules :
        /\ MatchesMetadata(r, tags)
        /\ \/ r.recurrence = frequency
           \/ r.recurrence = "one_time" /\ r.id \notin consumed}

OfKind(rules, kind) == {r \in rules : r.kind = kind}

(* The base is the sum of the charges' values, whatever their value type.  *)
Base(charges) == SumFunction([r \in charges |-> r.value])

Raw(base, d) ==
    IF d.valueType = "fixed" THEN d.value ELSE (base * d.value) \div BasisPoints

DiscountValue(base, d) == IF Raw(base, d) > base THEN base ELSE Raw(base, d)

(* A tie goes to the first row of the query, which has no ORDER BY: to any *)
(* of the tied.                                                            *)
Winners(base, discounts) ==
    {d \in discounts :
        \A e \in discounts : DiscountValue(base, e) <= DiscountValue(base, d)}

(* Mutant: the discounts stack.                                            *)
NetFeesStacked(charges, discounts) ==
    LET base == Base(charges)
        total == MapThenSumSet(LAMBDA d : DiscountValue(base, d), discounts)
    IN {[base |-> base, applied |-> NoRule,
         net |-> IF total > base THEN 0 ELSE base - total]}

(* computeNetFee: the breakdowns it may return.                            *)
NetFees(charges, discounts) ==
    LET base == Base(charges) IN
    IF discounts = {}
      THEN {[base |-> base, applied |-> NoRule, net |-> base]}
      ELSE {[base |-> base,
             applied |-> IF DiscountValue(base, d) > 0 THEN d.id ELSE NoRule,
             net |-> base - DiscountValue(base, d)] : d \in Winners(base, discounts)}

=============================================================================
