------------------------------ MODULE MCBilling ------------------------------
(***************************************************************************)
(* An instance of Billing for TLC: a termly tuition, a one-time admission  *)
(* fee, a one-time scholarship and a percentage for siblings, so that each *)
(* discount wins for some student and run and loses for another.           *)
(***************************************************************************)
EXTENDS Billing, TLC

CONSTANTS s1, s2, A, B

Rule(id, kind, valueType, value, recurrence, c, match) ==
    [id |-> id, kind |-> kind, valueType |-> valueType, value |-> value,
     recurrence |-> recurrence, cohort |-> c, match |-> match]

School ==
    {Rule("tuition", "charge", "fixed", 3, "termly", AnyCohort, {}),
     Rule("admission", "charge", "fixed", 2, "one_time", A, {}),
     Rule("scholarship", "discount", "fixed", 4, "one_time", AnyCohort, {}),
     Rule("sibling", "discount", "percent", 9000, "termly", AnyCohort, {"sibling"})}

Metadata == [s \in Students |-> IF s = s1 THEN {"sibling"} ELSE {}]

Symmetry == Permutations(Runs)

=============================================================================
