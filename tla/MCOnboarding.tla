---------------------------- MODULE MCOnboarding ----------------------------
(***************************************************************************)
(* An instance of Onboarding for TLC: a class of two, with every form of   *)
(* tag, a key that is written twice and one that both have.                *)
(***************************************************************************)
EXTENDS Onboarding

Bare(key) == [key |-> key, value |-> {}]
Valued(key, value) == [key |-> key, value |-> {value}]

Class == << <<Bare("scholarship"), Valued("house", "Blue"), Valued("bus", "false")>>,
            <<Valued("scholarship", "true"), Valued("house", "Blue"),
              Valued("house", "Red")>> >>

=============================================================================
