----------------------------- MODULE MCTokenLease -----------------------------
(***************************************************************************)
(* Instances of TokenLease for TLC: two calls in one process, which meet   *)
(* at the mutex, and one in another, which meets them at the lease.        *)
(***************************************************************************)
EXTENDS TokenLease

CONSTANTS p1, p2, c3

TwoAndOne == [c \in Callers |-> IF c = c3 THEN p2 ELSE p1]

=============================================================================
