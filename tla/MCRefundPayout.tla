--------------------------- MODULE MCRefundPayout ---------------------------
(***************************************************************************)
(* Instances of RefundPayout for TLC.                                      *)
(***************************************************************************)
EXTENDS RefundPayout

=============================================================================
