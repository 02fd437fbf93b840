----------------------------- MODULE MCOutbound -----------------------------
(* Two releases over a few ticks and a staging area two fields overfill.  *)
EXTENDS Outbound
=============================================================================
