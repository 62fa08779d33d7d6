----------------------------- MODULE MCDelivery -----------------------------
(* Model-checking instance of the credential delivery.                      *)
EXTENDS RwaDelivery
=============================================================================
