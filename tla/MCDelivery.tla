----------------------------- MODULE MCDelivery -----------------------------
(* Delivery on the small instance of MCDelivery.cfg. *)
EXTENDS Delivery
=============================================================================
