----------------------------- MODULE MCDelivery -----------------------------
(***************************************************************************)
(* Instances of Delivery for TLC: one resource that can be updated in      *)
(* place and one that can only be replaced.                                *)
(***************************************************************************)
EXTENDS DeliveryProperties, TLC

CONSTANTS queue, topic, v1, v2

Values == Permutations({v1, v2})

=============================================================================
