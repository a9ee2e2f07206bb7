--------------------------- MODULE MCDeliveryQueue ---------------------------
(* Instances of DeliveryQueue for TLC; the peers are interchangeable. *)
EXTENDS DeliveryQueue, TLC

Symmetry == Permutations(Peers)

=============================================================================
