----------------------------- MODULE MCDelivery -----------------------------
(* Symmetry for checking Delivery with TLC: the users are interchangeable. *)
EXTENDS Delivery, TLC

CONSTANTS an, binh

Symmetry == Permutations({an, binh})
=============================================================================
