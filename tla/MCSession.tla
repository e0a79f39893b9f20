----------------------------- MODULE MCSession -----------------------------
(* Bounds and symmetry for checking Session with TLC.                      *)
EXTENDS Session, TLC

CONSTANTS an, binh

MCUsers  == {an, binh}
Symmetry == Permutations(MCUsers)
============================================================================
