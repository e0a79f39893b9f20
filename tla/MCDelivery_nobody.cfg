SPECIFICATION Spec
CONSTANTS
  an = an
  binh = binh
  Users = {an, binh}
  Nobody = Nobody
  Denials = FALSE
  MaxMessages = 2
  MaxFaults = 1
SYMMETRY Symmetry
INVARIANTS
  SentToSomebody
