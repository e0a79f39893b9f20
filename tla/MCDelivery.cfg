SPECIFICATION Spec
CONSTANTS
  an = an
  binh = binh
  Users = {an, binh}
  Nobody = Nobody
  Denials = TRUE
  MaxMessages = 2
  MaxFaults = 2
SYMMETRY Symmetry
INVARIANTS
  TypeOK
  NoDanglingKey
  NoValueMissing
  OnlyOwnTexts
  OneBubblePerObserver
  ListsHoldOwnTexts
