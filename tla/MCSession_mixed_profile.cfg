SPECIFICATION Spec
CONSTANTS
  an = an
  binh = binh
  Users = {an, binh}
  None = None
  Unset = Unset
  KeychainFails = FALSE
  Patient = FALSE
  MaxScreens = 3
  MaxQueue = 2
  MaxRequests = 2
SYMMETRY Symmetry
INVARIANTS
  ProfileIsOwn
