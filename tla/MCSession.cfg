SPECIFICATION Spec
CONSTANTS
  an = an
  binh = binh
  Users = {an, binh}
  None = None
  Unset = Unset
  KeychainFails = TRUE
  Patient = FALSE
  MaxScreens = 3
  MaxQueue = 1
  MaxRequests = 1
SYMMETRY Symmetry
INVARIANTS
  TypeOK
  ListenersCatchUp
  OneListenerPerLogin
PROPERTIES
  CrashHasBareAccount
