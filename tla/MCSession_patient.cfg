SPECIFICATION FairSpec
CONSTANTS
  an = an
  binh = binh
  Users = {an, binh}
  None = None
  Unset = Unset
  KeychainFails = FALSE
  Patient = TRUE
  MaxScreens = 3
  MaxQueue = 1
  MaxRequests = 1
PROPERTIES
  SignInReachesListeners
  LaunchOpensInbox
  RegistrationStops
  ImplementsRegistry
INVARIANTS
  KeychainAgrees
  InboxIsOwn
  InboxOfOneAccount
  ProfileIsOwn
