SPECIFICATION FairSpec
CONSTANTS
  an = an
  binh = binh
  Users = {an, binh}
  Nobody = Nobody
  Denials = FALSE
  MaxMessages = 1
  MaxFaults = 2
PROPERTIES
  OutstandingIsDelivered
  ListedIsShown
