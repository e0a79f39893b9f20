SPECIFICATION FairSpec
CONSTANTS
  an = an
  chi = chi
  Accounts = {an}
  Partners = {chi}
  None = None
  Names = {n1, n2}
  Views = {v1}
  Gone = Gone
  MaxPictures = 2
  MaxFailures = 1
  MaxLoads = 2
PROPERTIES
  UploadEnds
  WantedIsShown
  ShownStays
INVARIANTS
  TypeOK
  PicturesSurvive
  SentAsChosen
  CacheIsTrue
  ViewShowsWanted
  CrashHasCause
