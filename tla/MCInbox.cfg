SPECIFICATION FairSpec
CONSTANTS
  an = an
  binh = binh
  Me = an
  Partners = {an, binh}
  Nobody = Nobody
  Familiar = {}
  Cells = {c1}
  MaxHeard = 3
  MaxTime = 2
  MaxDrops = 2
CHECK_DEADLOCK FALSE
PROPERTIES
  HeardGetsRow
  RowGetsName
  ImplementsConversations
INVARIANTS
  TypeOK
  OneRowEach
  RowFollowsList
  NameMatchesRow
  ScreenShowsNewest
