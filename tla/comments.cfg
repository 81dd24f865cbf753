CONSTANTS
  t1 = t1
  t2 = t2
  v1 = v1
  v2 = v2
  Closed = closed
  Nobody = nobody
  Viewer <- Viewers
  Key = {1, 2}
  RowId = {1, 2, 3}
  Answers <- CommentsAnswers
  Ticket <- Tickets
SPECIFICATION FairSpec
INVARIANTS
  CacheTypeOK
  ShownInFull
  SpinnerHasLoad
  OneRowPerId
PROPERTY
  SpinnerStops
