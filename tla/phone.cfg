CONSTANTS
  t1 = t1
  t2 = t2
  NoPost = NoPost
  Layout = "stack"
  PostId = {1, 2, 3}
  Answers <- FullAnswers
  FirstUnread = 1
  Ticket <- Tickets
SPECIFICATION HistorySpec
SYMMETRY Symmetry
INVARIANTS
  AppTypeOK
  ListIsCurrent
  OpenPostIsRead
  StarIsRight
PROPERTY
  AppIsFeed
