CONSTANTS
  t1 = t1
  t2 = t2
  PostId = {1, 2, 3}
  Answers <- AllAnswers
  FirstUnread = 2
  Ticket <- Tickets
SPECIFICATION FairSpec
INVARIANTS
  FeedTypeOK
  OneRowPerPost
  ListedPostsAreCached
  ListedOnce
  SpinnerHasLoad
PROPERTIES
  StoreIsLibrary
  OnlyUserMarks
  SpinnerStops
