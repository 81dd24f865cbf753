SPECIFICATION CalmSpec
CONSTANTS
  MaxVersion = 2
  MaxToken = 2
  SizeMax = 7
INVARIANTS
  NotificationsTypeOK
  HandoverFits
  NothingLost
  CallbacksAreKnown
  ToldWhenQuiet
  WaitIsAnswered
  WritesOnLatest
PROPERTIES
  ToldOnce
  NeverGoesBack
