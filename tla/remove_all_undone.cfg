CONSTANTS
  t1 = t1
  t2 = t2
  PostId = {1, 2, 3}
  Answers <- FullAnswers
  FirstUnread = 2
  Ticket <- Tickets
SPECIFICATION ClearedSpec
INVARIANT
  RemovedPostsStayRemoved
