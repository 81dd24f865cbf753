CONSTANTS
  t1 = t1
  t2 = t2
  NoPost = NoPost
  Layout = "stack"
  PostId = {1, 2}
  Answers <- TwoPosts
  FirstUnread = 1
  Ticket <- OneTicket
SPECIFICATION AppSpec
INVARIANT
  FavoriteHasStar
