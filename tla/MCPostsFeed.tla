---------------------------- MODULE MCPostsFeed ----------------------------
(***************************************************************************)
(* Small instances of PostsFeed.                                           *)
(***************************************************************************)
EXTENDS PostsFeed

CONSTANTS t1, t2

\* The server's list, long enough for FirstUnread = 2, and a short one.
FullAnswers == {<<1, 2, 3>>}
AllAnswers == {<<1, 2, 3>>, <<3>>}

Tickets == {t1, t2}
OneTicket == {t1}

-----------------------------------------------------------------------------
(***************************************************************************)
(* The app as the README of the repository describes it, and the code does *)
(* not do.                                                                 *)
(***************************************************************************)

\* A user who deletes nothing.
KeepNext ==
  \/ \E v \in View : Appear(v)
  \/ Refresh
  \/ \E t \in Ticket : StartRequest(t) \/ Receive(t)
  \/ Saving
  \/ \E id \in PostId : MarkPost(id)
  \/ Kill
  \/ Launch

KeepSpec == Init /\ [][KeepNext]_vars

\* "Cache all posts": for a user who deletes nothing, the app that is not in
\* the middle of a save has cached no posts or a whole answer.
CachesAllPosts ==
  Idle /\ table # <<>> => \E answer \in Answers : Ids(table) = ToSet(answer)
=============================================================================
