----------------------------- MODULE MCRemoveAll -----------------------------
(***************************************************************************)
(* PostsFeed with a history variable: what Delete All leaves behind.       *)
(***************************************************************************)
EXTENDS MCPostsFeed

\* Delete All has removed posts and the user has asked for none since.
VARIABLE cleared

AskForPosts == Refresh \/ Launch \/ \E v \in View : Appear(v)

ClearedInit == Init /\ cleared = FALSE

ClearedNext ==
  \/ DeleteAllPosts /\ cleared' = (cleared \/ table # <<>>)
  \/ AskForPosts /\ cleared' = FALSE
  \/ /\ \/ \E t \in Ticket : StartRequest(t) \/ Receive(t)
        \/ Saving
        \/ \E i \in DOMAIN posts : DeletePost(i)
        \/ \E id \in PostId : MarkPost(id)
        \/ Kill
     /\ UNCHANGED cleared

ClearedSpec == ClearedInit /\ [][ClearedNext]_<<vars, cleared>>

\* "Add a button to the footer that removes all posts": they stay removed
\* until the user asks for posts again.
RemovedPostsStayRemoved == cleared => table = <<>>
=============================================================================
