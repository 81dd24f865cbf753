-------------------------- MODULE PostsFeedProofs --------------------------
(***************************************************************************)
(* PostsFeed for any posts, answers and number of loads in flight.         *)
(***************************************************************************)
EXTENDS PostsFeed, PostStoreProofs

-----------------------------------------------------------------------------
(***************************************************************************)
(* The feed uses the store by its calls alone.                             *)
(***************************************************************************)

\* Every step of the feed is a call of the store, or leaves it alone.
LEMMA StoreOfFeedStep ==
  FeedTypeOK /\ [Next]_vars => [StoreNext]_storeVars
<1> SUFFICES ASSUME FeedTypeOK, [Next]_vars
             PROVE  [StoreNext]_storeVars
  OBVIOUS
<1>1. ASSUME NEW v \in View, Appear(v)
      PROVE  StoreNext
  BY <1>1 DEF Appear, GetPosts, StoreNext
<1>2. CASE Refresh
  BY <1>2 DEF Refresh, GetPosts, StoreNext
<1>3. ASSUME NEW t \in Ticket, StartRequest(t) \/ ReceiveNothing(t)
      PROVE  UNCHANGED storeVars
  BY <1>3 DEF StartRequest, ReceiveNothing
<1>4. ASSUME NEW t \in Ticket, ReceivePosts(t)
      PROVE  StoreNext
  BY <1>4 DEF ReceivePosts, StoreNext, LoadPostsFromRealm
<1>5. CASE SaveNext
  <2>1. save.batch \in Seq(Post) /\ save.next \in Nat \ {0}
    BY DEF FeedTypeOK, Save
  <2>2. save.batch[save.next] \in Post
    BY <1>5, <2>1, LenProperties, ElementOfSeq DEF SaveNext
  <2>3. QED
    BY <1>5, <2>2 DEF SaveNext, StoreNext
<1>6. CASE FinishSave
  BY <1>6 DEF FinishSave
<1>7. ASSUME NEW i \in DOMAIN posts, DeletePost(i)
      PROVE  StoreNext
  <2>1. posts[i] \in Post
    BY ElementOfSeq DEF FeedTypeOK
  <2>2. posts[i].id \in PostId
    BY <2>1 DEF Post
  <2>3. QED
    BY <1>7, <2>2 DEF DeletePost, StoreNext
<1>8. CASE DeleteAllPosts
  BY <1>8 DEF DeleteAllPosts, StoreNext
<1>9. ASSUME NEW id \in PostId, MarkPost(id)
      PROVE  StoreNext
  BY <1>9 DEF MarkPost, StoreNext
<1>10. ASSUME NEW cause, End(cause)
       PROVE  StoreNext
  BY <1>10 DEF End, StoreNext
<1>11. CASE Launch
  BY <1>11 DEF Launch
<1>12. CASE UNCHANGED vars
  BY <1>12 DEF vars, storeVars
<1>13. QED
  BY <1>1, <1>2, <1>3, <1>4, <1>5, <1>6, <1>7, <1>8, <1>9, <1>10, <1>11, <1>12
     DEF Next, Receive, Saving, TrapOnShortAnswer, TrapOnDuplicate, Kill

-----------------------------------------------------------------------------
(***************************************************************************)
(* Sequences and answers.                                                  *)
(***************************************************************************)

\* Removing position i of a list keeps the other rows, in their order.
LEMMA RemoveAtRows ==
  ASSUME NEW Row, NEW rows \in Seq(Row), NEW i \in DOMAIN rows
  PROVE  /\ RemoveAt(rows, i) \in Seq(Row)
         /\ DOMAIN RemoveAt(rows, i) = 1 .. Len(rows) - 1
         /\ \A k \in 1 .. Len(rows) - 1 :
              RemoveAt(rows, i)[k] = IF k < i THEN rows[k] ELSE rows[k + 1]
<1> DEFINE before == SubSeq(rows, 1, i - 1)
           after == SubSeq(rows, i + 1, Len(rows))
<1>1. /\ Len(rows) \in Nat
      /\ DOMAIN rows = 1 .. Len(rows)
      /\ i \in 1 .. Len(rows)
  BY LenProperties
<1>2. /\ before \in Seq(Row)
      /\ Len(before) = i - 1
      /\ \A k \in 1 .. i - 1 : before[k] = rows[k]
  BY <1>1, SubSeqProperties
<1>3. /\ after \in Seq(Row)
      /\ Len(after) = Len(rows) - i
      /\ \A k \in 1 .. Len(rows) - i : after[k] = rows[i + k]
  BY <1>1, SubSeqProperties
<1> HIDE DEF before, after
<1>4. /\ before \o after \in Seq(Row)
      /\ Len(before \o after) = Len(rows) - 1
      /\ \A k \in 1 .. Len(rows) - 1 :
           (before \o after)[k] = IF k < i THEN rows[k] ELSE rows[k + 1]
  <2>1. /\ before \o after \in Seq(Row)
        /\ Len(before \o after) = Len(before) + Len(after)
        /\ \A k \in 1 .. Len(before) + Len(after) :
             (before \o after)[k] = IF k <= Len(before)
                                      THEN before[k]
                                      ELSE after[k - Len(before)]
    BY <1>2, <1>3, ConcatProperties
  <2>2. /\ i \in Nat
        /\ Len(before) + Len(after) = Len(rows) - 1
    BY <1>1, <1>2, <1>3
  <2>3. ASSUME NEW k \in 1 .. Len(rows) - 1
        PROVE  (before \o after)[k] = IF k < i THEN rows[k] ELSE rows[k + 1]
    <3>1. CASE k < i
      BY <1>1, <1>2, <2>1, <2>2, <3>1
    <3>2. CASE ~(k < i)
      <4>1. /\ k - (i - 1) \in 1 .. Len(rows) - i
            /\ i + (k - (i - 1)) = k + 1
        BY <1>1, <2>2, <3>2
      <4>2. after[k - (i - 1)] = rows[k + 1]
        BY <1>3, <4>1
      <4>3. QED
        BY <1>1, <1>2, <2>1, <2>2, <3>2, <4>2
    <3>3. QED
      BY <3>1, <3>2
  <2>4. QED
    BY <2>1, <2>2, <2>3
<1>5. RemoveAt(rows, i) = before \o after
  BY DEF RemoveAt, before, after
<1>6. QED
  BY <1>1, <1>4, <1>5, LenProperties

\* The posts made of an answer are posts with the answer's ids.
LEMMA FreshPosts ==
  ASSUME NEW answer \in Answers
  PROVE  Fresh(answer) \in Seq(Post)
<1>1. answer \in Seq(PostId)
  BY AnswersAssumption
<1>2. /\ Len(answer) \in Nat
      /\ DOMAIN answer = 1 .. Len(answer)
      /\ \A i \in DOMAIN answer : answer[i] \in PostId
  BY <1>1, LenProperties, ElementOfSeq
<1>3. Fresh(answer) \in [1 .. Len(answer) -> Post]
  BY <1>2, FirstUnreadAssumption DEF Fresh, Post
<1>4. QED
  BY <1>2, <1>3, SeqDef

-----------------------------------------------------------------------------
(***************************************************************************)
(* Types.                                                                  *)
(***************************************************************************)

\* What a list shows of posts are posts.
LEMMA ShowTypes ==
  ASSUME FeedTypeOK, NEW v \in View, NEW retrieved \in Seq(Post),
         Show(v, retrieved)
  PROVE  posts' \in Seq(Post) /\ favorites' \in SUBSET Post
<1>1. \A i \in DOMAIN retrieved : retrieved[i] \in Post
  BY ElementOfSeq
<1>2. {p \in ToSet(retrieved) : p.isFavorite} \subseteq Post
  BY <1>1 DEF ToSet
<1>3. QED
  BY <1>2 DEF Show, ShowAll, ShowFavorites, FeedTypeOK

\* A call of getPosts writes well-formed state, answered from the cache or not.
LEMMA GetPostsTypes ==
  ASSUME FeedTypeOK, NEW v \in View, NEW loading \in [View -> BOOLEAN],
         GetPosts(v, loading)
  PROVE  /\ requests' \in [Ticket -> Request]
         /\ posts' \in Seq(Post)
         /\ favorites' \in SUBSET Post
         /\ isLoading' \in [View -> BOOLEAN]
<1>1. CASE /\ Show(v, table)
           /\ isLoading' = [loading EXCEPT ![v] = FALSE]
           /\ UNCHANGED requests
  <2>1. table \in Seq(Post)
    BY DEF FeedTypeOK, StoreTypeOK
  <2>2. posts' \in Seq(Post) /\ favorites' \in SUBSET Post
    BY <1>1, <2>1, ShowTypes
  <2>3. QED
    BY <1>1, <2>2 DEF FeedTypeOK
<1>2. CASE /\ \E t \in Ticket :
                requests' = [requests EXCEPT
                               ![t] = [stage |-> "delayed", view |-> v]]
           /\ isLoading' = loading
           /\ UNCHANGED <<posts, favorites>>
  <2>1. [stage |-> "delayed", view |-> v] \in Request
    BY DEF Request
  <2>2. QED
    BY <1>2, <2>1 DEF FeedTypeOK
<1>3. QED
  BY <1>1, <1>2 DEF GetPosts

\* Every step of the feed keeps the types of its state.
LEMMA FeedTypeStep ==
  FeedTypeOK /\ StoreTypeOK' /\ [Next]_vars => FeedTypeOK'
<1> SUFFICES ASSUME FeedTypeOK, StoreTypeOK', [Next]_vars
             PROVE  FeedTypeOK'
  OBVIOUS
<1> USE DEF FeedTypeOK
<1>1. /\ NoSave \in Save
      /\ Free \in Request
      /\ <<>> \in Seq(Post)
  BY EmptySeq DEF NoSave, Save, Free, Request, View
<1>2. ASSUME NEW v \in View, Appear(v)
      PROVE  FeedTypeOK'
  <2>1. GetPosts(v, isLoading)
    BY <1>2 DEF Appear
  <2>2. QED
    BY <1>2, <2>1, GetPostsTypes DEF Appear
<1>3. CASE Refresh
  <2>1. /\ GetPosts("All", [isLoading EXCEPT !["All"] = TRUE])
        /\ [isLoading EXCEPT !["All"] = TRUE] \in [View -> BOOLEAN]
        /\ "All" \in View
    BY <1>3 DEF Refresh, View
  <2>2. QED
    BY <1>3, <2>1, GetPostsTypes DEF Refresh
<1>4. ASSUME NEW t \in Ticket, StartRequest(t)
      PROVE  FeedTypeOK'
  <2>1. [requests[t] EXCEPT !.stage = "requested"] \in Request
    BY DEF Request
  <2>2. requests' \in [Ticket -> Request]
    BY <1>4, <2>1 DEF StartRequest
  <2>3. QED
    BY <1>4, <2>2 DEF StartRequest, viewVars
<1>5. ASSUME NEW t \in Ticket, ReceiveNothing(t)
      PROVE  FeedTypeOK'
  <2>1. requests' \in [Ticket -> Request] /\ isLoading' \in [View -> BOOLEAN]
    BY <1>1, <1>5 DEF ReceiveNothing
  <2>2. QED
    BY <1>5, <2>1 DEF ReceiveNothing
<1>6. ASSUME NEW t \in Ticket, ReceivePosts(t)
      PROVE  FeedTypeOK'
  <2>1. requests[t].view \in View
    BY DEF Request
  <2>2. save' \in Save
    BY <1>6, <2>1, FreshPosts DEF ReceivePosts, Save
  <2>3. requests' \in [Ticket -> Request]
    BY <1>1, <1>6 DEF ReceivePosts
  <2>4. QED
    BY <1>6, <2>2, <2>3 DEF ReceivePosts, viewVars
<1>7. CASE SaveNext
  <2>1. [save EXCEPT !.next = save.next + 1] \in Save
    BY DEF Save
  <2>2. QED
    BY <1>7, <2>1 DEF SaveNext, viewVars
<1>8. CASE FinishSave
  <2>1. save.batch \in Seq(Post) /\ save.view \in View
    BY <1>8 DEF Save, FinishSave
  <2>2. posts' \in Seq(Post) /\ favorites' \in SUBSET Post
    BY <1>8, <2>1, ShowTypes DEF FinishSave
  <2>3. QED
    BY <1>1, <1>8, <2>1, <2>2 DEF FinishSave
<1>9. ASSUME NEW i \in DOMAIN posts, DeletePost(i)
      PROVE  FeedTypeOK'
  <2>1. posts' \in Seq(Post)
    BY <1>9, RemoveAtRows DEF DeletePost
  <2>2. QED
    BY <1>9, <2>1 DEF DeletePost
<1>10. CASE DeleteAllPosts
  BY <1>1, <1>10 DEF DeleteAllPosts
<1>11. ASSUME NEW id \in PostId, MarkPost(id)
       PROVE  FeedTypeOK'
  BY <1>11 DEF MarkPost, viewVars
<1>12. ASSUME NEW cause \in {"killed", "trapped"}, End(cause)
       PROVE  FeedTypeOK'
  BY <1>1, <1>12 DEF End, AllFree, AllLoading
<1>13. CASE Launch
  BY <1>13 DEF Launch, viewVars
<1>14. CASE UNCHANGED vars
  BY <1>14 DEF vars
<1>15. QED
  BY <1>2, <1>3, <1>4, <1>5, <1>6, <1>7, <1>8, <1>9, <1>10, <1>11, <1>12,
     <1>13, <1>14
     DEF Next, Receive, Saving, TrapOnShortAnswer, TrapOnDuplicate, Kill

-----------------------------------------------------------------------------
(***************************************************************************)
(* The lists.  A list is filled from the cache, or from the batch that was *)
(* just saved.  The second is why the invariant also speaks of the batch:  *)
(* the posts that savePosts has passed are cached, and are all different.  *)
(***************************************************************************)

BatchIsCached ==
  \A i \in DOMAIN save.batch :
    i < save.next =>
      /\ save.batch[i].id \in Ids(table)
      /\ \A j \in DOMAIN save.batch :
           j < save.next /\ save.batch[j].id = save.batch[i].id => j = i

ListInv == ListedPostsAreCached /\ ListedOnce /\ BatchIsCached

FeedInv == FeedTypeOK /\ OneRowPerPost /\ ListInv

\* With no batch and an empty list there is nothing to say.
LEMMA NoList ==
  /\ save = NoSave => BatchIsCached
  /\ posts = <<>> => ListedPostsAreCached /\ ListedOnce
<1>1. DOMAIN <<>> = {}
  OBVIOUS
<1>2. QED
  BY <1>1, NoRows
     DEF NoSave, BatchIsCached, ListedPostsAreCached, ListedIds, ListedOnce

\* A step that leaves no batch and an empty list.
LEMMA NoListAfter ==
  ASSUME save' = NoSave, posts' = <<>>
  PROVE  ListInv'
<1>1. DOMAIN <<>> = {}
  OBVIOUS
<1>2. BatchIsCached'
  BY <1>1 DEF NoSave, BatchIsCached
<1>3. ListedPostsAreCached' /\ ListedOnce'
  BY <1>1 DEF ListedPostsAreCached, ListedIds, ListedOnce, UniqueIds
<1>4. QED
  BY <1>2, <1>3 DEF ListInv

\* A step that removes no post and leaves the list and the batch alone.
LEMMA KeepList ==
  ASSUME ListInv, Ids(table) \subseteq Ids(table'), UNCHANGED <<posts, save>>
  PROVE  ListInv'
<1>1. ListedPostsAreCached' /\ ListedOnce'
  BY DEF ListInv, ListedPostsAreCached, ListedIds, ListedOnce, UniqueIds
<1>2. BatchIsCached'
  BY DEF ListInv, BatchIsCached
<1>3. QED
  BY <1>1, <1>2 DEF ListInv

\* getPosts fills the list from the cache or leaves it.
LEMMA GetPostsList ==
  ASSUME FeedInv, NEW v \in View, NEW loading, GetPosts(v, loading),
         UNCHANGED save
  PROVE  ListInv'
<1>1. table' = table
  BY DEF GetPosts, LoadPostsFromRealm
<1>2. CASE posts' = posts
  BY <1>1, <1>2, KeepList DEF FeedInv
<1>3. CASE posts' = table
  <2>1. ListedPostsAreCached' /\ ListedOnce'
    BY <1>1, <1>3
       DEF FeedInv, OneRowPerPost, ListedPostsAreCached, ListedIds, ListedOnce,
           Ids
  <2>2. BatchIsCached'
    BY <1>1 DEF FeedInv, ListInv, BatchIsCached
  <2>3. QED
    BY <2>1, <2>2 DEF ListInv
<1>4. QED
  BY <1>2, <1>3 DEF GetPosts, Show, ShowAll, ShowFavorites

\* One more post of the batch is cached, and it is none of those before it.
LEMMA SaveNextList ==
  ASSUME FeedInv, SaveNext
  PROVE  ListInv'
<1> DEFINE next == save.batch[save.next]
<1>1. /\ save.batch \in Seq(Post)
      /\ save.next \in Nat \ {0}
      /\ \A i \in DOMAIN save.batch : i \in Nat
      /\ next \in Post
  BY LenProperties, ElementOfSeq DEF FeedInv, FeedTypeOK, Save, SaveNext
<1>2. /\ table \in Seq(Post)
      /\ UniqueIds(table)
      /\ table' = Append(table, next)
      /\ ~HasId(table, next.id)
  BY DEF FeedInv, FeedTypeOK, StoreTypeOK, OneRowPerPost, SaveNext, SavePost
<1>3. Ids(table') = Ids(table) \cup {next.id}
  BY <1>1, <1>2, AppendRow
<1>4. save' = [save EXCEPT !.next = save.next + 1] /\ posts' = posts
  BY DEF SaveNext, viewVars
<1>5. save'.batch = save.batch /\ save'.next = save.next + 1
  BY <1>4 DEF FeedInv, FeedTypeOK, Save
<1>6. ListedPostsAreCached' /\ ListedOnce'
  BY <1>3, <1>4
     DEF FeedInv, ListInv, ListedPostsAreCached, ListedIds, ListedOnce,
         UniqueIds
<1>7. ASSUME NEW i \in DOMAIN save.batch, i < save.next + 1,
             NEW j \in DOMAIN save.batch, j < save.next + 1
      PROVE  /\ save.batch[i].id \in Ids(table')
             /\ save.batch[j].id = save.batch[i].id => j = i
  <2>1. (i < save.next \/ i = save.next) /\ (j < save.next \/ j = save.next)
    BY <1>1, <1>7
  <2>2. next.id \notin Ids(table)
    BY <1>2 DEF HasId
  <2>3. QED
    BY <1>3, <2>1, <2>2 DEF FeedInv, ListInv, BatchIsCached
<1>8. BatchIsCached'
  BY <1>5, <1>7 DEF BatchIsCached
<1>9. QED
  BY <1>6, <1>8 DEF ListInv

\* The batch that was saved to its end becomes the list.
LEMMA FinishSaveList ==
  ASSUME FeedInv, FinishSave
  PROVE  ListInv'
<1>1. save' = NoSave /\ table' = table
  BY DEF FinishSave, storeVars
<1>2. BatchIsCached'
  BY <1>1, NoList DEF NoSave, BatchIsCached
<1>3. CASE posts' = posts
  BY <1>1, <1>2, <1>3
     DEF FeedInv, ListInv, ListedPostsAreCached, ListedIds, ListedOnce,
         UniqueIds
<1>4. CASE posts' = save.batch
  <2>1. \A i \in DOMAIN save.batch : i < save.next
    <3>1. /\ save.batch \in Seq(Post)
          /\ save.next \in Nat
          /\ save.next > Len(save.batch)
      BY DEF FeedInv, FeedTypeOK, Save, FinishSave
    <3>2. /\ Len(save.batch) \in Nat
          /\ DOMAIN save.batch = 1 .. Len(save.batch)
      BY <3>1, LenProperties
    <3>3. QED
      BY <3>1, <3>2
  <2>2. \A i, j \in DOMAIN save.batch :
          /\ save.batch[i].id \in Ids(table)
          /\ save.batch[j].id = save.batch[i].id => j = i
    BY <2>1 DEF FeedInv, ListInv, BatchIsCached
  <2>3. ListedPostsAreCached' /\ ListedOnce'
    BY <1>1, <1>4, <2>2
       DEF ListedPostsAreCached, ListedIds, ListedOnce, UniqueIds
  <2>4. QED
    BY <1>2, <2>3 DEF ListInv
<1>5. QED
  BY <1>3, <1>4 DEF FinishSave, Show, ShowAll, ShowFavorites

\* A swipe removes the post from the cache and its only row from the list.
LEMMA DeletePostList ==
  ASSUME FeedInv, NEW i \in DOMAIN posts, DeletePost(i)
  PROVE  ListInv'
<1>1. /\ posts \in Seq(Post)
      /\ table \in Seq(Post)
      /\ UniqueIds(table)
      /\ UniqueIds(posts)
      /\ ListedIds \subseteq Ids(table)
  BY DEF FeedInv, FeedTypeOK, StoreTypeOK, OneRowPerPost, ListInv, ListedOnce,
         ListedPostsAreCached
<1>2. /\ save = NoSave /\ save' = save
      /\ posts' = RemoveAt(posts, i)
      /\ table' = DeleteId(table, posts[i].id)
  BY DEF DeletePost, Idle, Delete
<1>3. Ids(table') = Ids(table) \ {posts[i].id}
  BY <1>1, <1>2, DeleteIdRows
<1> DEFINE from(k) == IF k < i THEN k ELSE k + 1
<1>4. /\ Len(posts) \in Nat
      /\ DOMAIN posts = 1 .. Len(posts)
      /\ DOMAIN posts' = 1 .. Len(posts) - 1
      /\ \A k \in DOMAIN posts' : posts'[k] = posts[from(k)]
  BY <1>1, <1>2, LenProperties, RemoveAtRows
<1>5. /\ \A k \in DOMAIN posts' : from(k) \in DOMAIN posts \ {i}
      /\ \A k, l \in DOMAIN posts' : from(k) = from(l) => k = l
  BY <1>4
<1> HIDE DEF from
<1>6. ListedOnce'
  BY <1>1, <1>4, <1>5 DEF ListedOnce, UniqueIds
<1>7. ListedPostsAreCached'
  <2>1. ASSUME NEW k \in DOMAIN posts'
        PROVE  posts'[k].id \in Ids(table')
    <3>1. posts[from(k)].id \in Ids(table)
      BY <1>1, <1>5 DEF ListedIds
    <3>2. posts[from(k)].id # posts[i].id
      BY <1>1, <1>5 DEF UniqueIds
    <3>3. QED
      BY <1>3, <1>4, <3>1, <3>2
  <2>2. QED
    BY <2>1 DEF ListedPostsAreCached, ListedIds
<1>8. BatchIsCached'
  BY <1>2, NoList DEF NoSave, BatchIsCached
<1>9. QED
  BY <1>6, <1>7, <1>8 DEF ListInv

\* Every step of the feed keeps what the lists show cached.
LEMMA ListStep == FeedInv /\ [Next]_vars => ListInv'
<1> SUFFICES ASSUME FeedInv, [Next]_vars
             PROVE  ListInv'
  OBVIOUS
<1>1. FeedInv => ListInv
  BY DEF FeedInv
<1>2. ASSUME NEW v \in View, Appear(v)
      PROVE  ListInv'
  BY <1>2, GetPostsList DEF Appear
<1>3. CASE Refresh
  BY <1>3, GetPostsList DEF Refresh, View
<1>4. CASE UNCHANGED <<table, posts, save>>
  BY <1>1, <1>4, KeepList
<1>5. ASSUME NEW t \in Ticket, ReceivePosts(t)
      PROVE  ListInv'
  <2>1. UNCHANGED <<table, posts>>
    BY <1>5 DEF ReceivePosts, viewVars
  <2>2. ListedPostsAreCached' /\ ListedOnce'
    BY <1>1, <2>1
       DEF ListInv, ListedPostsAreCached, ListedIds, ListedOnce
  <2>3. PICK answer \in Answers :
          save' = [view |-> requests[t].view, batch |-> Fresh(answer),
                   next |-> 1]
    BY <1>5 DEF ReceivePosts
  <2>4. \A i \in DOMAIN Fresh(answer) : i \in Nat \ {0}
    BY FreshPosts, LenProperties
  <2>5. save'.batch = Fresh(answer) /\ save'.next = 1
    BY <2>3
  <2>6. BatchIsCached'
    BY <2>4, <2>5 DEF BatchIsCached
  <2>7. QED
    BY <2>2, <2>6 DEF ListInv
<1>6. CASE SaveNext
  BY <1>6, SaveNextList
<1>7. CASE FinishSave
  BY <1>7, FinishSaveList
<1>8. ASSUME NEW i \in DOMAIN posts, DeletePost(i)
      PROVE  ListInv'
  BY <1>8, DeletePostList
<1>9. CASE DeleteAllPosts
  <2>1. posts' = <<>> /\ save' = NoSave
    BY <1>9 DEF DeleteAllPosts, Idle
  <2>2. QED
    BY <2>1, NoListAfter
<1>10. ASSUME NEW id \in PostId, MarkPost(id)
       PROVE  ListInv'
  <2>1. StoreInv
    BY DEF FeedInv, FeedTypeOK, StoreInv
  <2>2. Ids(table') = Ids(table)
    <3>1. /\ table' \in [DOMAIN table -> Post]
          /\ \A i \in DOMAIN table : table'[i].id = table[i].id
      BY <1>10, <2>1, MarkedRows DEF MarkPost
    <3>2. QED
      BY <3>1 DEF Ids
  <2>3. QED
    BY <1>1, <1>10, <2>2, KeepList DEF MarkPost, viewVars
<1>11. ASSUME NEW cause, End(cause)
       PROVE  ListInv'
  <2>1. posts' = <<>> /\ save' = NoSave
    BY <1>11 DEF End
  <2>2. QED
    BY <2>1, NoListAfter
<1>12. QED
  BY <1>2, <1>3, <1>4, <1>5, <1>6, <1>7, <1>8, <1>9, <1>10, <1>11
     DEF Next, Receive, Saving, StartRequest, ReceiveNothing, TrapOnShortAnswer,
         TrapOnDuplicate, Kill, Launch, vars, storeVars, viewVars

\* The invariant of the feed is inductive.
LEMMA FeedStep == FeedInv /\ [Next]_vars => FeedInv'
<1> SUFFICES ASSUME FeedInv, [Next]_vars
             PROVE  FeedInv'
  OBVIOUS
<1>1. StoreInv /\ [StoreNext]_storeVars
  BY StoreOfFeedStep DEF FeedInv, FeedTypeOK, StoreInv
<1>2. StoreTypeOK' /\ OneRowPerPost'
  BY <1>1, StoreStep DEF StoreInv
<1>3. FeedTypeOK'
  BY <1>2, FeedTypeStep DEF FeedInv
<1>4. ListInv'
  BY ListStep
<1>5. QED
  BY <1>2, <1>3, <1>4 DEF FeedInv

\* The invariant of the feed holds from a fresh install on.
LEMMA FeedInit == Init => FeedInv
<1> SUFFICES ASSUME Init
             PROVE  FeedInv
  OBVIOUS
<1>1. StoreTypeOK /\ OneRowPerPost
  BY NoRows DEF Init, StoreInit, StoreTypeOK, OneRowPerPost
<1>2. /\ NoSave \in Save
      /\ AllFree \in [Ticket -> Request]
      /\ AllLoading \in [View -> BOOLEAN]
  BY EmptySeq DEF NoSave, Save, AllFree, Free, Request, AllLoading, View
<1>3. FeedTypeOK
  BY <1>1, <1>2, EmptySeq DEF Init, FeedTypeOK
<1>4. ListInv
  BY NoList DEF Init, ListInv
<1>5. QED
  BY <1>1, <1>3, <1>4 DEF FeedInv

-----------------------------------------------------------------------------
(***************************************************************************)
(* The spinners.  A load passes from a ticket to the batch that is being   *)
(* saved, so no step may free the one without taking up the other or       *)
(* stopping the spinner.                                                   *)
(***************************************************************************)

\* A load in flight in a step that frees no ticket and keeps the batch's list.
LEMMA KeepInFlight ==
  ASSUME NEW v \in View, InFlight(v), save'.view = save.view,
         \A t \in Ticket :
           requests[t].stage # "free" =>
             requests'[t].stage # "free" /\ requests'[t].view = requests[t].view
  PROVE  InFlight(v)'
BY DEF InFlight

\* A call of getPosts stops the spinner of its list or starts a load for it.
LEMMA GetPostsSpinner ==
  ASSUME FeedTypeOK, SpinnerHasLoad, NEW v \in View, NEW loading,
         loading \in [View -> BOOLEAN],
         \A w \in View \ {v} : loading[w] = isLoading[w],
         GetPosts(v, loading), save' = save, appeared' = appeared \cup {v}
  PROVE  SpinnerHasLoad'
<1> SUFFICES ASSUME NEW w \in appeared', isLoading'[w]
             PROVE  InFlight(w)'
  BY DEF SpinnerHasLoad
<1>1. w \in View
  BY DEF FeedTypeOK
<1>2. CASE /\ isLoading' = [loading EXCEPT ![v] = FALSE]
           /\ UNCHANGED requests
  <2>1. w # v /\ w \in appeared /\ isLoading[w]
    BY <1>1, <1>2
  <2>2. InFlight(w)
    BY <2>1 DEF SpinnerHasLoad
  <2>3. QED
    BY <1>1, <1>2, <2>2, KeepInFlight
<1>3. ASSUME NEW t \in Ticket, requests[t] = Free,
             requests' = [requests EXCEPT
                            ![t] = [stage |-> "delayed", view |-> v]],
             isLoading' = loading
      PROVE  InFlight(w)'
  <2>1. requests'[t] = [stage |-> "delayed", view |-> v]
    BY <1>3 DEF FeedTypeOK
  <2>2. CASE w = v
    BY <2>1, <2>2 DEF InFlight
  <2>3. CASE w # v
    <3>1. InFlight(w)
      BY <1>1, <1>3, <2>3 DEF SpinnerHasLoad
    <3>2. \A u \in Ticket : requests[u].stage # "free" =>
                             requests'[u] = requests[u]
      BY <1>3 DEF FeedTypeOK, Free
    <3>3. QED
      BY <1>1, <3>1, <3>2, KeepInFlight
  <2>4. QED
    BY <2>2, <2>3
<1>4. QED
  BY <1>2, <1>3 DEF GetPosts

\* Every step of the feed keeps a load behind every spinner on screen.
LEMMA SpinnerStep ==
  FeedTypeOK /\ SpinnerHasLoad /\ [Next]_vars => SpinnerHasLoad'
<1> SUFFICES ASSUME FeedTypeOK, SpinnerHasLoad, [Next]_vars
             PROVE  SpinnerHasLoad'
  OBVIOUS
<1>1. /\ appeared \subseteq View
      /\ requests \in [Ticket -> Request]
      /\ isLoading \in [View -> BOOLEAN]
      /\ save \in Save
  BY DEF FeedTypeOK
<1>2. ASSUME NEW v \in View, Appear(v)
      PROVE  SpinnerHasLoad'
  BY <1>1, <1>2, GetPostsSpinner DEF Appear
<1>3. CASE Refresh
  <2> DEFINE loading == [isLoading EXCEPT !["All"] = TRUE]
  <2>1. /\ "All" \in View
        /\ GetPosts("All", loading)
        /\ loading \in [View -> BOOLEAN]
        /\ \A w \in View \ {"All"} : loading[w] = isLoading[w]
        /\ save' = save
        /\ appeared' = appeared \cup {"All"}
    BY <1>1, <1>3 DEF Refresh, View
  <2>2. QED
    BY <2>1, GetPostsSpinner
<1>4. ASSUME NEW t \in Ticket, StartRequest(t)
      PROVE  SpinnerHasLoad'
  <2>1. \A u \in Ticket : requests[u].stage # "free" =>
          requests'[u].stage # "free" /\ requests'[u].view = requests[u].view
    BY <1>1, <1>4 DEF StartRequest, Request
  <2>2. UNCHANGED <<save, isLoading, appeared>>
    BY <1>4 DEF StartRequest, viewVars
  <2>3. QED
    BY <1>1, <2>1, <2>2, KeepInFlight DEF SpinnerHasLoad
<1>5. ASSUME NEW t \in Ticket, ReceiveNothing(t)
      PROVE  SpinnerHasLoad'
  <2> SUFFICES ASSUME NEW w \in appeared', isLoading'[w]
               PROVE  InFlight(w)'
    BY DEF SpinnerHasLoad
  <2>1. /\ w \in appeared
        /\ w \in View
        /\ w # requests[t].view
        /\ isLoading[w]
        /\ save' = save
    BY <1>1, <1>5 DEF ReceiveNothing
  <2>2. InFlight(w)
    BY <2>1 DEF SpinnerHasLoad
  <2>3. \A u \in Ticket : requests[u].view = w => requests'[u] = requests[u]
    BY <1>1, <1>5, <2>1 DEF ReceiveNothing
  <2>4. QED
    BY <2>1, <2>2, <2>3 DEF InFlight
<1>6. ASSUME NEW t \in Ticket, ReceivePosts(t)
      PROVE  SpinnerHasLoad'
  <2> SUFFICES ASSUME NEW w \in appeared', isLoading'[w]
               PROVE  InFlight(w)'
    BY DEF SpinnerHasLoad
  <2>1. /\ w \in appeared
        /\ w \in View
        /\ isLoading[w]
        /\ save = NoSave
        /\ save'.view = requests[t].view
        /\ requests' = [requests EXCEPT ![t] = Free]
    BY <1>1, <1>6 DEF ReceivePosts, viewVars, Idle
  <2>2. CASE w = requests[t].view
    BY <2>1, <2>2 DEF InFlight
  <2>3. CASE w # requests[t].view
    <3>1. InFlight(w)
      BY <2>1 DEF SpinnerHasLoad
    <3>2. PICK u \in Ticket : requests[u].stage # "free"
                              /\ requests[u].view = w
      BY <2>1, <3>1 DEF InFlight, NoSave, View
    <3>3. requests'[u] = requests[u]
      BY <1>1, <2>1, <2>3, <3>2
    <3>4. QED
      BY <3>2, <3>3 DEF InFlight
  <2>4. QED
    BY <2>2, <2>3
<1>7. CASE SaveNext
  <2>1. save'.view = save.view /\ UNCHANGED <<requests, isLoading, appeared>>
    BY <1>1, <1>7 DEF SaveNext, viewVars, Save
  <2>2. QED
    BY <1>1, <2>1, KeepInFlight DEF SpinnerHasLoad
<1>8. CASE FinishSave
  <2>1. \A w \in appeared' : isLoading'[w] =>
          /\ w \in appeared
          /\ isLoading[w]
          /\ w # save.view
    BY <1>1, <1>8 DEF FinishSave
  <2>2. UNCHANGED requests
    BY <1>8 DEF FinishSave
  <2>3. QED
    BY <2>1, <2>2 DEF SpinnerHasLoad, InFlight
<1>9. CASE UNCHANGED <<requests, save, isLoading, appeared>>
  BY <1>9 DEF SpinnerHasLoad, InFlight
<1>10. ASSUME NEW cause, End(cause)
       PROVE  SpinnerHasLoad'
  BY <1>10 DEF End, SpinnerHasLoad
<1>11. QED
  BY <1>2, <1>3, <1>4, <1>5, <1>6, <1>7, <1>8, <1>9, <1>10
     DEF Next, Receive, Saving, DeletePost, DeleteAllPosts, MarkPost,
         TrapOnShortAnswer, TrapOnDuplicate, Kill, Launch, vars, viewVars

-----------------------------------------------------------------------------
(***************************************************************************)
(* The marks.  Each step of the feed is a call of the store, each call one *)
(* of the library, and only two of those touch the marks of a cached post. *)
(***************************************************************************)

MarksKept ==
  \A id \in Ids(table) \cap Ids(table') : CachedMarks'[id] = CachedMarks[id]

\* A call that is not one of the user's marks keeps the marks.
LEMMA StoreKeepsMarks ==
  ASSUME StoreInv,
         \/ UNCHANGED table
         \/ \E post \in Post : SavePost(post)
         \/ \E id \in PostId : Delete(id)
         \/ DeleteAll
  PROVE  MarksKept
<1>1. DOMAIN CachedMarks = Ids(table) /\ DOMAIN CachedMarks' = Ids(table')
  BY DEF CachedMarks, MarksIn
<1>2. CASE UNCHANGED table
  BY <1>2 DEF MarksKept, CachedMarks
<1>3. ASSUME NEW post \in Post, SavePost(post)
      PROVE  MarksKept
  <2>1. Library!Add(post.id, MarksOf(post))
    BY <1>3, SavePostAdds
  <2>2. QED
    BY <1>1, <2>1 DEF Library!Add, MarksKept
<1>4. ASSUME NEW id \in PostId, Delete(id)
      PROVE  MarksKept
  <2>1. Library!Remove(id) \/ UNCHANGED CachedMarks
    BY <1>4, DeleteRemoves
  <2>2. CASE Library!Remove(id)
    BY <1>1, <2>2 DEF Library!Remove, MarksKept
  <2>3. CASE UNCHANGED CachedMarks
    BY <2>3 DEF MarksKept
  <2>4. QED
    BY <2>1, <2>2, <2>3
<1>5. CASE DeleteAll
  <2>1. Ids(table') = {}
    BY <1>5, NoRows DEF DeleteAll
  <2>2. QED
    BY <2>1 DEF MarksKept
<1>6. QED
  BY <1>2, <1>3, <1>4, <1>5

\* A step of the feed keeps the marks, or is a mark of the user's.
LEMMA MarksStep ==
  FeedInv /\ [Next]_vars =>
    MarksKept \/ (\E id \in PostId : MarkPost(id)) \/ UNCHANGED vars
<1> SUFFICES ASSUME FeedInv, [Next]_vars,
                    ~ \E id \in PostId : MarkPost(id)
             PROVE  MarksKept
  BY DEF vars, MarksKept, CachedMarks
<1>1. StoreInv /\ FeedTypeOK
  BY DEF FeedInv, FeedTypeOK, StoreInv
<1>2. CASE SaveNext
  <2>1. save.batch \in Seq(Post) /\ save.next \in Nat \ {0}
    BY <1>1 DEF FeedTypeOK, Save
  <2>2. save.batch[save.next] \in Post
    BY <1>2, <2>1, LenProperties, ElementOfSeq DEF SaveNext
  <2>3. QED
    BY <1>1, <1>2, <2>2, StoreKeepsMarks DEF SaveNext
<1>3. ASSUME NEW i \in DOMAIN posts, DeletePost(i)
      PROVE  MarksKept
  <2>1. posts[i] \in Post
    BY <1>1, ElementOfSeq DEF FeedTypeOK
  <2>2. posts[i].id \in PostId
    BY <2>1 DEF Post
  <2>3. QED
    BY <1>1, <1>3, <2>2, StoreKeepsMarks DEF DeletePost
<1>4. CASE DeleteAllPosts
  BY <1>1, <1>4, StoreKeepsMarks DEF DeleteAllPosts
<1>5. CASE UNCHANGED table
  BY <1>1, <1>5, StoreKeepsMarks
<1>6. QED
  BY <1>2, <1>3, <1>4, <1>5
     DEF Next, Receive, Saving, Appear, Refresh, GetPosts, LoadPostsFromRealm,
         StartRequest, ReceiveNothing, ReceivePosts, FinishSave,
         TrapOnShortAnswer, TrapOnDuplicate, Kill, End, Close, Launch, vars,
         storeVars

-----------------------------------------------------------------------------
(***************************************************************************)
(* Theorems.                                                               *)
(***************************************************************************)

\* FeedInv holds in every state the app reaches.
THEOREM FeedInvariant == Spec => []FeedInv
BY FeedInit, FeedStep, PTL DEF Spec

\* The types of the app's state: every call and completion writes posts, loads
\* and spinners of their kinds, traps and relaunches included.
THEOREM FeedTypeCorrect == Spec => []FeedTypeOK
<1>1. FeedInv => FeedTypeOK
  BY DEF FeedInv
<1>2. QED
  BY <1>1, FeedInvariant, PTL

\* The feed is a client of the store: it does what PostStore's calls do to the
\* table and nothing else, loads, saves cut short and relaunches included.
THEOREM FeedImplementsStore == Spec => StoreSpec
<1>1. Init => StoreInit
  BY DEF Init
<1>2. FeedInv /\ [Next]_vars => [StoreNext]_storeVars
  BY StoreOfFeedStep DEF FeedInv
<1>3. QED
  BY <1>1, <1>2, FeedInvariant, PTL DEF Spec, StoreSpec

\* So what PostLibrary promises holds in the app.
THEOREM FeedImplementsLibrary == Spec => StoreIsLibrary
BY FeedImplementsStore, StoreImplementsLibrary, PTL

\* Every row of the All list is a cached post, however loads, deletions, marks
\* and the end of the process interleave.
THEOREM ListedPostsAreCachedHolds == Spec => []ListedPostsAreCached
<1>1. FeedInv => ListedPostsAreCached
  BY DEF FeedInv, ListInv
<1>2. QED
  BY <1>1, FeedInvariant, PTL

\* The All list never shows a post twice, even when two loads overlap.
THEOREM ListedOnceHolds == Spec => []ListedOnce
<1>1. FeedInv => ListedOnce
  BY DEF FeedInv, ListInv
<1>2. QED
  BY <1>1, FeedInvariant, PTL

\* A spinner that turns on a list that has appeared has a load that will stop
\* it, however many loads are in flight.
THEOREM SpinnerHasLoadHolds == Spec => []SpinnerHasLoad
<1>1. Init => SpinnerHasLoad
  BY DEF Init, SpinnerHasLoad
<1>2. QED
  BY <1>1, SpinnerStep, FeedTypeCorrect, PTL DEF Spec

\* Only the user's marks change the marks of a post that stays cached: loads,
\* deletions of others, crashes and relaunches keep them.
THEOREM OnlyUserMarksHolds == Spec => OnlyUserMarks
<1>1. FeedInv /\ [Next]_vars =>
        [MarksKept \/ \E id \in PostId : MarkPost(id)]_vars
  BY MarksStep
<1>2. QED
  BY <1>1, FeedInvariant, PTL DEF Spec, OnlyUserMarks, MarksKept
=============================================================================
