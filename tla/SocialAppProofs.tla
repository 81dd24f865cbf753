-------------------------- MODULE SocialAppProofs --------------------------
(***************************************************************************)
(* SocialApp, for any posts, answers and loads: it is the feed of PostsFeed*)
(* however it is navigated; and on a phone the list on screen is current,  *)
(* an open post is cached and read, and its star is right until its tab is *)
(* left (with the history of MCStar).                                      *)
(***************************************************************************)
EXTENDS MCStar, PostsFeedProofs

-----------------------------------------------------------------------------
(***************************************************************************)
(* Types.                                                                  *)
(***************************************************************************)

\* The rows of a list are posts.
LEMMA RowsArePosts ==
  ASSUME FeedTypeOK, NEW v \in View
  PROVE  Rows(v) \subseteq Post
BY ElementOfSeq DEF FeedTypeOK, Rows, ToSet

\* ... and are after a step.
LEMMA RowsArePostsAfter ==
  ASSUME FeedTypeOK', NEW v \in View
  PROVE  Rows(v)' \subseteq Post
BY ElementOfSeq DEF FeedTypeOK, Rows, ToSet

\* The row drawn for a post is the one with its identifier, if there is one.
LEMMA RedrawnRow ==
  ASSUME NEW post, NEW rows
  PROVE  \/ Redrawn(post, rows) = NoPost
         \/ Redrawn(post, rows) \in rows /\ Redrawn(post, rows).id = post.id
BY DEF Redrawn

\* A redrawn detail keeps its post, takes the row its list now has for it, or
\* closes; one that is not open stays so.
LEMMA RedrawKeepsPost ==
  ASSUME AppTypeOK, Redraw, NEW v \in View
  PROVE  /\ captured[v] = NoPost => captured'[v] = NoPost
         /\ \/ captured'[v] = captured[v]
            \/ captured'[v] = NoPost
            \/ captured'[v] \in Rows(v)' /\ captured'[v].id = captured[v].id
<1>1. PICK kept \in SUBSET View :
        captured' = [w \in View |-> IF w \in kept \/ ~IsOpen(w)
                                      THEN captured[w]
                                      ELSE Redrawn(captured[w], Rows(w)')]
  BY DEF Redraw
<1>2. captured'[v] = IF v \in kept \/ ~IsOpen(v)
                       THEN captured[v] ELSE Redrawn(captured[v], Rows(v)')
  BY <1>1
<1>3. QED
  BY <1>2, RedrawnRow DEF IsOpen

\* A redraw leaves captured posts and stars of their types.
LEMMA RedrawTypes ==
  ASSUME AppTypeOK, FeedTypeOK', Redraw
  PROVE  /\ captured' \in [View -> Post \cup {NoPost}]
         /\ star' \in [View -> BOOLEAN]
<1>1. \A v \in View : captured'[v] \in Post \cup {NoPost}
  BY RedrawKeepsPost, RowsArePostsAfter DEF AppTypeOK
<1>2. captured' = [v \in View |-> captured'[v]]
  BY DEF Redraw
<1>3. captured' \in [View -> Post \cup {NoPost}]
  BY <1>1, <1>2
<1>4. star' \in [View -> BOOLEAN]
  BY DEF Redraw, AppTypeOK
<1>5. QED
  BY <1>3, <1>4

-----------------------------------------------------------------------------
(***************************************************************************)
(* The app is the feed.                                                    *)
(***************************************************************************)

\* A mark made in the detail is one that PostsFeed allows.
LEMMA MarksAreFeedSteps ==
  FeedTypeOK /\ AppTypeOK /\ (DetailAppears \/ PressStar) => [Next]_vars
<1> SUFFICES ASSUME FeedTypeOK, AppTypeOK, DetailAppears \/ PressStar
             PROVE  [Next]_vars
  OBVIOUS
<1> DEFINE post == captured[tab]
<1>1. IsOpen(tab) => post.id \in PostId
  BY DEF AppTypeOK, IsOpen, Post
<1>2. CASE DetailAppears /\ IsOpen(tab)
  <2>1. MarkPost(post.id)
    BY <1>2 DEF DetailAppears, MarkPost
  <2>2. QED
    BY <1>1, <1>2, <2>1 DEF Next
<1>3. CASE DetailAppears /\ ~IsOpen(tab)
  BY <1>3 DEF DetailAppears, vars, storeVars, viewVars
<1>4. CASE PressStar
  <2>1. (~post.isFavorite) \in BOOLEAN
    OBVIOUS
  <2>2. MarkPost(post.id)
    BY <1>4, <2>1 DEF PressStar, Settled, MarkPost
  <2>3. QED
    BY <1>1, <1>4, <2>2 DEF PressStar, Next
<1>5. QED
  BY <1>2, <1>3, <1>4

\* Each step of the app is one of PostsFeed, or only navigates.
LEMMA AppStepIsFeedStep ==
  FeedTypeOK /\ AppTypeOK /\ [AppNext]_appVars => [Next]_vars
<1> SUFFICES ASSUME FeedTypeOK, AppTypeOK, [AppNext]_appVars
             PROVE  [Next]_vars
  OBVIOUS
<1>1. ASSUME NEW v \in View,
             SelectTab(v) \/ \E p \in Rows(v) : Tap(v, p)
      PROVE  [Next]_vars
  BY <1>1 DEF SelectTab, Tap
<1>2. CASE Back
  BY <1>2 DEF Back
<1>3. CASE ListAppears
  BY <1>3 DEF ListAppears, AppTypeOK, Next
<1>4. CASE EditList
  BY <1>4 DEF EditList, Next
<1>5. CASE Load
  BY <1>5 DEF Load, Next, Receive, Saving
<1>6. CASE EndLoad
  BY <1>6 DEF EndLoad, Next, Saving
<1>7. CASE DetailAppears \/ PressStar
  BY <1>7, MarksAreFeedSteps
<1>8. CASE Leave
  BY <1>8 DEF Leave, Next, Receive, Saving
<1>9. CASE Start
  BY <1>9 DEF Start, Next
<1>10. CASE UNCHANGED appVars
  BY <1>10 DEF appVars
<1>11. QED
  BY <1>1, <1>2, <1>3, <1>4, <1>5, <1>6, <1>7, <1>8, <1>9, <1>10 DEF AppNext

\* Each step keeps the types of the navigation.
LEMMA AppTypeStep ==
  FeedTypeOK /\ FeedTypeOK' /\ AppTypeOK /\ [AppNext]_appVars => AppTypeOK'
<1> SUFFICES ASSUME FeedTypeOK, FeedTypeOK', AppTypeOK, [AppNext]_appVars
             PROVE  AppTypeOK'
  OBVIOUS
<1> USE DEF AppTypeOK
<1>1. ASSUME NEW v \in View, SelectTab(v)
      PROVE  AppTypeOK'
  BY <1>1 DEF SelectTab
<1>2. ASSUME NEW v \in View, NEW p \in Rows(v), Tap(v, p)
      PROVE  AppTypeOK'
  <2>1. p \in Post
    BY RowsArePosts
  <2>2. QED
    BY <1>2, <2>1 DEF Tap
<1>3. CASE Back
  BY <1>3 DEF Back
<1>4. CASE ListAppears
  BY <1>4, RedrawTypes DEF ListAppears
<1>5. CASE EditList
  BY <1>5, RedrawTypes DEF EditList
<1>6. CASE Load
  BY <1>6 DEF Load, navVars
<1>7. CASE EndLoad
  BY <1>7, RedrawTypes DEF EndLoad, Uncover
<1>8. CASE DetailAppears
  <2>1. IsOpen(tab) => captured[tab].isFavorite \in BOOLEAN
    BY DEF IsOpen, Post
  <2>2. QED
    BY <1>8, <2>1 DEF DetailAppears
<1>9. CASE PressStar
  <2>1. (~captured[tab].isFavorite) \in BOOLEAN
    OBVIOUS
  <2>2. star' \in [View -> BOOLEAN]
    BY <1>9, <2>1, Zenon DEF PressStar
  <2>3. QED
    BY <1>9, <2>2 DEF PressStar
<1>10. CASE Leave
  BY <1>10 DEF Leave, NothingOpen, NoStars, View
<1>11. CASE Start
  BY <1>11 DEF Start
<1>12. CASE UNCHANGED appVars
  BY <1>12 DEF appVars, navVars
<1>13. QED
  BY <1>1, <1>2, <1>3, <1>4, <1>5, <1>6, <1>7, <1>8, <1>9, <1>10, <1>11, <1>12
     DEF AppNext

AppInv == FeedInv /\ AppTypeOK

\* A fresh install has both.
LEMMA AppInvInit == AppInit => AppInv
BY FeedInit DEF AppInit, AppInv, AppTypeOK, View, NothingOpen, NoStars

\* Each step keeps both, and is a step of the feed.
LEMMA AppInvStep == AppInv /\ [AppNext]_appVars => AppInv' /\ [Next]_vars
<1> SUFFICES ASSUME AppInv, [AppNext]_appVars
             PROVE  AppInv' /\ [Next]_vars
  OBVIOUS
<1>1. FeedTypeOK
  BY DEF AppInv, FeedInv
<1>2. [Next]_vars
  BY <1>1, AppStepIsFeedStep DEF AppInv
<1>3. FeedInv' /\ FeedTypeOK'
  BY <1>2, FeedStep DEF AppInv, FeedInv
<1>4. QED
  BY <1>1, <1>2, <1>3, AppTypeStep DEF AppInv

\* The invariant of the feed and the types of the navigation hold together.
THEOREM AppInvariant == AppSpec => []AppInv
BY AppInvInit, AppInvStep, PTL DEF AppSpec

\* The types of the app's navigation: a detail always captures a post.
THEOREM AppTypeCorrect == AppSpec => []AppTypeOK
<1>1. AppInv => AppTypeOK
  BY DEF AppInv
<1>2. QED
  BY <1>1, AppInvariant, PTL

\* Whatever the user taps, in whatever layout, the app does what PostsFeed
\* does: its theorems hold of the app.
THEOREM AppIsFeedHolds == AppSpec => AppIsFeed
<1>1. AppInit => Init
  BY DEF AppInit
<1>2. QED
  BY <1>1, AppInvStep, AppInvariant, PTL DEF AppSpec, AppIsFeed, Spec

-----------------------------------------------------------------------------
(***************************************************************************)
(* A phone.  The list of all posts is current while it is on screen, not   *)
(* only when the main thread is free; so are the rows a save has written.  *)
(* The open post of that tab stays cached, since only the visible list of  *)
(* the tab deletes.                                                        *)
(***************************************************************************)

OnTheWay ==
  /\ due # {} => Idle
  /\ "list" \in due => ~IsOpen(tab)
  /\ process # "running" => save = NoSave /\ captured = NothingOpen

Current ==
  ListVisible("All") /\ "list" \notin due =>
    \A i \in DOMAIN posts : posts[i] \in ToSet(table)

BatchIsTable ==
  \A i \in DOMAIN save.batch : i < save.next => save.batch[i] \in ToSet(table)

OpenIsCached ==
  IsOpen("All") =>
    /\ captured["All"].id \in Ids(table)
    /\ ~("detail" \in due /\ tab = "All") =>
         \E row \in ToSet(table) : row.id = captured["All"].id /\ row.read

PhoneInv == OnTheWay /\ Current /\ BatchIsTable /\ OpenIsCached

\* Without a batch no row has been written.
LEMMA NoBatch ==
  /\ save = NoSave => BatchIsTable
  /\ save' = NoSave => BatchIsTable'
BY DEF NoSave, BatchIsTable

\* What is asked of an open post holds in any table that has the rows.
LEMMA OpenStays ==
  ASSUME OpenIsCached, due = {} \/ tab # "All",
         \A row \in ToSet(table) : \E now \in ToSet(table') :
           now.id = row.id /\ (row.read => now.read),
         IsOpen("All")' =>
           IsOpen("All") /\ captured'["All"].id = captured["All"].id
  PROVE  OpenIsCached'
<1> SUFFICES ASSUME IsOpen("All")'
             PROVE  \E now \in ToSet(table') :
                      now.id = captured["All"].id /\ now.read
  BY DEF OpenIsCached, ToSet, Ids
<1>1. PICK row \in ToSet(table) : row.id = captured["All"].id /\ row.read
  BY DEF OpenIsCached
<1>2. QED
  BY <1>1

\* A redrawn detail has the post it had.
LEMMA RedrawKeepsOpen ==
  ASSUME AppTypeOK, Redraw
  PROVE  IsOpen("All")' =>
           IsOpen("All") /\ captured'["All"].id = captured["All"].id
BY RedrawKeepsPost DEF IsOpen, View

\* What a call of getPosts leaves in the list is what the cache holds.
LEMMA GetPostsCurrent ==
  ASSUME AppInv, GetPosts("All", isLoading) \/
                 GetPosts("All", [isLoading EXCEPT !["All"] = TRUE])
  PROVE  /\ table' = table
         /\ \A i \in DOMAIN posts' : posts'[i] \in ToSet(table')
<1>1. table' = table
  BY DEF GetPosts, LoadPostsFromRealm
<1>2. CASE posts' = table
  BY <1>1, <1>2 DEF ToSet
<1>3. CASE table = <<>> /\ posts' = posts
  <2>1. Ids(table) = {}
    BY <1>3 DEF Ids
  <2>2. DOMAIN posts = {}
    BY <2>1 DEF AppInv, FeedInv, ListInv, ListedPostsAreCached, ListedIds
  <2>3. QED
    BY <1>1, <1>3, <2>2
<1>4. QED
  BY <1>1, <1>2, <1>3 DEF GetPosts, Show, ShowAll

\* A tap opens the post of a row, which is cached; the list is covered.
LEMMA TapPhone ==
  ASSUME AppInv, PhoneInv, Layout = "stack",
         NEW v \in View, NEW p \in Rows(v), Tap(v, p)
  PROVE  PhoneInv'
<1>1. p \in Post /\ p # NoPost
  BY RowsArePosts, NoPostAssumption DEF AppInv, FeedInv
<1>2. /\ tab = v /\ tab' = tab
      /\ Idle /\ due = {} /\ due' = {"detail"}
      /\ UNCHANGED vars
      /\ captured' = [captured EXCEPT ![v] = p]
  BY DEF Tap, Settled, ListVisible
<1>3. captured'[v] = p /\ \A w \in View : w # v => captured'[w] = captured[w]
  BY <1>2 DEF AppInv, AppTypeOK
<1>4. OnTheWay'
  BY <1>2 DEF OnTheWay, Idle, vars
<1>5. Current'
  BY <1>1, <1>2, <1>3 DEF Current, ListVisible, IsOpen
<1>6. BatchIsTable'
  BY <1>2 DEF PhoneInv, BatchIsTable, vars
<1>7. OpenIsCached'
  <2>1. CASE v = "All"
    <3>1. p.id \in Ids(table)
      BY <2>1 DEF AppInv, FeedInv, ListInv, ListedPostsAreCached, ListedIds,
                  Rows, ToSet
    <3>2. QED
      BY <1>2, <1>3, <2>1, <3>1 DEF OpenIsCached, vars
  <2>2. CASE v # "All"
    BY <1>2, <1>3, <2>2, OpenStays DEF PhoneInv, vars, View, IsOpen
  <2>3. QED
    BY <2>1, <2>2
<1>8. QED
  BY <1>4, <1>5, <1>6, <1>7 DEF PhoneInv

\* Back and the tab bar change what is on screen; a list that comes on screen
\* is due to appear.
LEMMA NavigatePhone ==
  ASSUME AppInv, PhoneInv, Layout = "stack",
         Back \/ \E v \in View : SelectTab(v)
  PROVE  PhoneInv'
<1>1. /\ Idle /\ due = {}
      /\ UNCHANGED vars
  BY DEF Back, SelectTab, Settled
<1>2. /\ "list" \in due' => ~IsOpen(tab)'
      /\ ListVisible("All")' => "list" \in due'
      /\ IsOpen("All")' =>
           IsOpen("All") /\ captured'["All"].id = captured["All"].id
  BY DEF Back, SelectTab, IsOpen, ListVisible, AppInv, AppTypeOK, View
<1>3. OnTheWay'
  BY <1>1, <1>2 DEF OnTheWay, Idle, vars
<1>4. Current'
  BY <1>2 DEF Current
<1>5. BatchIsTable'
  BY <1>1 DEF PhoneInv, BatchIsTable, vars
<1>6. OpenIsCached'
  BY <1>1, <1>2, OpenStays DEF PhoneInv, vars
<1>7. QED
  BY <1>3, <1>4, <1>5, <1>6 DEF PhoneInv

\* A list that appears takes the rows of the cache.
LEMMA ListAppearsPhone ==
  ASSUME AppInv, PhoneInv, Layout = "stack", ListAppears
  PROVE  PhoneInv'
<1>1. /\ Idle /\ "list" \in due /\ ~IsOpen(tab)
      /\ due' = due \ {"list"}
      /\ UNCHANGED <<process, save, tab, table>>
      /\ Redraw
      /\ tab \in View /\ captured \in [View -> Post \cup {NoPost}]
  BY DEF ListAppears, Appear, GetPosts, LoadPostsFromRealm, PhoneInv, OnTheWay,
         AppInv, AppTypeOK
<1>2. OnTheWay'
  BY <1>1 DEF OnTheWay, Idle
<1>3. Current'
  <2>1. CASE tab = "All"
    BY <2>1, GetPostsCurrent DEF ListAppears, Appear, Current
  <2>2. CASE tab # "All"
    BY <1>1, <2>2 DEF Current, ListVisible
  <2>3. QED
    BY <2>1, <2>2
<1>4. BatchIsTable'
  BY <1>1, NoBatch DEF Idle
<1>5. OpenIsCached'
  <2>1. CASE tab = "All"
    <3>1. captured'["All"] = NoPost
      BY <1>1, <2>1, RedrawKeepsPost DEF AppInv, IsOpen
    <3>2. QED
      BY <3>1 DEF OpenIsCached, IsOpen
  <2>2. CASE tab # "All"
    BY <1>1, <2>2, RedrawKeepsOpen, OpenStays DEF AppInv, PhoneInv
  <2>3. QED
    BY <2>1, <2>2
<1>6. QED
  BY <1>2, <1>3, <1>4, <1>5 DEF PhoneInv

\* A swipe keeps the other rows of the list in the cache, as they are.
LEMMA DeletePostCurrent ==
  ASSUME AppInv, NEW i \in DOMAIN posts, DeletePost(i),
         \A k \in DOMAIN posts : posts[k] \in ToSet(table)
  PROVE  \A k \in DOMAIN posts' : posts'[k] \in ToSet(table')
<1> DEFINE id == posts[i].id
<1>1. /\ table \in Seq(Post) /\ UniqueIds(table)
      /\ posts \in Seq(Post) /\ UniqueIds(posts)
      /\ posts' = RemoveAt(posts, i)
      /\ table' = DeleteId(table, id)
  BY DEF AppInv, FeedInv, FeedTypeOK, StoreTypeOK, OneRowPerPost, ListInv,
         ListedOnce, DeletePost, Delete
<1>2. /\ Ids(table') = Ids(table) \ {id}
      /\ \A k \in DOMAIN table' : \E j \in DOMAIN table : table'[k] = table[j]
  BY <1>1, DeleteIdRows
<1>3. ASSUME NEW row \in ToSet(table), row.id # id
      PROVE  row \in ToSet(table')
  <2>1. row.id \in Ids(table')
    BY <1>2, <1>3 DEF ToSet, Ids
  <2>2. PICK k \in DOMAIN table' : table'[k].id = row.id
    BY <2>1 DEF Ids
  <2>3. table'[k] = row
    BY <1>1, <1>2, <2>2 DEF UniqueIds, ToSet
  <2>4. QED
    BY <2>3 DEF ToSet
<1>4. \A k \in DOMAIN posts' : \E j \in DOMAIN posts \ {i} : posts'[k] = posts[j]
  <2>1. /\ Len(posts) \in Nat
        /\ DOMAIN posts = 1 .. Len(posts)
    BY <1>1, LenProperties
  <2>2. /\ DOMAIN posts' = 1 .. Len(posts) - 1
        /\ \A k \in 1 .. Len(posts) - 1 :
             posts'[k] = IF k < i THEN posts[k] ELSE posts[k + 1]
    BY <1>1, RemoveAtRows
  <2>3. ASSUME NEW k \in DOMAIN posts'
        PROVE  \E j \in DOMAIN posts \ {i} : posts'[k] = posts[j]
    <3>1. CASE k < i
      BY <2>1, <2>2, <3>1
    <3>2. CASE ~(k < i)
      <4>1. k + 1 \in DOMAIN posts \ {i} /\ posts'[k] = posts[k + 1]
        BY <2>1, <2>2, <3>2
      <4>2. QED
        BY <4>1
    <3>3. QED
      BY <3>1, <3>2
  <2>4. QED
    BY <2>3
<1>5. QED
  BY <1>1, <1>3, <1>4 DEF UniqueIds

\* Reload, swipe and Delete All change list and cache alike.
LEMMA EditListPhone ==
  ASSUME AppInv, PhoneInv, Layout = "stack", EditList
  PROVE  PhoneInv'
<1>1. /\ Idle /\ due = {} /\ due' = {}
      /\ tab = "All" /\ tab' = tab
      /\ ~IsOpen("All")
      /\ Redraw
      /\ UNCHANGED <<process, save>>
  BY DEF EditList, Settled, ListVisible, Refresh, DeleteAllPosts, DeletePost
<1>2. \A k \in DOMAIN posts : posts[k] \in ToSet(table)
  BY <1>1 DEF PhoneInv, Current, ListVisible
<1>3. \A k \in DOMAIN posts' : posts'[k] \in ToSet(table')
  <2>1. CASE Refresh
    BY <2>1, GetPostsCurrent DEF Refresh
  <2>2. CASE DeleteAllPosts
    BY <2>2 DEF DeleteAllPosts
  <2>3. CASE \E i \in DOMAIN posts : DeletePost(i)
    BY <1>2, <2>3, DeletePostCurrent
  <2>4. QED
    BY <2>1, <2>2, <2>3 DEF EditList
<1>4. OnTheWay'
  BY <1>1 DEF OnTheWay, Idle
<1>5. Current'
  BY <1>3 DEF Current
<1>6. BatchIsTable'
  BY <1>1, NoBatch DEF Idle
<1>7. OpenIsCached'
  <2>1. captured'["All"] = NoPost
    BY <1>1, RedrawKeepsPost DEF AppInv, IsOpen, View
  <2>2. QED
    BY <2>1 DEF OpenIsCached, IsOpen
<1>8. QED
  BY <1>4, <1>5, <1>6, <1>7 DEF PhoneInv

\* A turn of savePosts adds its row and keeps the others.
LEMMA SaveNextRows ==
  ASSUME AppInv, SaveNext
  PROVE  /\ ToSet(table') = ToSet(table) \cup {save.batch[save.next]}
         /\ save'.batch = save.batch
         /\ save'.next = save.next + 1
         /\ save.next \in Nat
         /\ \A i \in DOMAIN save.batch : i \in Nat
<1> DEFINE row == save.batch[save.next]
<1>1. /\ save.batch \in Seq(Post)
      /\ save.next \in Nat \ {0}
      /\ \A i \in DOMAIN save.batch : i \in Nat
      /\ row \in Post
  BY LenProperties, ElementOfSeq
     DEF AppInv, FeedInv, FeedTypeOK, Save, SaveNext
<1>2. /\ table \in Seq(Post)
      /\ table' = Append(table, row)
  BY DEF AppInv, FeedInv, FeedTypeOK, StoreTypeOK, SaveNext, SavePost
<1>3. /\ Len(table) \in Nat
      /\ DOMAIN table = 1 .. Len(table)
      /\ DOMAIN table' = 1 .. Len(table) + 1
      /\ \A i \in 1 .. Len(table) : table'[i] = table[i]
      /\ table'[Len(table) + 1] = row
  <2>1. table' \in Seq(Post) /\ Len(table') = Len(table) + 1
    BY <1>1, <1>2, AppendProperties
  <2>2. QED
    BY <1>1, <1>2, <2>1, LenProperties, AppendProperties
<1>4. ToSet(table') = ToSet(table) \cup {row}
  <2>1. \A i \in DOMAIN table' : table'[i] \in ToSet(table) \cup {row}
    BY <1>3 DEF ToSet
  <2>2. \A i \in DOMAIN table : table[i] \in ToSet(table')
    BY <1>3 DEF ToSet
  <2>3. row \in ToSet(table')
    BY <1>3 DEF ToSet
  <2>4. QED
    BY <2>1, <2>2, <2>3 DEF ToSet
<1>5. save' = [save EXCEPT !.next = save.next + 1]
  BY DEF SaveNext
<1>6. save'.batch = save.batch /\ save'.next = save.next + 1
  BY <1>5 DEF AppInv, FeedInv, FeedTypeOK, Save
<1>7. QED
  BY <1>1, <1>4, <1>6

\* A load adds rows to the cache and changes none.
LEMMA LoadPhone ==
  ASSUME AppInv, AppInv', PhoneInv, Layout = "stack", Load
  PROVE  PhoneInv'
<1>1. /\ due = {}
      /\ UNCHANGED <<navVars, posts>>
      /\ process = "running" /\ process' = process
  BY DEF Load, StartRequest, ReceiveNothing, ReceivePosts, SaveNext, Idle,
         viewVars
<1>2. ToSet(table) \subseteq ToSet(table')
  BY SaveNextRows
     DEF Load, StartRequest, ReceiveNothing, ReceivePosts, storeVars
<1>3. OnTheWay'
  BY <1>1 DEF OnTheWay, navVars
<1>4. Current'
  BY <1>1, <1>2 DEF PhoneInv, Current, ListVisible, IsOpen, navVars
<1>5. BatchIsTable'
  <2>1. CASE \E t \in Ticket : StartRequest(t) \/ ReceiveNothing(t)
    BY <2>1 DEF StartRequest, ReceiveNothing, storeVars, PhoneInv, BatchIsTable
  <2>2. CASE \E t \in Ticket : ReceivePosts(t)
    <3>1. save'.next = 1
      BY <2>2 DEF ReceivePosts
    <3>2. save'.batch \in Seq(Post)
      BY DEF AppInv, FeedInv, FeedTypeOK, Save
    <3>3. \A i \in DOMAIN save'.batch : ~(i < 1)
      BY <3>2, LenProperties
    <3>4. QED
      BY <3>1, <3>3 DEF BatchIsTable
  <2>3. CASE SaveNext
    <3>1. ASSUME NEW i \in DOMAIN save.batch, i < save.next + 1
          PROVE  save.batch[i] \in ToSet(table')
      <4>1. i < save.next \/ i = save.next
        BY <2>3, <3>1, SaveNextRows
      <4>2. QED
        BY <2>3, <4>1, SaveNextRows DEF PhoneInv, BatchIsTable
    <3>2. save'.batch = save.batch /\ save'.next = save.next + 1
      BY <2>3, SaveNextRows
    <3>3. QED
      BY <3>1, <3>2 DEF BatchIsTable
  <2>4. QED
    BY <2>1, <2>2, <2>3 DEF Load
<1>6. OpenIsCached'
  <2>1. IsOpen("All")' =>
          IsOpen("All") /\ captured'["All"].id = captured["All"].id
    BY <1>1 DEF IsOpen, navVars
  <2>2. QED
    BY <1>1, <1>2, <2>1, OpenStays DEF PhoneInv
<1>7. QED
  BY <1>3, <1>4, <1>5, <1>6 DEF PhoneInv

\* The batch that becomes the list was written whole.
LEMMA EndLoadPhone ==
  ASSUME AppInv, PhoneInv, Layout = "stack", EndLoad
  PROVE  PhoneInv'
<1>1. /\ due = {} /\ Uncover /\ Redraw
      /\ UNCHANGED <<tab, table, process>>
      /\ process = "running" /\ save' = NoSave
      /\ tab \in View /\ captured \in [View -> Post \cup {NoPost}]
  BY DEF EndLoad, FinishSave, storeVars, AppInv, AppTypeOK
<1>2. OnTheWay'
  BY <1>1 DEF OnTheWay, Idle, Uncover, IsOpen
<1>3. Current'
  <2>1. SUFFICES ASSUME ListVisible("All")', "list" \notin due'
                 PROVE  \A i \in DOMAIN posts' : posts'[i] \in ToSet(table')
    BY DEF Current
  <2>2. ListVisible("All")
    BY <1>1, <2>1 DEF ListVisible, IsOpen, Uncover
  <2>3. CASE posts' = posts
    BY <1>1, <2>2, <2>3 DEF PhoneInv, Current
  <2>4. CASE posts' = save.batch
    <3>1. \A i \in DOMAIN save.batch : i < save.next
      <4>1. /\ save.batch \in Seq(Post)
            /\ save.next \in Nat
            /\ save.next > Len(save.batch)
        BY DEF AppInv, FeedInv, FeedTypeOK, Save, EndLoad, FinishSave
      <4>2. /\ Len(save.batch) \in Nat
            /\ DOMAIN save.batch = 1 .. Len(save.batch)
        BY <4>1, LenProperties
      <4>3. QED
        BY <4>1, <4>2
    <3>2. QED
      BY <1>1, <2>4, <3>1 DEF PhoneInv, BatchIsTable
  <2>5. QED
    BY <2>3, <2>4 DEF EndLoad, FinishSave, Show, ShowAll, ShowFavorites
<1>4. BatchIsTable'
  BY <1>1, NoBatch
<1>5. OpenIsCached'
  BY <1>1, RedrawKeepsOpen, OpenStays DEF AppInv, PhoneInv
<1>6. QED
  BY <1>2, <1>3, <1>4, <1>5 DEF PhoneInv

\* A mark keeps the rows and what of them was read.
LEMMA MarkKeepsRead ==
  ASSUME AppInv, NEW id,
         MarkAsRead(id) \/ \E b \in BOOLEAN : SetFavorite(id, b)
  PROVE  \A row \in ToSet(table) : \E now \in ToSet(table') :
           now.id = row.id /\ (row.read => now.read)
<1>1. ASSUME NEW i \in DOMAIN table
      PROVE  table'[i] \in ToSet(table') /\ table'[i].id = table[i].id
               /\ (table[i].read => table'[i].read)
  <2>1. table[i] \in Post
    BY LenProperties, ElementOfSeq DEF AppInv, FeedInv, FeedTypeOK, StoreTypeOK
  <2>2. /\ i \in DOMAIN table'
        /\ table'[i].id = table[i].id
        /\ table[i].read => table'[i].read
    <3>1. CASE MarkAsRead(id)
      BY <2>1, <3>1 DEF MarkAsRead, Post
    <3>2. CASE \E b \in BOOLEAN : SetFavorite(id, b)
      BY <2>1, <3>2 DEF SetFavorite, Post
    <3>3. QED
      BY <3>1, <3>2
  <2>3. QED
    BY <2>2 DEF ToSet
<1>2. \A row \in ToSet(table) : \E i \in DOMAIN table : row = table[i]
  BY DEF ToSet
<1>3. QED
  BY <1>1, <1>2

\* A post that is marked as read is read.
LEMMA ReadRows ==
  ASSUME AppInv, NEW id, MarkAsRead(id), id \in Ids(table)
  PROVE  \E now \in ToSet(table') : now.id = id /\ now.read
<1>1. \A i \in DOMAIN table : table[i] \in Post
  BY LenProperties, ElementOfSeq DEF AppInv, FeedInv, FeedTypeOK, StoreTypeOK
<1>2. PICK i \in DOMAIN table : table[i].id = id
  BY DEF Ids
<1>3. i \in DOMAIN table' /\ table'[i].id = id /\ table'[i].read
  BY <1>1, <1>2 DEF MarkAsRead, Post
<1>4. QED
  BY <1>3 DEF ToSet

\* The detail marks its post; the list of its tab is covered meanwhile.
LEMMA DetailPhone ==
  ASSUME AppInv, PhoneInv, Layout = "stack", DetailAppears \/ PressStar
  PROVE  PhoneInv'
<1>0. PICK id : id = captured[tab].id
  OBVIOUS
<1>1. /\ Idle
      /\ due' \subseteq due
      /\ UNCHANGED <<process, save, posts, tab, captured>>
      /\ DetailAppears \/ due' = due
  BY DEF DetailAppears, PressStar, Settled, viewVars
<1>2. IsOpen(tab) =>
        MarkAsRead(id) \/ \E b \in BOOLEAN : SetFavorite(id, b)
  <2>1. (~captured[tab].isFavorite) \in BOOLEAN
    OBVIOUS
  <2>2. QED
    BY <1>0, <2>1 DEF DetailAppears, PressStar
<1>3. ~IsOpen(tab) => UNCHANGED table
  BY DEF DetailAppears, PressStar, storeVars
<1>4. OnTheWay'
  BY <1>1 DEF PhoneInv, OnTheWay, Idle, IsOpen
<1>5. Current'
  <2>1. "list" \in due => "list" \in due'
    BY DEF DetailAppears, PressStar
  <2>2. ListVisible("All")' => ListVisible("All") /\ ~IsOpen(tab)
    BY <1>1 DEF ListVisible, IsOpen
  <2>3. QED
    BY <1>1, <1>3, <2>1, <2>2 DEF PhoneInv, Current
<1>6. BatchIsTable'
  BY <1>1, NoBatch DEF Idle
<1>7. OpenIsCached'
  <2>1. CASE ~IsOpen(tab)
    <3>1. tab = "All" => ~IsOpen("All")'
      BY <1>1, <2>1 DEF IsOpen
    <3>2. CASE tab # "All"
      BY <1>1, <1>3, <2>1, <3>2, OpenStays DEF PhoneInv, IsOpen
    <3>3. QED
      BY <3>1, <3>2 DEF OpenIsCached
  <2>2. CASE IsOpen(tab) /\ tab # "All"
    BY <1>1, <1>2, <2>2, MarkKeepsRead, OpenStays DEF PhoneInv, IsOpen
  <2>3. CASE IsOpen(tab) /\ tab = "All" /\ PressStar
    <3>1. due = {}
      BY <2>3 DEF PressStar, Settled
    <3>2. QED
      BY <1>1, <1>2, <2>3, <3>1, MarkKeepsRead, OpenStays DEF PhoneInv, IsOpen
  <2>4. CASE IsOpen(tab) /\ tab = "All" /\ DetailAppears
    <3>1. MarkAsRead(id)
      BY <1>0, <2>4 DEF DetailAppears
    <3>2. id \in Ids(table)
      BY <1>0, <2>4 DEF PhoneInv, OpenIsCached
    <3>3. PICK now \in ToSet(table') : now.id = id /\ now.read
      BY <3>1, <3>2, ReadRows
    <3>4. id \in Ids(table')
      BY <3>3 DEF ToSet, Ids
    <3>5. QED
      BY <1>0, <1>1, <2>4, <3>3, <3>4 DEF OpenIsCached
  <2>5. QED
    BY <2>1, <2>2, <2>3, <2>4
<1>8. QED
  BY <1>4, <1>5, <1>6, <1>7 DEF PhoneInv

\* The process ends, or is launched: nothing is open, nothing is listed.
LEMMA LifePhone ==
  ASSUME AppInv, PhoneInv, Layout = "stack", Leave \/ Start
  PROVE  PhoneInv'
<1>1. save' = NoSave /\ captured' = NothingOpen
  BY DEF Leave, Kill, TrapOnDuplicate, TrapOnShortAnswer, End, Start, Launch,
         PhoneInv, OnTheWay
<1>2. tab' \in View /\ ~IsOpen(tab)' /\ ~IsOpen("All")'
  BY <1>1 DEF Leave, Start, IsOpen, NothingOpen, View, AppInv, AppTypeOK
<1>3. OnTheWay'
  BY <1>1, <1>2
     DEF Leave, Kill, TrapOnDuplicate, TrapOnShortAnswer, End, Start, Launch,
         OnTheWay, Idle
<1>4. Current'
  <2>1. CASE Leave
    <3>1. posts' = <<>>
      BY <2>1 DEF Leave, Kill, TrapOnDuplicate, TrapOnShortAnswer, End
    <3>2. QED
      BY <3>1 DEF Current
  <2>2. CASE Start
    BY <2>2 DEF Start, Current
  <2>3. QED
    BY <2>1, <2>2
<1>5. BatchIsTable' /\ OpenIsCached'
  BY <1>1, <1>2, NoBatch DEF OpenIsCached
<1>6. QED
  BY <1>3, <1>4, <1>5 DEF PhoneInv

\* Each step on a phone keeps the invariant.
LEMMA PhoneStep ==
  ASSUME Layout = "stack"
  PROVE  AppInv /\ AppInv' /\ PhoneInv /\ [AppNext]_appVars => PhoneInv'
<1> SUFFICES ASSUME AppInv, AppInv', PhoneInv, [AppNext]_appVars
             PROVE  PhoneInv'
  OBVIOUS
<1>1. CASE UNCHANGED appVars
  BY <1>1 DEF appVars, vars, navVars, PhoneInv, OnTheWay, Current, BatchIsTable,
              OpenIsCached, IsOpen, Idle, ListVisible
<1>2. CASE \E v \in View : \E p \in Rows(v) : Tap(v, p)
  BY <1>2, TapPhone
<1>3. CASE Back \/ \E v \in View : SelectTab(v)
  BY <1>3, NavigatePhone
<1>4. QED
  BY <1>1, <1>2, <1>3, ListAppearsPhone, EditListPhone, LoadPhone,
     EndLoadPhone, DetailPhone, LifePhone DEF AppNext

\* A fresh install has it.
LEMMA PhoneInit == AppInit => PhoneInv
<1> SUFFICES ASSUME AppInit
             PROVE  PhoneInv
  OBVIOUS
<1>1. \A v \in View : ~IsOpen(v)
  BY DEF AppInit, IsOpen, NothingOpen
<1>2. QED
  BY <1>1, NoBatch
     DEF AppInit, Init, PhoneInv, OnTheWay, Current, OpenIsCached, Idle, View

\* On a phone the list, the running save and the open post agree with the
\* cache after every step, not only when the main thread is free.
THEOREM PhoneInvariant == Layout = "stack" => (AppSpec => []PhoneInv)
<1>1. SUFFICES ASSUME Layout = "stack"
               PROVE  AppSpec => []PhoneInv
  OBVIOUS
<1>2. AppInv /\ AppInv' /\ PhoneInv /\ [AppNext]_appVars => PhoneInv'
  BY <1>1, PhoneStep
<1>3. QED
  BY <1>2, PhoneInit, AppInvariant, PTL DEF AppSpec

\* On a phone the visible list of all posts carries the marks the cache holds,
\* in whichever tab, detail or load they were made or came from.
THEOREM ListIsCurrentHolds == AppSpec => []ListIsCurrent
<1>1. CASE Layout = "stack"
  <2>1. PhoneInv => ListIsCurrent
    BY DEF PhoneInv, Current, ListIsCurrent, Settled
  <2>2. AppSpec => []PhoneInv
    BY <1>1, PhoneInvariant
  <2>3. QED
    BY <2>1, <2>2, PTL
<1>2. CASE Layout # "stack"
  <2>1. ListIsCurrent
    BY <1>2 DEF ListIsCurrent
  <2>2. QED
    BY <2>1, PTL
<1>3. QED
  BY <1>1, <1>2

\* On a phone the detail opened from that list is that of a cached post, and
\* the post is read: loads, the other tab and its details do not change that.
THEOREM OpenPostIsReadHolds == AppSpec => []OpenPostIsRead
<1>1. CASE Layout = "stack"
  <2>1. PhoneInv => OpenPostIsRead
    BY DEF PhoneInv, OpenIsCached, OpenPostIsRead, Settled
  <2>2. AppSpec => []PhoneInv
    BY <1>1, PhoneInvariant
  <2>3. QED
    BY <2>1, <2>2, PTL
<1>2. CASE Layout # "stack"
  <2>1. OpenPostIsRead
    BY <1>2 DEF OpenPostIsRead
  <2>2. QED
    BY <2>1, PTL
<1>3. QED
  BY <1>1, <1>2
-----------------------------------------------------------------------------
(***************************************************************************)
(* The star of a post that was opened on a phone.  The post is drawn with  *)
(* the mark that the cache holds, and the button reads the drawn mark: so  *)
(* star and cache go together, and nothing else reaches that mark until    *)
(* the tab is left.                                                        *)
(***************************************************************************)

\* Before the detail appears it is the captured post that has the cached mark,
\* and from then on the star.
StarInv ==
  tab = "All" /\ IsOpen("All") /\ "All" \notin returned =>
    IF "detail" \in due
      THEN captured["All"].isFavorite <=> IsFavoriteInCache(captured["All"].id)
      ELSE star["All"] <=> IsFavoriteInCache(captured["All"].id)

\* A step that leaves tab, star, post and mark keeps the star right, if no detail
\* is on its way.
LEMMA StarStays ==
  ASSUME StarInv, HistoryNext, tab' = tab, "detail" \notin due, "detail" \notin due',
         IsOpen("All")' =>
           /\ IsOpen("All") /\ captured'["All"].id = captured["All"].id
           /\ star'["All"] <=> star["All"]
           /\ IsFavoriteInCache(captured["All"].id)' <=>
                IsFavoriteInCache(captured["All"].id)
  PROVE  StarInv'
<1> SUFFICES ASSUME tab' = "All", IsOpen("All")', "All" \notin returned'
             PROVE  star'["All"] <=> IsFavoriteInCache(captured["All"].id)'
  BY DEF StarInv, IsFavoriteInCache
<1>1. "All" \notin returned
  BY DEF HistoryNext, IsOpen, View
<1>2. star["All"] <=> IsFavoriteInCache(captured["All"].id)
  BY <1>1 DEF StarInv
<1>3. QED
  BY <1>2

\* A tab that is selected while its detail is open has come back.
LEMMA SelectTabStar ==
  ASSUME HistoryNext, NEW v \in View, SelectTab(v)
  PROVE  StarInv'
<1>1. tab' = v /\ tab' # tab
  BY DEF SelectTab
<1>2. tab' = "All" /\ IsOpen("All")' => "All" \in returned'
  BY <1>1 DEF HistoryNext, IsOpen
<1>3. QED
  BY <1>2 DEF StarInv

\* The marks of a row that is in the table are those of its identifier.
LEMMA MarkOfRow ==
  ASSUME AppInv, NEW p \in ToSet(table)
  PROVE  p.isFavorite <=> IsFavoriteInCache(p.id)
<1>1. UniqueIds(table)
  BY DEF AppInv, FeedInv, OneRowPerPost
<1>2. \A row \in ToSet(table) : row.id = p.id => row = p
  BY <1>1 DEF UniqueIds, ToSet
<1>3. QED
  BY <1>2 DEF IsFavoriteInCache

\* A tap captures a row that has the cached mark.
LEMMA TapStar ==
  ASSUME AppInv, PhoneInv, Layout = "stack",
         NEW v \in View, NEW p \in Rows(v), Tap(v, p)
  PROVE  StarInv'
<1>1. /\ tab = v /\ tab' = tab /\ ListVisible(v) /\ due = {} /\ due' = {"detail"}
      /\ UNCHANGED vars
      /\ captured' = [captured EXCEPT ![v] = p]
  BY DEF Tap, Settled, ListVisible
<1>2. CASE v = "All"
  <2>1. p \in ToSet(table)
    BY <1>1, <1>2 DEF PhoneInv, Current, Rows, ToSet
  <2>2. captured'["All"] = p
    BY <1>1, <1>2 DEF AppInv, AppTypeOK
  <2>3. table' = table
    BY <1>1 DEF vars, storeVars
  <2>4. IsFavoriteInCache(captured["All"].id)' <=> IsFavoriteInCache(p.id)
    BY <2>2, <2>3 DEF IsFavoriteInCache
  <2>5. captured'["All"].isFavorite <=> IsFavoriteInCache(captured["All"].id)'
    BY <2>1, <2>2, <2>4, MarkOfRow
  <2>6. QED
    BY <1>1, <2>5 DEF StarInv
<1>3. CASE v # "All"
  BY <1>1, <1>3 DEF StarInv
<1>4. QED
  BY <1>2, <1>3

\* A load adds rows of other posts, and redraws the row with the same identifier.
LEMMA LoadStar ==
  ASSUME AppInv, PhoneInv, Layout = "stack", StarInv, HistoryNext, Load \/ EndLoad
  PROVE  StarInv'
<1>1. due = {} /\ tab' = tab
  BY DEF Load, EndLoad, navVars
<1>2. "detail" \notin due'
  BY <1>1 DEF Load, EndLoad, navVars, Uncover
<1>3. IsOpen("All")' =>
        /\ IsOpen("All") /\ captured'["All"].id = captured["All"].id
        /\ star'["All"] <=> star["All"]
  <2>1. CASE Load
    BY <2>1 DEF Load, navVars, IsOpen
  <2>2. CASE EndLoad
    <3>1. Redraw /\ AppTypeOK
      BY <2>2 DEF EndLoad, AppInv
    <3>2. IsOpen("All")' => (star'["All"] <=> star["All"])
      BY <3>1 DEF Redraw, IsOpen, View
    <3>3. QED
      BY <3>1, <3>2, RedrawKeepsOpen
  <2>3. QED
    BY <2>1, <2>2
<1>4. ASSUME NEW id \in Ids(table)
      PROVE  IsFavoriteInCache(id)' <=> IsFavoriteInCache(id)
  <2>1. CASE table' = table
    BY <2>1 DEF IsFavoriteInCache
  <2>2. CASE SaveNext
    <3>1. ToSet(table') = ToSet(table) \cup {save.batch[save.next]}
      BY <2>2, SaveNextRows
    <3>2. save.batch[save.next].id # id
      BY <2>2 DEF SaveNext, SavePost, HasId, Ids
    <3>3. QED
      BY <3>1, <3>2 DEF IsFavoriteInCache
  <2>3. table' = table \/ SaveNext
    BY DEF Load, EndLoad, StartRequest, ReceiveNothing, ReceivePosts, FinishSave, storeVars
  <2>4. QED
    BY <2>1, <2>2, <2>3
<1>5. IsOpen("All") => captured["All"].id \in Ids(table)
  BY DEF PhoneInv, OpenIsCached
<1>6. IsOpen("All")' => (IsFavoriteInCache(captured["All"].id)' <=>
                           IsFavoriteInCache(captured["All"].id))
  <2>1. SUFFICES ASSUME IsOpen("All")'
                 PROVE  IsFavoriteInCache(captured["All"].id)' <=>
                          IsFavoriteInCache(captured["All"].id)
    OBVIOUS
  <2>2. captured'["All"].id = captured["All"].id /\ captured["All"].id \in Ids(table)
    BY <1>3, <1>5, <2>1
  <2>3. QED
    BY <1>4, <2>2 DEF IsFavoriteInCache
<1>7. QED
  BY <1>1, <1>2, <1>3, <1>6, StarStays

\* The detail takes the captured mark for its star, and gives star and cache the
\* same when the star is pressed.
LEMMA DetailStar ==
  ASSUME AppInv, PhoneInv, Layout = "stack", StarInv, HistoryNext,
         DetailAppears \/ PressStar
  PROVE  StarInv'
<1>1. tab' = tab /\ captured' = captured /\ "detail" \notin due'
  BY DEF DetailAppears, PressStar, Settled
<1>2. SUFFICES ASSUME tab = "All", IsOpen("All"), "All" \notin returned
               PROVE  star'["All"] <=> IsFavoriteInCache(captured["All"].id)'
  <2>1. tab' = "All" /\ IsOpen("All")' /\ "All" \notin returned' =>
          tab = "All" /\ IsOpen("All") /\ "All" \notin returned
    BY <1>1 DEF HistoryNext, IsOpen, View
  <2>2. QED
    BY <1>1, <2>1 DEF StarInv
<1> DEFINE id == captured["All"].id
           marked == captured["All"].isFavorite
<1>3. /\ \A i \in DOMAIN table : table[i] \in Post
      /\ marked \in BOOLEAN /\ id \in Ids(table)
      /\ star \in [View -> BOOLEAN] /\ "All" \in View
  <2>1. \A i \in DOMAIN table : table[i] \in Post
    BY LenProperties, ElementOfSeq DEF AppInv, FeedInv, FeedTypeOK, StoreTypeOK
  <2>2. marked \in BOOLEAN
    BY <1>2 DEF AppInv, AppTypeOK, IsOpen, Post, View
  <2>3. id \in Ids(table)
    BY <1>2 DEF PhoneInv, OpenIsCached
  <2>4. QED
    BY <2>1, <2>2, <2>3 DEF AppInv, AppTypeOK, View
<1>4. CASE DetailAppears
  <2>1. "detail" \in due /\ MarkAsRead(id) /\ (star'["All"] <=> marked)
    BY <1>2, <1>3, <1>4 DEF DetailAppears
  <2>2. marked <=> IsFavoriteInCache(id)
    BY <1>2, <2>1 DEF StarInv
  <2>3. /\ DOMAIN table' = DOMAIN table
        /\ \A i \in DOMAIN table : /\ table'[i].id = table[i].id
                                   /\ table'[i].isFavorite <=> table[i].isFavorite
    BY <1>3, <2>1 DEF MarkAsRead, Post
  <2>4. IsFavoriteInCache(id)' <=> IsFavoriteInCache(id)
    BY <1>1, <2>3 DEF IsFavoriteInCache, ToSet
  <2>5. QED
    BY <2>1, <2>2, <2>4
<1>5. CASE PressStar
  <2>1. SetFavorite(id, ~marked) /\ (star'["All"] <=> ~marked)
    BY <1>2, <1>3, <1>5 DEF PressStar
  <2>2. /\ DOMAIN table' = DOMAIN table
        /\ \A i \in DOMAIN table :
             /\ table'[i].id = table[i].id
             /\ table[i].id = id => (table'[i].isFavorite <=> ~marked)
    BY <1>3, <2>1 DEF SetFavorite, Post
  <2>3. PICK k \in DOMAIN table : table[k].id = id
    BY <1>3 DEF Ids
  <2>4. IsFavoriteInCache(id)' <=> ~marked
    BY <1>1, <2>2, <2>3 DEF IsFavoriteInCache, ToSet
  <2>5. QED
    BY <2>1, <2>4
<1>6. QED
  BY <1>4, <1>5

\* Each step on a phone keeps the star right.
LEMMA StarStep ==
  ASSUME Layout = "stack"
  PROVE  AppInv /\ PhoneInv /\ StarInv /\ [HistoryNext]_<<appVars, returned>> => StarInv'
<1> SUFFICES ASSUME AppInv, PhoneInv, StarInv, [HistoryNext]_<<appVars, returned>>
             PROVE  StarInv'
  OBVIOUS
<1>1. CASE UNCHANGED <<appVars, returned>>
  BY <1>1 DEF appVars, vars, storeVars, navVars, StarInv, IsOpen, IsFavoriteInCache
<1>2. CASE HistoryNext
  <2>1. ASSUME NEW v \in View, \E p \in Rows(v) : Tap(v, p)
        PROVE  StarInv'
    BY <2>1, TapStar
  <2>2. ASSUME NEW v \in View, SelectTab(v)
        PROVE  StarInv'
    BY <1>2, <2>2, SelectTabStar
  <2>3. CASE Back
    BY <2>3 DEF Back, StarInv, IsOpen, AppInv, AppTypeOK
  <2>4. CASE ListAppears \/ EditList
    <3>1. Redraw /\ tab' = tab /\ AppTypeOK /\ (tab = "All" => ~IsOpen("All"))
      BY <2>4 DEF ListAppears, EditList, ListVisible, PhoneInv, OnTheWay, AppInv
    <3>2. QED
      BY <3>1, RedrawKeepsOpen DEF StarInv
  <2>5. CASE Load \/ EndLoad
    BY <1>2, <2>5, LoadStar
  <2>6. CASE DetailAppears \/ PressStar
    BY <1>2, <2>6, DetailStar
  <2>7. CASE Leave \/ Start
    <3>1. captured' = NothingOpen
      BY <2>7 DEF Leave, Start, Launch, PhoneInv, OnTheWay
    <3>2. QED
      BY <3>1 DEF StarInv, IsOpen, NothingOpen, View
  <2>8. QED
    BY <1>2, <2>1, <2>2, <2>3, <2>4, <2>5, <2>6, <2>7 DEF HistoryNext, AppNext
<1>3. QED
  BY <1>1, <1>2

\* The history watches the app.
LEMMA HistoryIsApp == HistorySpec => AppSpec
<1>1. HistoryInit => AppInit
  BY DEF HistoryInit
<1>2. [HistoryNext]_<<appVars, returned>> => [AppNext]_appVars
  BY DEF HistoryNext
<1>3. QED
  BY <1>1, <1>2, PTL DEF HistorySpec, AppSpec

\* On a phone the star of a post opened from the list of all posts is the mark
\* that the cache holds, however often it is pressed and whatever is loaded
\* meanwhile, until the tab is left.
THEOREM StarIsRightHolds == HistorySpec => []StarIsRight
<1>1. CASE Layout = "stack"
  <2>1. HistoryInit => StarInv
    BY DEF HistoryInit, AppInit, StarInv, IsOpen, NothingOpen, View
  <2>2. AppInv /\ PhoneInv /\ StarInv /\ [HistoryNext]_<<appVars, returned>> => StarInv'
    BY <1>1, StarStep
  <2>3. AppInv /\ StarInv => StarIsRight
    <3> SUFFICES ASSUME AppInv, StarInv, Settled, tab = "All", IsOpen("All"),
                        "All" \notin returned
                 PROVE  star["All"] = IsFavoriteInCache(captured["All"].id)
      BY DEF StarIsRight
    <3>1. star["All"] \in BOOLEAN
      BY DEF AppInv, AppTypeOK, View
    <3>2. star["All"] <=> IsFavoriteInCache(captured["All"].id)
      BY DEF StarInv, Settled
    <3>3. QED
      BY <3>1, <3>2 DEF IsFavoriteInCache
  <2>4. AppSpec => []PhoneInv
    BY <1>1, PhoneInvariant
  <2>5. QED
    BY <2>1, <2>2, <2>3, <2>4, HistoryIsApp, AppInvariant, PTL DEF HistorySpec
<1>2. CASE Layout # "stack"
  <2>1. StarIsRight
    BY <1>2 DEF StarIsRight
  <2>2. QED
    BY <2>1, PTL
<1>3. QED
  BY <1>1, <1>2
=============================================================================
