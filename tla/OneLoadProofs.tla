--------------------------- MODULE OneLoadProofs ---------------------------
(***************************************************************************)
(* The feed of posts when one load at a time is in flight and the service  *)
(* answers as it does: no post twice, and enough posts to set unread.  Then*)
(* no call traps, and the blue dots stay among the first rows.             *)
(***************************************************************************)
EXTENDS PostsFeedProofs

OneLoad == \A t, u \in Ticket : t = u

AnswersAreFull ==
  \A answer \in Answers :
    /\ Len(answer) >= FirstUnread
    /\ \A i, j \in DOMAIN answer : answer[i] = answer[j] => i = j

-----------------------------------------------------------------------------
(***************************************************************************)
(* A load is in flight while nothing is cached; a save has written as much *)
(* of a fresh answer as the table holds.                                   *)
(***************************************************************************)

LoadsAreNeeded ==
  \A t \in Ticket : requests[t].stage # "free" => table = <<>> /\ save = NoSave

SaveIsTable ==
  save # NoSave =>
    /\ \A t \in Ticket : requests[t].stage = "free"
    /\ save.view \in View
    /\ \E answer \in Answers : save.batch = Fresh(answer)
    /\ save.next = Len(table) + 1
    /\ \A i \in DOMAIN table : i \in DOMAIN save.batch /\ table[i] = save.batch[i]

QuietInv == LoadsAreNeeded /\ SaveIsTable /\ NeverTraps /\ DotsAmongFirst

\* The rows of a fresh answer.
LEMMA FreshRows ==
  ASSUME AnswersAreFull, NEW answer \in Answers
  PROVE  /\ Fresh(answer) \in Seq(Post)
         /\ UniqueIds(Fresh(answer))
         /\ \A i \in DOMAIN Fresh(answer) :
              i \in Nat /\ (~Fresh(answer)[i].read => i <= FirstUnread)
<1>1. Fresh(answer) \in Seq(Post)
  BY FreshPosts
<1>2. /\ DOMAIN Fresh(answer) = DOMAIN answer
      /\ \A i \in DOMAIN answer :
           Fresh(answer)[i] = [id |-> answer[i], isFavorite |-> FALSE,
                               read |-> i > FirstUnread]
  BY DEF Fresh
<1>3. \A i \in DOMAIN answer : i \in Nat
  BY LenProperties, AnswersAssumption
<1>4. UniqueIds(Fresh(answer))
  BY <1>2 DEF AnswersAreFull, UniqueIds
<1>5. \A i \in DOMAIN answer : Fresh(answer)[i].read = (i > FirstUnread)
  BY <1>2
<1>6. ASSUME NEW i \in DOMAIN answer, ~Fresh(answer)[i].read
      PROVE  i <= FirstUnread
  <2>1. ~(i > FirstUnread)
    BY <1>5, <1>6, Zenon
  <2>2. QED
    BY <1>3, <2>1, FirstUnreadAssumption
<1>7. QED
  BY <1>1, <1>2, <1>3, <1>4, <1>6

\* The row that a running save is about to write is not cached, and it comes
\* at the end of the rows it wrote.
LEMMA NextRow ==
  ASSUME FeedInv, QuietInv, AnswersAreFull, save.view \in View,
         save.next <= Len(save.batch)
  PROVE  /\ ~HasId(table, save.batch[save.next].id)
         /\ save.next = Len(table) + 1
         /\ save.next \in DOMAIN save.batch
         /\ save.batch[save.next] \in Post
         /\ ~save.batch[save.next].read => save.next <= FirstUnread
<1>1. save # NoSave
  BY DEF NoSave, View
<1>2. PICK answer \in Answers : save.batch = Fresh(answer)
  BY <1>1 DEF QuietInv, SaveIsTable
<1>3. /\ save.batch \in Seq(Post)
      /\ UniqueIds(save.batch)
      /\ \A i \in DOMAIN save.batch : ~save.batch[i].read => i <= FirstUnread
  BY <1>2, FreshRows
<1>4. /\ save.next \in Nat \ {0}
      /\ Len(save.batch) \in Nat
      /\ DOMAIN save.batch = 1 .. Len(save.batch)
      /\ Len(table) \in Nat
      /\ DOMAIN table = 1 .. Len(table)
  BY <1>3, LenProperties DEF FeedInv, FeedTypeOK, StoreTypeOK, Save
<1>5. /\ save.next = Len(table) + 1
      /\ \A i \in DOMAIN table :
           i \in DOMAIN save.batch /\ table[i] = save.batch[i]
  BY <1>1 DEF QuietInv, SaveIsTable
<1>6. save.next \in DOMAIN save.batch
  BY <1>4
<1>7. save.batch[save.next] \in Post
  BY <1>3, <1>4, <1>6, ElementOfSeq
<1>8. \A i \in DOMAIN table : i # save.next
  BY <1>4, <1>5
<1>9. ~HasId(table, save.batch[save.next].id)
  BY <1>3, <1>5, <1>6, <1>8 DEF UniqueIds, HasId, Ids
<1>10. QED
  BY <1>3, <1>5, <1>6, <1>7, <1>9

\* Deleting a row moves the last one up.
LEMMA DeleteKeepsDots ==
  ASSUME FeedInv, DotsAmongFirst, NEW id, table' = DeleteId(table, id)
  PROVE  DotsAmongFirst'
<1>1. CASE ~HasId(table, id)
  BY <1>1 DEF DeleteId, DotsAmongFirst
<1>2. CASE HasId(table, id)
  <2> DEFINE gone == IndexOf(table, id)
  <2>1. gone \in DOMAIN table
    BY <1>2, IndexOfKey
  <2>2. table \in Seq(Post)
    BY DEF FeedInv, FeedTypeOK, StoreTypeOK
  <2>3. table' = MoveLastOver(table, gone)
    BY <1>2 DEF DeleteId
  <2> HIDE DEF gone
  <2>4. /\ Len(table) \in Nat
        /\ DOMAIN table = 1 .. Len(table)
    BY <2>2, LenProperties
  <2>5. /\ DOMAIN table' = 1 .. Len(table) - 1
        /\ \A j \in 1 .. Len(table) - 1 :
             table'[j] = IF j = gone THEN table[Len(table)] ELSE table[j]
    BY <2>1, <2>2, <2>3, MoveLastOverRows
  <2>6. ASSUME NEW j \in DOMAIN table', ~table'[j].read
        PROVE  j <= FirstUnread
    <3>1. CASE j = gone
      <4>1. ~table[Len(table)].read /\ Len(table) \in DOMAIN table
        BY <2>4, <2>5, <2>6, <3>1
      <4>2. Len(table) <= FirstUnread
        BY <4>1 DEF DotsAmongFirst
      <4>3. QED
        BY <2>4, <2>5, <4>2, FirstUnreadAssumption
    <3>2. CASE j # gone
      BY <2>4, <2>5, <2>6, <3>2 DEF DotsAmongFirst
    <3>3. QED
      BY <3>1, <3>2
  <2>7. QED
    BY <2>6 DEF DotsAmongFirst
<1>3. QED
  BY <1>1, <1>2

\* A call made while the main thread is free changes the dots alone, if no
\* load is in flight: a load in flight finds the cache as empty as it was.
LEMMA IdleCall ==
  ASSUME QuietInv, Idle, UNCHANGED <<process, requests, save>>,
         table = <<>> => table' = <<>>, DotsAmongFirst'
  PROVE  QuietInv'
BY DEF QuietInv, LoadsAreNeeded, SaveIsTable, NeverTraps, Idle

\* A load starts over an empty cache.
LEMMA GetPostsQuiet ==
  ASSUME OneLoad, FeedInv, QuietInv, Idle, NEW v \in View, NEW loading,
         GetPosts(v, loading), UNCHANGED <<process, save>>
  PROVE  QuietInv'
<1>1. table' = table /\ DotsAmongFirst'
  BY DEF GetPosts, LoadPostsFromRealm, QuietInv, DotsAmongFirst
<1>2. CASE requests' = requests
  BY <1>1, <1>2, IdleCall
<1>3. CASE table = <<>>
  BY <1>1, <1>3 DEF QuietInv, LoadsAreNeeded, SaveIsTable, NeverTraps, Idle
<1>4. QED
  BY <1>2, <1>3 DEF GetPosts

\* The only load in flight ends, or its answer begins to be saved.
LEMMA LoadQuiet ==
  ASSUME OneLoad, AnswersAreFull, FeedInv, QuietInv, NEW t \in Ticket,
         StartRequest(t) \/ Receive(t)
  PROVE  QuietInv'
<1> USE DEF QuietInv
<1>1. /\ requests[t].stage # "free"
      /\ table = <<>> /\ save = NoSave
      /\ \A u \in Ticket : u = t
      /\ requests \in [Ticket -> Request]
  BY DEF StartRequest, Receive, ReceiveNothing, ReceivePosts,
         TrapOnShortAnswer, OneLoad, LoadsAreNeeded, FeedInv, FeedTypeOK
<1>2. CASE StartRequest(t) \/ ReceiveNothing(t)
  <2>1. UNCHANGED <<table, process, save>>
    BY <1>2 DEF StartRequest, ReceiveNothing, storeVars
  <2>2. QED
    BY <1>1, <2>1
       DEF LoadsAreNeeded, SaveIsTable, NeverTraps, DotsAmongFirst
<1>3. CASE ReceivePosts(t)
  <2>1. PICK answer \in Answers :
          save' = [view |-> requests[t].view, batch |-> Fresh(answer),
                   next |-> 1]
    BY <1>3 DEF ReceivePosts
  <2>2. /\ UNCHANGED <<table, process>>
        /\ requests' = [requests EXCEPT ![t] = Free]
    BY <1>3 DEF ReceivePosts
  <2>3. \A u \in Ticket : requests'[u].stage = "free"
    BY <1>1, <2>2 DEF Free
  <2>4. requests[t].view \in View
    BY <1>1 DEF Request
  <2>5. Len(table) = 0 /\ DOMAIN table = {}
    BY <1>1
  <2>6. /\ save'.view = requests[t].view
        /\ save'.batch = Fresh(answer)
        /\ save'.next = 1
    BY <2>1
  <2>7. SaveIsTable'
    BY <2>2, <2>3, <2>4, <2>5, <2>6 DEF SaveIsTable
  <2>8. QED
    BY <2>2, <2>3, <2>7 DEF LoadsAreNeeded, NeverTraps, DotsAmongFirst
<1>4. ~TrapOnShortAnswer(t)
  BY LenProperties, AnswersAssumption, FirstUnreadAssumption
     DEF TrapOnShortAnswer, AnswersAreFull
<1>5. QED
  BY <1>2, <1>3, <1>4 DEF Receive

\* A save writes its next post, which is not cached, and ends.
LEMMA SavingQuiet ==
  ASSUME AnswersAreFull, FeedInv, QuietInv, Saving
  PROVE  QuietInv'
<1> USE DEF QuietInv
<1>1. CASE SaveNext
  <2> DEFINE row == save.batch[save.next]
  <2>1. /\ save.view \in View
        /\ save # NoSave
        /\ save.next <= Len(save.batch)
        /\ table' = Append(table, row)
        /\ UNCHANGED <<process, requests>>
        /\ save' = [save EXCEPT !.next = save.next + 1]
    BY <1>1 DEF SaveNext, SavePost, NoSave, View
  <2>2. /\ save'.view = save.view /\ save'.batch = save.batch
        /\ save'.next = save.next + 1
    BY <2>1 DEF FeedInv, FeedTypeOK, Save
  <2>3. /\ save.next = Len(table) + 1
        /\ save.next \in DOMAIN save.batch
        /\ row \in Post
        /\ ~row.read => save.next <= FirstUnread
    BY <2>1, NextRow
  <2>4. /\ table \in Seq(Post)
        /\ Len(table) \in Nat
        /\ DOMAIN table = 1 .. Len(table)
    BY LenProperties DEF FeedInv, FeedTypeOK, StoreTypeOK
  <2>5. /\ Len(table') = Len(table) + 1
        /\ DOMAIN table' = 1 .. Len(table) + 1
        /\ \A i \in 1 .. Len(table) : table'[i] = table[i]
        /\ table'[Len(table) + 1] = row
    <3>1. table' \in Seq(Post) /\ Len(table') = Len(table) + 1
      BY <2>1, <2>3, <2>4, AppendProperties
    <3>2. QED
      BY <2>1, <2>3, <2>4, <3>1, AppendProperties, LenProperties
  <2> HIDE DEF row
  <2>6. \A i \in DOMAIN table' :
          \/ i \in DOMAIN table /\ table'[i] = table[i]
          \/ i = save.next /\ table'[i] = row
    BY <2>3, <2>4, <2>5
  <2>7. SaveIsTable'
    <3>1. /\ \A i \in DOMAIN table :
               i \in DOMAIN save.batch /\ table[i] = save.batch[i]
          /\ \E answer \in Answers : save.batch = Fresh(answer)
          /\ \A t \in Ticket : requests[t].stage = "free"
      BY <2>1 DEF SaveIsTable
    <3>2. \A i \in DOMAIN table' :
            i \in DOMAIN save.batch /\ table'[i] = save.batch[i]
      BY <2>3, <2>6, <3>1 DEF row
    <3>3. save'.next = Len(table') + 1
      BY <2>2, <2>3, <2>5
    <3>4. QED
      BY <2>1, <2>2, <3>1, <3>2, <3>3 DEF SaveIsTable
  <2>8. LoadsAreNeeded'
    BY <2>1 DEF SaveIsTable, LoadsAreNeeded
  <2>9. DotsAmongFirst'
    BY <2>3, <2>6 DEF DotsAmongFirst
  <2>10. QED
    BY <2>1, <2>7, <2>8, <2>9 DEF NeverTraps
<1>2. CASE FinishSave
  <2>1. save' = NoSave /\ UNCHANGED <<table, process, requests>>
    BY <1>2 DEF FinishSave, storeVars
  <2>2. \A t \in Ticket : requests[t].stage = "free"
    BY <1>2 DEF FinishSave, SaveIsTable, NoSave, View
  <2>3. QED
    BY <2>1, <2>2 DEF LoadsAreNeeded, SaveIsTable, NeverTraps, DotsAmongFirst
<1>3. ~TrapOnDuplicate
  BY NextRow DEF TrapOnDuplicate
<1>4. QED
  BY <1>1, <1>2, <1>3 DEF Saving

\* A mark never makes a dot.
LEMMA MarkPostQuiet ==
  ASSUME FeedInv, QuietInv, NEW id \in PostId, MarkPost(id)
  PROVE  QuietInv'
<1>1. /\ DOMAIN table' = DOMAIN table
      /\ \A i \in DOMAIN table : table[i].read => table'[i].read
  <2>1. \A i \in DOMAIN table : table[i] \in Post
    BY LenProperties, ElementOfSeq DEF FeedInv, FeedTypeOK, StoreTypeOK
  <2>2. CASE MarkAsRead(id)
    BY <2>1, <2>2 DEF MarkAsRead, Post
  <2>3. CASE \E b \in BOOLEAN : SetFavorite(id, b)
    BY <2>1, <2>3 DEF SetFavorite, Post
  <2>4. QED
    BY <2>2, <2>3 DEF MarkPost
<1>2. DotsAmongFirst'
  BY <1>1 DEF QuietInv, DotsAmongFirst
<1>3. table = <<>> => table' = <<>>
  BY DEF MarkPost, MarkAsRead, SetFavorite
<1>4. QED
  BY <1>2, <1>3, IdleCall DEF MarkPost

\* Deletions empty the cache or move rows up.
LEMMA DeleteQuiet ==
  ASSUME FeedInv, QuietInv,
         DeleteAllPosts \/ \E i \in DOMAIN posts : DeletePost(i)
  PROVE  QuietInv'
<1>1. CASE DeleteAllPosts
  <2>1. table' = <<>>
    BY <1>1 DEF DeleteAllPosts, DeleteAll
  <2>2. DotsAmongFirst'
    BY <2>1 DEF DotsAmongFirst
  <2>3. QED
    BY <1>1, <2>1, <2>2, IdleCall DEF DeleteAllPosts
<1>2. ASSUME NEW i \in DOMAIN posts, DeletePost(i)
      PROVE  QuietInv'
  <2>1. table' = DeleteId(table, posts[i].id)
    BY <1>2 DEF DeletePost, Delete
  <2>2. DotsAmongFirst'
    BY <2>1, DeleteKeepsDots DEF QuietInv
  <2>3. table = <<>> => table' = <<>>
    BY <2>1 DEF DeleteId, HasId, Ids
  <2>4. QED
    BY <1>2, <2>2, <2>3, IdleCall DEF DeletePost
<1>3. QED
  BY <1>1, <1>2

\* Each step keeps the invariant.
LEMMA QuietStep ==
  ASSUME OneLoad, AnswersAreFull
  PROVE  FeedInv /\ QuietInv /\ [Next]_vars => QuietInv'
<1> SUFFICES ASSUME FeedInv, QuietInv, [Next]_vars
             PROVE  QuietInv'
  OBVIOUS
<1>1. ASSUME NEW v \in View, Appear(v)
      PROVE  QuietInv'
  BY <1>1, GetPostsQuiet DEF Appear
<1>2. CASE Refresh
  BY <1>2, GetPostsQuiet DEF Refresh, View
<1>3. ASSUME NEW t \in Ticket, StartRequest(t) \/ Receive(t)
      PROVE  QuietInv'
  BY <1>3, LoadQuiet
<1>4. CASE Saving
  BY <1>4, SavingQuiet
<1>5. CASE DeleteAllPosts \/ \E i \in DOMAIN posts : DeletePost(i)
  BY <1>5, DeleteQuiet
<1>6. ASSUME NEW id \in PostId, MarkPost(id)
      PROVE  QuietInv'
  BY <1>6, MarkPostQuiet
<1>7. CASE Kill
  BY <1>7 DEF Kill, End, Close, AllFree, Free, QuietInv, LoadsAreNeeded,
              SaveIsTable, NeverTraps, DotsAmongFirst
<1>8. CASE Launch
  BY <1>8 DEF Launch, storeVars, QuietInv, LoadsAreNeeded, SaveIsTable,
              NeverTraps, DotsAmongFirst
<1>9. CASE UNCHANGED vars
  BY <1>9 DEF vars, QuietInv, LoadsAreNeeded, SaveIsTable, NeverTraps,
              DotsAmongFirst
<1>10. QED
  BY <1>1, <1>2, <1>3, <1>4, <1>5, <1>6, <1>7, <1>8, <1>9 DEF Next

\* A fresh install has it.
LEMMA QuietInit == Init => QuietInv
<1>1. Init => DOMAIN table = {}
  BY DEF Init, StoreInit
<1>2. QED
  BY <1>1 DEF Init, StoreInit, AllFree, Free, QuietInv, LoadsAreNeeded,
              SaveIsTable, NeverTraps, DotsAmongFirst

\* A load is only in flight over an empty cache, and a save writes a fresh
\* answer into it from its first post on.
THEOREM QuietInvariant ==
  OneLoad /\ AnswersAreFull => (Spec => []QuietInv)
<1>1. SUFFICES ASSUME OneLoad, AnswersAreFull
               PROVE  Spec => []QuietInv
  OBVIOUS
<1>2. FeedInv /\ QuietInv /\ [Next]_vars => QuietInv'
  BY <1>1, QuietStep
<1>3. QED
  BY <1>2, QuietInit, FeedInvariant, PTL DEF Spec

\* With one load at a time and full answers no call of the app raises an
\* exception or leaves an array's bounds, saves cut short included.
THEOREM NeverTrapsHolds ==
  OneLoad /\ AnswersAreFull => (Spec => []NeverTraps)
<1>1. QuietInv => NeverTraps
  BY DEF QuietInv
<1>2. QED
  BY <1>1, QuietInvariant, PTL

\* With one load at a time the posts that start unread are the first ones, and
\* stay among the first rows whatever is deleted, marked or cut short.
THEOREM DotsAmongFirstHolds ==
  OneLoad /\ AnswersAreFull => (Spec => []DotsAmongFirst)
<1>1. QuietInv => DotsAmongFirst
  BY DEF QuietInv
<1>2. QED
  BY <1>1, QuietInvariant, PTL
=============================================================================
