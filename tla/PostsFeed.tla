----------------------------- MODULE PostsFeed -----------------------------
(***************************************************************************)
(* The feed of posts: DataRequest.getPosts, which reads the cache and goes *)
(* to the network when the cache is empty, the two lists that call it      *)
(* (PostsView and FavoritesView), and the life of the process.             *)
(*                                                                         *)
(* All of it runs on the main thread, one block at a time.  A load leaves  *)
(* the main thread twice, for the two seconds of asyncAfter and for the    *)
(* network; savePosts keeps it for as many transactions as there are posts *)
(* but the process may end between two of them.                            *)
(*                                                                         *)
(* The calls of the user come in any order here: a list may appear at any  *)
(* time and a post be marked at any time.                                  *)
(***************************************************************************)
EXTENDS PostStore, SequencesExt

CONSTANTS
  Answers,      \* the lists of post ids the server may answer, in its order
  FirstUnread,  \* how many posts of an answer start unread: 20 in the code
  Ticket        \* bound: one ticket per load that may be in flight at once

ASSUME AnswersAssumption == Answers \subseteq Seq(PostId)
ASSUME FirstUnreadAssumption == FirstUnread \in Nat \ {0}

VARIABLES
  process,    \* the app: running, ended from outside, or ended by a trap
  requests,   \* the loads that have left the main thread
  save,       \* the batch that savePosts is writing
  posts,      \* PostsView.posts
  favorites,  \* FavoritesView.posts, their order forgotten
  isLoading,  \* the spinner of each list
  appeared    \* the lists that have been on screen since the launch

viewVars == <<posts, favorites, isLoading, appeared>>
vars == <<table, realm, process, requests, save, posts, favorites, isLoading,
          appeared>>

View == {"All", "Favorites"}

Free == [stage |-> "free", view |-> "All"]
Request == [stage : {"free", "delayed", "requested"}, view : View]

NoSave == [view |-> "none", batch |-> <<>>, next |-> 1]
Save == [view : View \cup {"none"}, batch : Seq(Post), next : Nat \ {0}]

FeedTypeOK ==
  /\ StoreTypeOK
  /\ process \in {"running", "killed", "trapped"}
  /\ requests \in [Ticket -> Request]
  /\ save \in Save
  /\ posts \in Seq(Post)
  /\ favorites \in SUBSET Post
  /\ isLoading \in [View -> BOOLEAN]
  /\ appeared \in SUBSET View

AllFree == [t \in Ticket |-> Free]
AllLoading == [v \in View |-> TRUE]

\* A fresh install, launched: the @State variables and statics as declared.
Init ==
  /\ StoreInit
  /\ process = "running"
  /\ requests = AllFree
  /\ save = NoSave
  /\ posts = <<>>
  /\ favorites = {}
  /\ isLoading = AllLoading
  /\ appeared = {}

\* The main thread is free to run the next block.
Idle == process = "running" /\ save = NoSave

-----------------------------------------------------------------------------
(***************************************************************************)
(* Loading: getPosts and the completions the two lists give it.            *)
(***************************************************************************)

\* Mutant: the retrieved posts are added to the list.
ShowMore(retrieved) ==
  /\ posts' = posts \o retrieved
  /\ UNCHANGED favorites

\* loadData's completion on a list of posts, in PostsView ...
ShowAll(retrieved) ==
  /\ posts' = retrieved
  /\ UNCHANGED favorites

\* ... and in FavoritesView, which keeps the favorites.
ShowFavorites(retrieved) ==
  /\ favorites' = {p \in ToSet(retrieved) : p.isFavorite}
  /\ UNCHANGED posts

Show(v, retrieved) ==
  \/ v = "All" /\ ShowAll(retrieved)
  \/ v = "Favorites" /\ ShowFavorites(retrieved)

\* Mutant: the cached posts are not looked at.
GetPostsAnew(v, loading) ==
  /\ LoadPostsFromRealm
  /\ \E t \in Ticket :
       /\ requests[t] = Free
       /\ requests' = [requests EXCEPT
                         ![t] = [stage |-> "delayed", view |-> v]]
  /\ isLoading' = loading
  /\ UNCHANGED <<posts, favorites>>

\* The caller has set the spinners to loading; a cached post answers at once.
GetPosts(v, loading) ==
  /\ LoadPostsFromRealm
  /\ \/ /\ table # <<>>
        /\ Show(v, table)
        /\ isLoading' = [loading EXCEPT ![v] = FALSE]
        /\ UNCHANGED requests
     \/ /\ table = <<>>
        /\ \E t \in Ticket :
             /\ requests[t] = Free
             /\ requests' = [requests EXCEPT
                               ![t] = [stage |-> "delayed", view |-> v]]
        /\ isLoading' = loading
        /\ UNCHANGED <<posts, favorites>>

\* onAppear of a list.
Appear(v) ==
  /\ Idle
  /\ GetPosts(v, isLoading)
  /\ appeared' = appeared \cup {v}
  /\ UNCHANGED <<process, save>>

\* The reload button, on PostsView alone.
Refresh ==
  /\ Idle
  /\ "All" \in appeared
  /\ GetPosts("All", [isLoading EXCEPT !["All"] = TRUE])
  /\ UNCHANGED <<process, save, appeared>>

\* asyncAfter's two seconds are over: loadPostsFromNetwork sends the request.
StartRequest(t) ==
  /\ Idle
  /\ requests[t].stage = "delayed"
  /\ requests' = [requests EXCEPT ![t].stage = "requested"]
  /\ UNCHANGED <<storeVars, process, save, viewVars>>

\* Mutant: the completion returns on nil before it resets the spinner.
ReceiveNothingSilently(t) ==
  /\ Idle
  /\ requests[t].stage = "requested"
  /\ requests' = [requests EXCEPT ![t] = Free]
  /\ UNCHANGED <<storeVars, process, save, viewVars>>

\* No data, or data that is not a list of posts: completion(nil).
ReceiveNothing(t) ==
  /\ Idle
  /\ requests[t].stage = "requested"
  /\ requests' = [requests EXCEPT ![t] = Free]
  /\ isLoading' = [isLoading EXCEPT ![requests[t].view] = FALSE]
  /\ UNCHANGED <<storeVars, process, save, posts, favorites, appeared>>

\* Mutant: the loop breaks one post late.
FreshAndOneMore(answer) ==
  [i \in DOMAIN answer |->
     [id |-> answer[i], isFavorite |-> FALSE, read |-> i > FirstUnread + 1]]

\* A decoded answer with its first posts set unread; the others start read.
Fresh(answer) ==
  [i \in DOMAIN answer |->
     [id |-> answer[i], isFavorite |-> FALSE, read |-> i > FirstUnread]]

\* The answer is long enough for the loop over 0...count to break in time.
ReceivePosts(t) ==
  /\ Idle
  /\ requests[t].stage = "requested"
  /\ \E answer \in Answers :
       /\ Len(answer) >= FirstUnread
       /\ save' = [view |-> requests[t].view, batch |-> Fresh(answer),
                   next |-> 1]
  /\ requests' = [requests EXCEPT ![t] = Free]
  /\ OpenRealm
  /\ UNCHANGED <<table, process, viewVars>>

\* One turn of savePosts.
SaveNext ==
  /\ process = "running"
  /\ save.view \in View
  /\ save.next <= Len(save.batch)
  /\ SavePost(save.batch[save.next])
  /\ save' = [save EXCEPT !.next = save.next + 1]
  /\ UNCHANGED <<process, requests, viewVars>>

\* Mutant: the posts are saved and the completion is not called.
FinishSaveSilently ==
  /\ process = "running"
  /\ save.view \in View
  /\ save.next > Len(save.batch)
  /\ save' = NoSave
  /\ UNCHANGED <<storeVars, process, requests, viewVars>>

\* completion(networkPosts), with the batch and not with what the cache holds.
FinishSave ==
  /\ process = "running"
  /\ save.view \in View
  /\ save.next > Len(save.batch)
  /\ Show(save.view, save.batch)
  /\ isLoading' = [isLoading EXCEPT ![save.view] = FALSE]
  /\ save' = NoSave
  /\ UNCHANGED <<storeVars, process, requests, appeared>>

-----------------------------------------------------------------------------
(***************************************************************************)
(* The user's changes.  They reach every cached post, shown or not.        *)
(***************************************************************************)

\* A swipe on one row, the only IndexSet the list sends.
DeletePost(i) ==
  /\ Idle
  /\ Delete(posts[i].id)
  /\ posts' = RemoveAt(posts, i)
  /\ UNCHANGED <<process, requests, save, favorites, isLoading, appeared>>

\* Mutant: the cache is emptied and the list is not.
DeleteAllButTheList ==
  /\ Idle
  /\ "All" \in appeared
  /\ DeleteAll
  /\ UNCHANGED <<process, requests, save, viewVars>>

DeleteAllPosts ==
  /\ Idle
  /\ "All" \in appeared
  /\ DeleteAll
  /\ posts' = <<>>
  /\ UNCHANGED <<process, requests, save, favorites, isLoading, appeared>>

\* PostDetailView's two calls.
MarkPost(id) ==
  /\ Idle
  /\ MarkAsRead(id) \/ \E b \in BOOLEAN : SetFavorite(id, b)
  /\ UNCHANGED <<process, requests, save, viewVars>>

-----------------------------------------------------------------------------
(***************************************************************************)
(* The process.                                                            *)
(***************************************************************************)

\* The process ends: what was in memory is lost, the table is not.
End(cause) ==
  /\ process = "running"
  /\ process' = cause
  /\ Close
  /\ requests' = AllFree
  /\ save' = NoSave
  /\ posts' = <<>>
  /\ favorites' = {}
  /\ isLoading' = AllLoading
  /\ appeared' = {}

\* From outside (the user, the system), or by a try! on a file error.
Kill == End("killed")

\* An answer shorter than FirstUnread: networkPosts[count] is out of range.
TrapOnShortAnswer(t) ==
  /\ Idle
  /\ requests[t].stage = "requested"
  /\ \E answer \in Answers : Len(answer) < FirstUnread
  /\ End("trapped")

\* realm.add raises on a primary key that exists; nothing catches it.
TrapOnDuplicate ==
  /\ save.view \in View
  /\ save.next <= Len(save.batch)
  /\ HasId(table, save.batch[save.next].id)
  /\ End("trapped")

Launch ==
  /\ process # "running"
  /\ process' = "running"
  /\ UNCHANGED <<storeVars, requests, save, viewVars>>

Receive(t) ==
  ReceiveNothing(t) \/ ReceivePosts(t) \/ TrapOnShortAnswer(t)

Saving == SaveNext \/ FinishSave \/ TrapOnDuplicate

Next ==
  \/ \E v \in View : Appear(v)
  \/ Refresh
  \/ \E t \in Ticket : StartRequest(t) \/ Receive(t)
  \/ Saving
  \/ \E i \in DOMAIN posts : DeletePost(i)
  \/ DeleteAllPosts
  \/ \E id \in PostId : MarkPost(id)
  \/ Kill
  \/ Launch

Spec == Init /\ [][Next]_vars

(***************************************************************************)
(* The main queue is serial and first in first out, so a block that is put *)
(* on it runs however many others come after it: strong fairness for the   *)
(* timer and the answer of each load, since a running save disables them.  *)
(* URLSession calls a task's handler exactly once, with data or an error.  *)
(* The user and the end of the process are not fair.                       *)
(***************************************************************************)
Fairness ==
  /\ \A t \in Ticket : SF_vars(StartRequest(t)) /\ SF_vars(Receive(t))
  /\ WF_vars(Saving)

FairSpec == Spec /\ Fairness

-----------------------------------------------------------------------------
(***************************************************************************)
(* Properties.                                                             *)
(***************************************************************************)

ListedIds == {posts[i].id : i \in DOMAIN posts}

\* Every row of the All list is a cached post: a tap, a mark or a swipe on it
\* reaches the row it shows, although the list is a copy that getPosts fills
\* from the answer and that deletions shrink on their own.
ListedPostsAreCached == ListedIds \subseteq Ids(table)

\* The list shows no post twice: List identifies its rows by the post's id, and
\* a swipe on one of two rows would leave the other without a cached post.
ListedOnce == UniqueIds(posts)

InFlight(v) ==
  \/ save.view = v
  \/ \E t \in Ticket : requests[t].stage # "free" /\ requests[t].view = v

\* A spinner that turns on a list that has appeared has a load that will stop
\* it: no path of getPosts, its errors included, loses the completion.
SpinnerHasLoad ==
  \A v \in appeared : isLoading[v] => InFlight(v)

\* Only the user's marks change the marks of a post that stays cached: no
\* load, deletion of another post, crash or relaunch resets one.
OnlyUserMarks ==
  [][\/ \A id \in Ids(table) \cap Ids(table') :
          CachedMarks'[id] = CachedMarks[id]
     \/ \E id \in PostId : MarkPost(id)]_vars

\* The process never ends by a trap of its own.
NeverTraps == process # "trapped"

\* The blue dots stay within the first FirstUnread rows of the table, however
\* deletions move rows about.
DotsAmongFirst ==
  \A i \in DOMAIN table : ~table[i].read => i <= FirstUnread

\* A spinner on screen stops, unless the process ends first.
SpinnerStops ==
  \A v \in View :
    v \in appeared /\ isLoading[v] ~> ~isLoading[v] \/ process # "running"
=============================================================================
