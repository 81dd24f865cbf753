----------------------------- MODULE SocialApp -----------------------------
(***************************************************************************)
(* The app as it is navigated: HomeView's two tabs, each a NavigationView  *)
(* with a list and the PostDetailView that a tap on a row opens.  The feed *)
(* of posts is PostsFeed; here its lists appear, and its posts are marked, *)
(* when the navigation makes it so.                                        *)
(*                                                                         *)
(* A phone stacks the detail on its list, a tablet shows them side by side;*)
(* the project targets both.  The detail works on the post it captured     *)
(* when the row was drawn.                                                 *)
(***************************************************************************)
EXTENDS PostsFeed

CONSTANTS
  Layout,  \* "stack" or "split"
  NoPost   \* what a tab without an open detail has captured

ASSUME LayoutAssumption == Layout \in {"stack", "split"}
ASSUME NoPostAssumption == NoPost \notin Post

VARIABLES
  tab,       \* the selected tab
  captured,  \* "var post" of the detail open in each tab
  star,      \* its @State isFavorite, which draws the star
  due        \* the views on their way to the screen, whose onAppear is due

navVars == <<tab, captured, star, due>>
appVars == <<vars, navVars>>

AppTypeOK ==
  /\ tab \in View
  /\ captured \in [View -> Post \cup {NoPost}]
  /\ star \in [View -> BOOLEAN]
  /\ due \in SUBSET {"list", "detail"}

NothingOpen == [v \in View |-> NoPost]
NoStars == [v \in View |-> FALSE]

\* The first tab is selected and its list is about to appear.
AppInit ==
  /\ Init
  /\ tab = "All"
  /\ captured = NothingOpen
  /\ star = NoStars
  /\ due = {"list"}

IsOpen(v) == captured[v] # NoPost

\* The list of a tab is on screen, with nothing over it.
ListVisible(v) == tab = v /\ (Layout = "stack" => ~IsOpen(v))

\* The user, and the blocks of the main queue, come after the views appear.
Settled == Idle /\ due = {}

\* Bound: a step that makes a list appear is taken when a load can start.
RoomForLoad == \E t \in Ticket : requests[t] = Free

Rows(v) == IF v = "All" THEN ToSet(posts) ELSE favorites

-----------------------------------------------------------------------------
(***************************************************************************)
(* SwiftUI, as far as the app depends on it.                               *)
(***************************************************************************)

\* The row that a list draws for the post of an open detail.
Redrawn(post, rows) ==
  IF \E p \in rows : p.id = post.id
    THEN CHOOSE p \in rows : p.id = post.id
    ELSE NoPost

\* A list that changed redraws its links.  An open detail takes the new post
\* of its row, or closes with it; or it is left as it was.
Redraw ==
  \E kept \in SUBSET View :
    /\ captured' = [v \in View |-> IF v \in kept \/ ~IsOpen(v)
                                     THEN captured[v]
                                     ELSE Redrawn(captured[v], Rows(v)')]
    /\ star' = [v \in View |-> star[v] /\ captured'[v] # NoPost]

\* A list that is uncovered because its detail closed appears.
Uncover ==
  due' = IF Layout = "stack" /\ IsOpen(tab) /\ captured'[tab] = NoPost
           THEN {"list"} ELSE {}

\* Mutant: the link makes its post of a managed object without a primary key,
\* which keeps its default.
TapWithDefaultId(v, p) ==
  /\ Settled
  /\ ListVisible(v)
  /\ captured' = [captured EXCEPT ![v] = [p EXCEPT !.id = 0]]
  /\ star' = [star EXCEPT ![v] = FALSE]
  /\ due' = {"detail"}
  /\ UNCHANGED <<vars, tab>>

\* A tap on a row opens the detail of its post.
Tap(v, p) ==
  /\ Settled
  /\ ListVisible(v)
  /\ captured' = [captured EXCEPT ![v] = p]
  /\ star' = [star EXCEPT ![v] = FALSE]
  /\ due' = {"detail"}
  /\ UNCHANGED <<vars, tab>>

\* Mutant: the list is uncovered and does not appear anew.
BackQuietly ==
  /\ Settled
  /\ Layout = "stack"
  /\ IsOpen(tab)
  /\ captured' = [captured EXCEPT ![tab] = NoPost]
  /\ star' = [star EXCEPT ![tab] = FALSE]
  /\ due' = {}
  /\ UNCHANGED <<vars, tab>>

Back ==
  /\ Settled
  /\ RoomForLoad
  /\ Layout = "stack"
  /\ IsOpen(tab)
  /\ captured' = [captured EXCEPT ![tab] = NoPost]
  /\ star' = [star EXCEPT ![tab] = FALSE]
  /\ due' = {"list"}
  /\ UNCHANGED <<vars, tab>>

\* The views that the other tab has on screen appear.
SelectTab(v) ==
  /\ Settled
  /\ RoomForLoad
  /\ v # tab
  /\ tab' = v
  /\ due' = {view \in {"list", "detail"} :
               IF view = "detail" THEN IsOpen(v)
                                  ELSE Layout = "stack" => ~IsOpen(v)}
  /\ UNCHANGED <<vars, captured, star>>

-----------------------------------------------------------------------------
(***************************************************************************)
(* The lists.                                                              *)
(***************************************************************************)

\* onAppear of the list of the selected tab.
ListAppears ==
  /\ "list" \in due
  /\ Appear(tab)
  /\ Redraw
  /\ due' = due \ {"list"}
  /\ UNCHANGED tab

\* The buttons and the swipe of PostsView.
EditList ==
  /\ Settled
  /\ ListVisible("All")
  /\ Refresh \/ DeleteAllPosts \/ \E i \in DOMAIN posts : DeletePost(i)
  /\ Redraw
  /\ UNCHANGED <<tab, due>>

Load ==
  /\ due = {}
  /\ \/ \E t \in Ticket :
          StartRequest(t) \/ ReceiveNothing(t) \/ ReceivePosts(t)
     \/ SaveNext
  /\ UNCHANGED navVars

EndLoad ==
  /\ due = {}
  /\ FinishSave
  /\ Redraw
  /\ Uncover
  /\ UNCHANGED tab

-----------------------------------------------------------------------------
(***************************************************************************)
(* PostDetailView.                                                         *)
(***************************************************************************)

\* Mutant: onAppear sets the star and does not mark the post as read.
DetailAppearsUnread ==
  /\ "detail" \in due
  /\ Idle
  /\ star' = [star EXCEPT ![tab] = captured[tab].isFavorite]
  /\ due' = due \ {"detail"}
  /\ UNCHANGED <<vars, tab, captured>>

\* onAppear of the detail in the selected tab.
DetailAppears ==
  /\ "detail" \in due
  /\ Idle
  /\ IF IsOpen(tab)
       THEN /\ MarkAsRead(captured[tab].id)
            /\ star' = [star EXCEPT ![tab] = captured[tab].isFavorite]
       ELSE UNCHANGED <<storeVars, star>>
  /\ due' = due \ {"detail"}
  /\ UNCHANGED <<process, requests, save, viewVars, tab, captured>>

\* Mutant: the cache is given the value that the button replaces.
PressStarBackwards ==
  /\ Settled
  /\ IsOpen(tab)
  /\ star' = [star EXCEPT ![tab] = ~captured[tab].isFavorite]
  /\ SetFavorite(captured[tab].id, star[tab])
  /\ UNCHANGED <<process, requests, save, viewVars, tab, captured, due>>

\* Mutant: the button gives the other list its row as well.
PressStarAndShow ==
  /\ Settled
  /\ IsOpen(tab)
  /\ star' = [star EXCEPT ![tab] = ~captured[tab].isFavorite]
  /\ SetFavorite(captured[tab].id, ~captured[tab].isFavorite)
  /\ favorites' = favorites \cup {[captured[tab] EXCEPT !.isFavorite = TRUE]}
  /\ UNCHANGED <<process, requests, save, posts, isLoading, appeared, tab,
                 captured, due>>

\* The button negates the captured post's mark, not the star.
PressStar ==
  /\ Settled
  /\ IsOpen(tab)
  /\ star' = [star EXCEPT ![tab] = ~captured[tab].isFavorite]
  /\ SetFavorite(captured[tab].id, ~captured[tab].isFavorite)
  /\ UNCHANGED <<process, requests, save, viewVars, tab, captured, due>>

-----------------------------------------------------------------------------
(***************************************************************************)
(* The process.                                                            *)
(***************************************************************************)

Leave ==
  /\ \/ Kill
     \/ due = {} /\ (TrapOnDuplicate \/ \E t \in Ticket : TrapOnShortAnswer(t))
  /\ tab' = "All"
  /\ captured' = NothingOpen
  /\ star' = NoStars
  /\ due' = {}

Start ==
  /\ Launch
  /\ due' = {"list"}
  /\ UNCHANGED <<tab, captured, star>>

AppNext ==
  \/ \E v \in View :
       \/ \E p \in Rows(v) : Tap(v, p)
       \/ SelectTab(v)
  \/ Back
  \/ ListAppears
  \/ EditList
  \/ Load
  \/ EndLoad
  \/ DetailAppears
  \/ PressStar
  \/ Leave
  \/ Start

AppSpec == AppInit /\ [][AppNext]_appVars

-----------------------------------------------------------------------------
(***************************************************************************)
(* Properties.                                                             *)
(***************************************************************************)

\* However it is navigated, the app is the feed of PostsFeed: what holds of
\* that one, for calls in any order, holds here.
AppIsFeed == Spec

\* On a phone, when the list of all posts is on screen its rows carry the marks
\* the cache holds: no dot is left on a post that was read, no star is missing,
\* whichever tab and detail the marks were made in.
ListIsCurrent ==
  Layout = "stack" /\ Settled /\ ListVisible("All") =>
    \A i \in DOMAIN posts : posts[i] \in ToSet(table)

\* On a phone, the detail opened from the list of all posts is that of a cached
\* post, marked as read: its star button reaches a row.
OpenPostIsRead ==
  Layout = "stack" /\ Settled /\ tab = "All" /\ IsOpen("All") =>
    \E row \in ToSet(table) : row.id = captured["All"].id /\ row.read
=============================================================================
