# ZemogaSocialApp in TLA+

An iOS app (SwiftUI, Realm) that lists posts from a JSON service, keeps them in
a database on the phone, and lets the user read, favorite and delete them.
The modules here model all of its own code, about 1200 lines of Swift, that
keeps state or decides what happens next. Nearly all the other lines of the
repository are the vendored `Pods/`: of these the tables are modelled as the
app uses them, and the change notifications of Realm's object store as a
component of their own. In what follows `A/` is
`src/ZemogaSocialApp/ZemogaSocialApp/` and `R/` is
`src/ZemogaSocialApp/Pods/Realm/Realm/ObjectStore/src/`.

## 1. Inventory

| Component | State | Operations | Talks to |
|---|---|---|---|
| `A/Persistence/PostStore.swift` | Realm table of `PostObject` (disk), `realm` (memory) | `loadPostsFromRealm`, `savePosts`, `markAsRead`, `setFavorite`, `delete`, `deleteAll` | Realm |
| `A/Network/DataRequest.swift`, `getPosts` | loads in flight: a timer of 2 s, then a request | cache check, request, decode, first 20 unread, save, completion | `PostStore`, `URLSession`, main queue |
| `A/Scenes/PostsScene/PostsView.swift` | `posts`, `isLoading` | `onAppear`, reload, swipe, Delete All | `getPosts`, `DataRequest.postStore` |
| `A/Scenes/PostsScene/FavoritesView.swift` | `posts`, `isLoading` | `onAppear` | `getPosts` |
| `A/Scenes/PostDetailScene/PostDetailView.swift` | the captured `post`, `isFavorite` | `onAppear` marks as read, star | `DataRequest.postStore` |
| `CommentStore`, `getComments`, `CommentView` | comment table, `comments`, `isLoadingComments` | load on appear, save | `DataRequest`, Realm |
| `UserStore`, `getUsers`, `UserView` | user table, `users`, `isLoading` | load on appear, save | `DataRequest`, Realm |
| `A/Scenes/HomeView.swift` | the selected tab, what each tab has open | two tabs with a `NavigationView` each | the lists and the details |
| `AppDelegate`, `SceneDelegate` | the window | launch | |
| `PostRow`, `List+Modifiers`, `Enviroment`, models | none | drawing, one address, conversions | |
| Realm's tables | the database file | add, filter, delete, commit | |
| `R/impl/collection_notifier.cpp`, `results_notifier.cpp`, `realm_coordinator.cpp`, `R/shared_realm.cpp` | callbacks, accumulated changes, handed-over views | add, remove and suppress callbacks, run, hand over, package, deliver | worker thread, run loop, the user's blocks |
| the rest of `Pods/` | | storage engine, sync, drawing of the spinner | |

Every view and every store call runs on the main thread. Concurrency comes
from what leaves it: the two seconds of `asyncAfter`, the request, and the end
of the process, which may fall between any two transactions. Between the start
and the end of a load the user may open the other list, reload, delete, mark.

What is hard, and what correctness means per component:

* **PostStore**: one row per post; a call touches the posts it names and no
  other, although Realm moves the last row into the place of a deleted one.
* **getPosts**: no path loses the completion; loads that overlap; answers that
  are shorter than the code expects; a save that is cut short.
* **PostsView / FavoritesView**: a list is a copy filled from a batch and shrunk
  by offset, while the cache changes by id: they must not drift apart.
  A spinner on screen must have something that will stop it.
* **PostDetailView, HomeView**: a detail works on the post that was captured when
  its row was drawn; which views appear again, and read the cache again, depends
  on the layout and on the tab.
* **Comments, users**: as `getPosts`, with a key: views of one key, and loads that
  outlive the view that asked. A view must show its own key's rows, all of them.
* **Change notifications**: three threads. An observer must be told of every change
  after its first call, once, at a version its Realm is at, although runs are
  merged, deliveries dropped, callbacks added and removed in the callbacks
  themselves, and commits suppressed for some of them.

The hazards, each with its line and the properties that would catch it, are in
`PROJECT.json`.

## 2. Modules

| Module | Models |
|---|---|
| `RealmTable` | one Realm object table as the stores use it: a sequence of rows with a primary key; deletion moves the last row over |
| `PostLibrary` | abstract: a function from post ids to marks, with Add, Read, Favor, Remove, Clear |
| `PostStore` | `PostStore.swift`, one action per call; `savePosts` one step per transaction; implements `PostLibrary` |
| `PostsFeed` | `getPosts`, the two lists, the detail's marks and the life of the process, using `PostStore`'s actions |
| `SocialApp` | tabs, details and stars; EXTENDS `PostsFeed`, and implements it |
| `DetailStore` | `CommentStore.swift` and `UserStore.swift`, which are one code on two tables: rows with a primary key and the key they are asked by |
| `ReadThrough` | abstract: a cache that fetches each key once and shows it whole to the views in front of it |
| `DetailCache` | `getComments` with `CommentView`, `getUsers` with `UserView`, using `DetailStore`'s actions; implements `ReadThrough` where loads do not overlap and no save is cut short |
| `RealmNotifications` | one Results, its callbacks, the worker, the thread of its Realm and another writer |
| `MCPostsFeed`, `MCSocialApp`, `MCDetailCache` | small instances; properties that the repository's README states and the code does not keep |
| `MCRemoveAll`, `MCStar`, `MCNotifications` | the same with history variables, in which their properties are stated |
| `RealmTableProofs`, `PostStoreProofs`, `PostsFeedProofs`, `OneLoadProofs`, `DetailCacheProofs`, `SocialAppProofs`, `RealmNotificationsProofs`, `MCNotificationsProofs` | lemmas, invariants, refinements and theorems |

### The app

An action of `PostsFeed`, `DetailCache` or `SocialApp` is the whole handler, with
the store's action as a conjunct. Correspondence, code to model:

* `table` is the file: it survives `End` and `Launch`. `realm` and every other
  variable is memory, and returns to its declared value.
* `requests` has one entry per load in flight: `delayed` during `asyncAfter`,
  `requested` after `task.resume()`. The handler of `URLSession` and the block it
  puts on the main queue are one step (`Receive`): nothing reads the answer
  between them.
* `save` is a save in progress. It runs on the main thread, so nothing but
  the end of the process comes between its transactions (`Idle` guards the rest).
* A post is its id and its two marks; a comment or a user is its primary key and
  the key it is asked by. The other fields are fixed by the id and no code
  branches on them; the conversions of `Models/` keep every field.
* Where the code traps, an uncaught exception or an index out of range, the
  process ends in the same step with what was committed before kept.
* `favorites`, and what a detail shows, are sets. No code uses their order.

`PostsFeed` leaves the order of the user's calls open: a list may appear, and a post
be marked, at any time. `SocialApp` closes it. `due` holds the views on their way
to the screen, whose `onAppear` comes before anything else the user does; `Layout`
is `"stack"` on a phone and `"split"` on a tablet, where the list stays on
screen beside the detail. SwiftUI is modelled as far as the app depends on it: a
list that changed redraws its links, upon which an open detail takes the new
post of its row, or closes with it, or is left as it was (`Redraw` allows each,
per tab).

In `DetailCache` a viewer is a place where a detail may be on screen. `Open` makes a
view with the declared `@State`, `Leave` loses it; its loads go on with `Nobody` to
reach. `Reappear` is a second `onAppear` of the same view.

### Change notifications

* A version is a number and a set of changes is the set of versions that made them,
  so that a property can say which change was told to whom.
* `worker.pc` follows `run_async_notifiers` and `CollectionNotifier::run`;
  `NeedToRun` and `CalculateChanges` are two steps because both read
  `m_have_callbacks` without a lock. `main.pc` follows
  `advance_with_notifications`; a step ends where `m_callback_mutex` is released
  or the user's code is called (`call`). `signal` is the run loop's source, `wake`
  the worker's pipe: both hold one mark for any number of calls.
* `index` and `count` are `m_callback_index + 1` and `m_callback_count`, with the
  wrap-around of `size_t`.
* While a block runs the user may add and remove callbacks; so may other threads
  remove them.

`Next` is the code. `CalmNext` leaves out three orders in which the code does not
keep what it keeps otherwise. They were met while the properties were checked
under `Next`: given back any one of them, `CalmNext` breaks `ToldWhenQuiet`.

1. A first callback is added while the query is being rerun without any: the run
   calculates changes for nobody and moves on, and the callback's first call may
   show the rows before it (`R/impl/results_notifier.cpp:104`).
2. A callback is added and removed in one delivery: `m_callback_count`, which did
   not count it, is lowered all the same, and a later callback is passed over
   (`R/impl/collection_notifier.cpp:214`).
3. A commit without notification fails: `skip_next` stays set, and the next changes,
   whoever writes them, are not told (`R/impl/collection_notifier.cpp:235`).

The proofs about `RealmNotifications` itself and that of `ToldOnce` are about `Next`, all
orders included; those of `NothingLost` and `ToldWhenQuiet`, which the three orders break,
are about `CalmNext`.

Definitions whose comment begins with *Mutant* are wrong variants of the
definition that follows them. Putting one in the place of the right one makes TLC
report the property it is paired with in `PROJECT.json`; they keep the
properties honest and belong to no specification.

## 3. Runs

| Run | Checks | Shows |
|---|---|---|
| `feed` | `FeedTypeOK`, `OneRowPerPost`, `StoreIsLibrary`, `ListedPostsAreCached`, `ListedOnce`, `SpinnerHasLoad`, `OnlyUserMarks`, `SpinnerStops` | with two loads in flight and long and short answers, store, lists, marks and spinners stay right through traps and relaunches; each spinner stops under fairness |
| `one_load` | `NeverTraps`, `DotsAmongFirst` | when loads do not overlap and answers are full the app does not trap, and the blue dots stay among the first rows |
| `comments` | `CacheTypeOK`, `OneRowPerId`, `ShownInFull`, `SpinnerHasLoad`, `SpinnerStops` | views opened, left and opened again while loads overlap, fail and are cut short: a view shows nothing or every row that is cached under its key, and its spinner stops. After a save that was cut short the cached rows are not all there are |
| `comments_whole` | `NeverTraps`, `IsReadThrough` | without two loads of one key at once and without saves cut short, the details are a read-through cache |
| `phone` | `AppTypeOK`, `ListIsCurrent`, `OpenPostIsRead`, `StarIsRight`, `AppIsFeed` | navigation on a phone: the visible list shows the cache's marks, a detail opened from it is of a cached post that is read, its star is right until the tab is left, and all of it is a behaviour of `PostsFeed` |
| `notifications` | `NotificationsTypeOK`, `HandoverFits`, `NothingLost`, `ToldOnce`, `ToldWhenQuiet`, `WaitIsAnswered`, `CallbacksAreKnown`, `WritesOnLatest`, `NeverGoesBack` | under `CalmNext` no change is lost between the run that finds it and the call that tells it, none is told twice, none remains untold when everything is at rest, who waits for the worker is answered, and the Realm goes forward only, and what is packaged for the begin of a write is of the latest version |

Runs that find a disagreement between the code and the repository's text:

| Run | Property | What happens |
|---|---|---|
| `overlap_traps` | `NeverTraps` | open Favorites, or tap reload, while the first load is running: both loads save the same posts, `realm.add` has no update policy, the second raises (`A/Network/DataRequest.swift:44`) |
| `short_answer_traps` | `NeverTraps` | an answer of fewer than 20 posts is indexed out of range (`DataRequest.swift:38`); the test double of `getPosts` answers three |
| `partial_cache` | `CachesAllPosts` | the process ends inside `savePosts`: part of the answer stays, and no later launch asks for the rest (`PostStore.swift:34`), though `README.md:19` asks to cache all posts |
| `remove_all_undone` | `RemovedPostsStayRemoved` | two loads overlap, the first one saves, Delete All removes the posts, the second one puts them back (`PostsView.swift:87`; `README.md:13`) |
| `star_lost` | `FavoriteHasStar` | press the star, go to the other tab and back: `onAppear` draws the star from the captured post, which still says it is no favorite (`PostDetailView.swift:32`; `README.md:16`) |
| `not_called` | `CalledWhenQuiet` | a block added by another block of the same Results wakes nobody and is not called in that delivery: it waits for its first call until something else happens (`R/impl/collection_notifier.cpp:190`), though `RLMResults.h:204` says a block is called with the initial results |

`one_load` is the counterpart of `overlap_traps` and `short_answer_traps`: it says that
these two are the only ways to trap. For comments and users it is `comments_whole`:
two views of one key that load at once trap in the same way as the posts, at
`DataRequest.swift:63` and `:83`, and the run (and `NeverTrapsHolds` below) says that
nothing else does.

### Bounds

* `PostId`, three posts (two in `star_lost`): enough for a deletion that moves the
  row of a post other than the deleted and the last, and for an answer longer than
  `FirstUnread`.
* `FirstUnread`, 1 or 2 for the code's 20: below, at and above the length of an answer.
* `Answers`, a full list and one shorter than `FirstUnread`. The service answers
  with one fixed list. For comments one key answers with two rows or none, the
  other with one row, as every user's does.
* `Ticket`, two loads in flight: one bound, named by the constant. A load is only
  started while a ticket is free. A third load does nothing that the second does
  not; the invariants are proved for any number.
* `Viewer`, two views of details, of the same key or of different ones.
* `Layout`, `"stack"`: on a tablet a list that stays on screen is not read again, and
  the three properties of the screen are not claimed. `AppIsFeed` is proved for both.
* `MaxVersion`, two commits; `MaxToken`, two callbacks; `SizeMax`, 7 in the place of the
  greatest `size_t`: a delivery with a callback before or behind its
  position, a version to be skipped and a later one, and a count that would wrap.
  `SuppressNext` (so also `CommitWrite`) and `OtherCommit` stop at `MaxVersion`, `AddCallback` at `MaxToken`.

### Fairness

`FairSpec` of `PostsFeed` and of `DetailCache` asks that a block on the main queue runs in
the end (the queue is serial and first in, first out), that `URLSession` calls a
task's handler once with data or an error (the request has a timeout), and that a
save goes on. Fairness is strong for timers and answers, since a save in progress
disables them for a while, and weak for the save. The user, the end of the process
and the launch are not fair.

`RealmNotifications` states no fairness: what would be its liveness, that each observer
is told in the end, is checked as two invariants. `ToldWhenQuiet` says that the
threads do not come to rest with something untold, `WaitIsAnswered` that a wait has
a worker on its way.

## 4. Proofs

Proved for every value of the constants, from the assumptions that the modules
name:

* `RealmTableProofs`: deletion removes one key and keeps every other row once;
  adding a row under a new key and rewriting rows in place keep keys unique.
* `PostStoreProofs`: `StoreInv`, types and one row per post, is inductive: `delete`
  is the step that needs the lemma on moved rows. With it each call maps to a
  call of `PostLibrary` or to a stutter: `StoreImplementsLibrary`.
* `PostsFeedProofs`:
  * `FeedImplementsStore`: each step of the app is a call of the store or leaves
    it alone, so the library's promise holds of the app (`FeedImplementsLibrary`).
  * `FeedInvariant`: `ListedPostsAreCached` is not inductive. A swipe removes one
    row of the list and the post from the cache, so the list must show no post
    twice (`ListedOnce`); a load fills the list from the batch, so the posts that
    `savePosts` has passed must be cached and all different (`BatchIsCached`,
    which rests on the trap: a post that exists ends the process instead).
  * `SpinnerHasLoadHolds`, inductive with the types alone.
  * `OnlyUserMarksHolds`, an action property, from the store's refinement.
* `OneLoadProofs`: `NeverTraps` and `DotsAmongFirst`, when there is one ticket and each
  answer has at least `FirstUnread` posts, none twice. `QuietInv` adds what makes
  them inductive: a load is in flight only while nothing is cached, and a running
  save has written exactly the rows of the table, in their order.
* `DetailCacheProofs`:
  * `OneRowPerIdHolds`, `CacheOneRowPerId`, `CacheTypeCorrect`, `SpinnerHasLoadHolds`.
  * `ShownInFullHolds` rests on `ShownInv`: a load finds the view that asked for it or
    nobody; the batch of a save is an answer of its key, of which the rows passed
    are cached and no more; and where any row of a key is cached its answer's
    first one is, so that a second save of the key traps at once and never reaches
    the completion with half of it shown.
  * `NeverTrapsHolds` (`CalmSpec`: no two loads of one key at once) rests on `CalmInv`: a
    load is in flight only for a key without rows, and every row is in an answer
    of its key.
  * `CacheIsReadThrough` (`WholeSpec`): each step maps to one of `ReadThrough` or a stutter;
    the end of a save is `Fetch`, earlier turns are hidden because the key of a
    running save is not held yet.
* `SocialAppProofs`: `AppIsFeedHolds`, for both layouts. `ListIsCurrentHolds` and
  `OpenPostIsReadHolds`, for a phone, rest on `PhoneInv`: a list that is not current is
  covered or about to appear, a running save has written what the table holds,
  and a captured post is cached and read unless its detail is still on its way.
  `StarIsRightHolds`, with the history of `MCStar`, rests on `PhoneInv` and on `StarInv`: until
  the detail appears it is the captured post that has the cached mark, since the
  row tapped was current, and from then on the star. Pressing it keeps the two
  together although the button reads neither: it negates the captured mark.
* `RealmNotificationsProofs`, for `Next` with any number of commits and callbacks:
  `CallbacksAreKnown` is not inductive, since `add_callback` leaves `m_have_callbacks`
  alone in a delivery. `CallbacksInv` adds that the position of a delivery is at
  most the number of callbacks, so that when the last one is removed the position
  is that of no delivery and the next `add_callback` sets the flag. The theorem on types
  includes that position and the count, which wraps and stays a `size_t`.

  `HandoverFits`, `WaitIsAnswered`, `WritesOnLatest` and `NeverGoesBack` say of four actors that
  they agree on versions, and have one invariant, `VersionsInv`. `TodoInv`: what the
  worker has to do lies between the notifier's version and the latest, in order,
  and a version to be skipped behind it. `TripInv`: a Realm on its way goes forward and
  a package on the way with it is not ahead of the notifier; who writes, or has the
  lock to write, has the latest version. In the code a write is on the latest version
  whatever was packaged for it (`promote_to_write`, `R/impl/transact_log_handler.cpp:836`); in the
  model it begins at the version of its package, so what `WritesOnLatest` says is that
  this package is of the latest version. `ViewInv`: a view is at the notifier's version until
  it is packaged, and then at the version of the trip.
* `MCNotificationsProofs`, with the history of `MCNotifications`:
  * `ToldOnceHolds`, for `Next`. `TellingInv` says where a change is on its way to a callback:
    with the worker, accumulated, in the delivery that runs, or told, and at one of
    these only (`OnceInv`). It needs that the worker looks at no change twice (`WorkerInv`), and
    that the flag `initial` is that of the first call (`CalledInv`).
  * `NothingLostHolds` and `ToldWhenQuietHolds`, for `CalmNext`. The change must be at *some* place, and
    not only accumulated when nothing is left to deliver it: `HeldInv`. What a callback is
    owed starts at the version of the delivery that counts it, before its first
    call. Each of its other parts keeps one step from losing a change:
    `DeliveryInv` (the position and the count follow the callbacks that are removed, so
    that a delivery passes nobody over), `RunInv` (a run is not left out for want of
    callbacks), `SkipInv` (the run that takes a `skip_next` ends at the suppressed commit,
    so it takes nothing else with it), `OvertakenInv` and `WriteInv` (a Realm that has gone
    ahead of the notifier by its own commit, and so drops a package, had everything
    told before it began to write), `WakeInv` (a worker that nobody woke is at the latest
    version). Each part was checked with TLC on the instance of the run
    `notifications` before it was proved.

Only model-checked: `SpinnerStops` of posts and of details. It is liveness, and so out of
the prover's reach. Every other property of a passing run is the statement of a
theorem.

## 5. Not modelled

* Drawing, layout and animation; `PostRow`, `List+Modifiers`, `Enviroment`,
  `ActivityIndicatorView`.
* `HomeView`'s own `posts`, `isLoading` and `postStore`, which nothing uses.
* Failing `try! Realm()` or a failing commit of the stores: the process ends, as in
  `Kill`, and the transaction is not in the file.
* `NoRealmSet` in `savePosts`, and its like in the other stores: no path of the app
  reaches it, since the Realm is set before; it is an action of `PostStore` and
  `DetailStore` (a call of its own) and not of the modules above them.
* Swipes on several rows: the list sends one offset at a time.
* Stars on a tablet, and on a detail that was left for the other tab: there the star
  is stale (`star_lost`), and no property is claimed. The same for Favorites, whose rows
  may be of posts that are gone until it appears again.
* Of the change notifications: several notifiers of one Realm, object and list
  notifiers, errors of the worker, Results that are destroyed or invalidated,
  writes and refreshes made inside a block, and what changed within a version
  (insertions, moves). A suppressed change may be told when a run of the worker that finds
  nothing ends between `suppress_next_notification` and the commit, and takes `skip_next`;
  no property says that it is not.
* Everything else under `Pods/`: Realm's storage engine and sync client (whose sources
  are there as headers, the code being in a binary library), the bindings of
  Objective-C and Swift, schemas and migrations. The app uses none of it
  beyond one table per type, and this part is nearly all of the repository's lines.
* Tests, UI tests, fastlane: read as statements of intent.

## 6. What could follow

1. `RealmCoordinator`: several notifiers, which are packaged together and may be at
   different versions; object and list notifiers beside the Results.
2. That the abstract promise of an observer, told of all changes in order of its
   Realm's versions, is implemented by `RealmNotifications`, as a refinement.
3. A tablet's screen: which copies are stale there, and until when.
