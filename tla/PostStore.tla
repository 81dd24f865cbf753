----------------------------- MODULE PostStore -----------------------------
(***************************************************************************)
(* PostStore (Persistence/PostStore.swift): the calls the app makes on the *)
(* table of PostObject rows.  Every call runs on the main thread, so a     *)
(* call and its write transaction are one step; savePosts and delete, which*)
(* commit one transaction per post, are one step per post.                 *)
(*                                                                         *)
(* A row keeps the identifier and the two marks the user can change.  The  *)
(* author, title and body of a post are fixed by its identifier.           *)
(***************************************************************************)
EXTENDS RealmTable

CONSTANT PostId

VARIABLES
  table,  \* the committed PostObject rows, on disk
  realm   \* whether the store's "var realm: Realm?" is set, in memory

storeVars == <<table, realm>>

Post == [id : PostId, isFavorite : BOOLEAN, read : BOOLEAN]

StoreTypeOK ==
  /\ table \in Seq(Post)
  /\ realm \in BOOLEAN

\* A fresh install: no rows, and no Realm set until the first call.
StoreInit ==
  /\ table = <<>>
  /\ realm = FALSE

OpenRealm == realm' = TRUE

LoadPostsFromRealm ==
  /\ OpenRealm
  /\ UNCHANGED table

\* Mutant: managedObject() forgets the primary key, which keeps its default.
SavePostWithDefaultId(post) ==
  /\ realm
  /\ ~HasId(table, post.id)
  /\ table' = Append(table, [post EXCEPT !.id = 0])
  /\ UNCHANGED realm

\* Mutant: the row is created whether its primary key exists or not.
SavePostTwice(post) ==
  /\ realm
  /\ table' = Append(table, post)
  /\ UNCHANGED realm

\* Mutant: add with an update policy, a fresh row replacing the cached one.
SavePostOverwriting(post) ==
  /\ realm
  /\ table' = IF HasId(table, post.id)
                THEN [table EXCEPT ![IndexOf(table, post.id)] = post]
                ELSE Append(table, post)
  /\ UNCHANGED realm

\* One turn of savePosts.  An id that is already cached raises an exception
\* inside the write block, which never commits: no step of the store.
SavePost(post) ==
  /\ realm
  /\ ~HasId(table, post.id)
  /\ table' = Append(table, post)
  /\ UNCHANGED realm

\* Without a Realm the post is dropped: savePosts catches NoRealmSet.
SavePostWithoutRealm ==
  /\ ~realm
  /\ UNCHANGED storeVars

\* Mutant: the filter is dropped.
MarkAllAsRead(id) ==
  /\ OpenRealm
  /\ table' = [i \in DOMAIN table |-> [table[i] EXCEPT !.read = TRUE]]

MarkAsRead(id) ==
  /\ OpenRealm
  /\ table' = [i \in DOMAIN table |->
                 IF table[i].id = id THEN [table[i] EXCEPT !.read = TRUE]
                                     ELSE table[i]]

SetFavorite(id, isFavorite) ==
  /\ OpenRealm
  /\ table' = [i \in DOMAIN table |->
                 IF table[i].id = id
                   THEN [table[i] EXCEPT !.isFavorite = isFavorite]
                   ELSE table[i]]

Delete(id) ==
  /\ OpenRealm
  /\ table' = DeleteId(table, id)

DeleteAll ==
  /\ OpenRealm
  /\ table' = <<>>

\* The process ends: the file stays, the store object does not.
Close ==
  /\ realm' = FALSE
  /\ UNCHANGED table

StoreNext ==
  \/ LoadPostsFromRealm
  \/ \E post \in Post : SavePost(post)
  \/ SavePostWithoutRealm
  \/ \E id \in PostId :
       \/ MarkAsRead(id)
       \/ \E b \in BOOLEAN : SetFavorite(id, b)
       \/ Delete(id)
  \/ DeleteAll
  \/ Close

StoreSpec == StoreInit /\ [][StoreNext]_storeVars

-----------------------------------------------------------------------------
(***************************************************************************)
(* Properties.                                                             *)
(***************************************************************************)

\* The cache never holds two rows for one post, whatever calls are made in
\* whatever order: savePost adds, deletions move rows, nothing copies one.
OneRowPerPost == UniqueIds(table)

MarksOf(row) == [isFavorite |-> row.isFavorite, read |-> row.read]

\* The posts of a table and their marks, the order of the rows forgotten.
MarksIn(rows) == [id \in Ids(rows) |-> MarksOf(rows[IndexOf(rows, id)])]

CachedMarks == MarksIn(table)

Library == INSTANCE PostLibrary WITH library <- CachedMarks

\* The store keeps what PostLibrary promises: each call changes the posts it
\* names and no other, although a deletion moves another post's row.
StoreIsLibrary == Library!Spec
=============================================================================
