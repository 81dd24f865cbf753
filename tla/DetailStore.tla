---------------------------- MODULE DetailStore ----------------------------
(***************************************************************************)
(* CommentStore and UserStore (Persistence/): the same calls on a table of *)
(* comments, looked up by their post, and on a table of users, looked up   *)
(* by their own id.  A row keeps its primary key and the key it is looked  *)
(* up by; the rest of it is fixed by the primary key.                      *)
(*                                                                         *)
(* Each call runs on the main thread and is one step; saveComments and     *)
(* saveUsers, which commit one transaction per row, are one step per row.  *)
(***************************************************************************)
EXTENDS RealmTable, SequencesExt

CONSTANTS
  RowId,  \* the primary keys
  Key     \* what rows are looked up by: the posts, or the users

VARIABLES
  table,  \* the committed rows, on disk
  realm   \* whether the store's "var realm: Realm?" is set, in memory

storeVars == <<table, realm>>

Row == [id : RowId, key : Key]

StoreTypeOK ==
  /\ table \in Seq(Row)
  /\ realm \in BOOLEAN

\* A fresh install: no rows, and no Realm set until the first call.
StoreInit ==
  /\ table = <<>>
  /\ realm = FALSE

\* The rows that realm.objects(T).filter finds under a key, as a set: the
\* views show them, and no code uses their order.
Cached(k) == {row \in ToSet(table) : row.key = k}

OpenRealm == realm' = TRUE

LoadRowsFromRealm ==
  /\ OpenRealm
  /\ UNCHANGED table

\* Mutant: managedObject() forgets postId, which keeps its default.
SaveRowWithDefaultKey(row) ==
  /\ realm
  /\ ~HasId(table, row.id)
  /\ table' = Append(table, [row EXCEPT !.key = 0])
  /\ UNCHANGED realm

\* Mutant: the row is created whether its primary key exists or not.
SaveRowTwice(row) ==
  /\ realm
  /\ table' = Append(table, row)
  /\ UNCHANGED realm

\* One turn of saveComments or saveUsers.  A primary key that exists raises
\* an exception inside the write block, which never commits.
SaveRow(row) ==
  /\ realm
  /\ ~HasId(table, row.id)
  /\ table' = Append(table, row)
  /\ UNCHANGED realm

\* Without a Realm the row is dropped: NoRealmSet is thrown and caught.
SaveRowWithoutRealm ==
  /\ ~realm
  /\ UNCHANGED storeVars

\* deleteAll, which only the tests call.
DeleteAllRows ==
  /\ OpenRealm
  /\ table' = <<>>

\* The process ends: the file stays, the store object does not.
Close ==
  /\ realm' = FALSE
  /\ UNCHANGED table

StoreNext ==
  \/ LoadRowsFromRealm
  \/ \E row \in Row : SaveRow(row)
  \/ SaveRowWithoutRealm
  \/ DeleteAllRows
  \/ Close

StoreSpec == StoreInit /\ [][StoreNext]_storeVars

-----------------------------------------------------------------------------
\* The store never holds two rows with one primary key: a save adds whatever
\* arrives, and an answer that arrives twice must not be added twice.
OneRowPerId == UniqueIds(table)
=============================================================================
