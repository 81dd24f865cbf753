----------------------------- MODULE RealmTable -----------------------------
(***************************************************************************)
(* One object table of the Realm database file, as the three stores of the *)
(* app use it.  A table is the sequence of its rows; a row is a record     *)
(* whose field "id" is the primary key.  Only committed tables are         *)
(* modelled: each store call runs its Realm.write block to the commit on   *)
(* the main thread, and a block that does not commit leaves the file as it *)
(* was.                                                                    *)
(***************************************************************************)
EXTENDS Naturals, Sequences

\* The primary keys in the table.
Ids(table) == {table[i].id : i \in DOMAIN table}

HasId(table, id) == id \in Ids(table)

\* The position of the row that realm.objects(T).filter("id = ...") finds.
IndexOf(table, id) == CHOOSE i \in DOMAIN table : table[i].id = id

\* Removal from an unordered table: the last row takes the vacated place.
MoveLastOver(table, i) ==
  [j \in 1 .. Len(table) - 1 |-> IF j = i THEN table[Len(table)] ELSE table[j]]

\* realm.delete(realm.objects(T).filter("id = ...")): no match, no change.
DeleteId(table, id) ==
  IF HasId(table, id) THEN MoveLastOver(table, IndexOf(table, id)) ELSE table

\* No two rows share a primary key.
UniqueIds(table) ==
  \A i, j \in DOMAIN table : table[i].id = table[j].id => i = j

=============================================================================
