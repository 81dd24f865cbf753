-------------------------- MODULE RealmTableProofs --------------------------
(***************************************************************************)
(* What the operations on a Realm table do to its rows and keys, for every *)
(* table.                                                                  *)
(***************************************************************************)
EXTENDS RealmTable, SequenceTheorems, TLAPS

\* The position that a filter on the primary key finds holds that key.
LEMMA IndexOfKey ==
  ASSUME NEW table, NEW id, HasId(table, id)
  PROVE  /\ IndexOf(table, id) \in DOMAIN table
         /\ table[IndexOf(table, id)].id = id
  BY DEF HasId, Ids, IndexOf

\* With unique keys, the position found is the only one with that key.
LEMMA IndexOfRow ==
  ASSUME NEW table, UniqueIds(table), NEW i \in DOMAIN table
  PROVE  /\ HasId(table, table[i].id)
         /\ IndexOf(table, table[i].id) = i
<1>1. HasId(table, table[i].id)
  BY DEF HasId, Ids
<1>2. QED
  BY <1>1, IndexOfKey DEF UniqueIds

\* An empty table.
LEMMA NoRows ==
  ASSUME NEW Row
  PROVE  <<>> \in Seq(Row) /\ UniqueIds(<<>>) /\ Ids(<<>>) = {}
BY EmptySeq DEF UniqueIds, Ids

\* Moving the last row over another removes one row and keeps the others.
LEMMA MoveLastOverRows ==
  ASSUME NEW Row, NEW table \in Seq(Row), NEW i \in DOMAIN table
  PROVE  /\ MoveLastOver(table, i) \in Seq(Row)
         /\ Len(MoveLastOver(table, i)) = Len(table) - 1
         /\ DOMAIN MoveLastOver(table, i) = 1 .. Len(table) - 1
         /\ \A j \in 1 .. Len(table) - 1 :
              MoveLastOver(table, i)[j] =
                IF j = i THEN table[Len(table)] ELSE table[j]
<1>1. /\ Len(table) \in Nat
      /\ DOMAIN table = 1 .. Len(table)
  BY LenProperties
<1>2. Len(table) - 1 \in Nat
  BY <1>1
<1>3. MoveLastOver(table, i) \in [1 .. Len(table) - 1 -> Row]
  BY <1>1, <1>2, ElementOfSeq DEF MoveLastOver
<1>4. MoveLastOver(table, i) \in Seq(Row)
  BY <1>2, <1>3, SeqDef
<1>5. Len(MoveLastOver(table, i)) = Len(table) - 1
  BY <1>2, <1>3, <1>4, LenProperties
<1>6. QED
  BY <1>3, <1>4, <1>5 DEF MoveLastOver

\* Deleting a key leaves the other rows, each once, and no row of that key.
LEMMA DeleteIdRows ==
  ASSUME NEW Row, NEW table \in Seq(Row), UniqueIds(table), NEW id
  PROVE  /\ DeleteId(table, id) \in Seq(Row)
         /\ UniqueIds(DeleteId(table, id))
         /\ Ids(DeleteId(table, id)) = Ids(table) \ {id}
         /\ \A k \in DOMAIN DeleteId(table, id) :
              \E j \in DOMAIN table : DeleteId(table, id)[k] = table[j]
<1>1. CASE ~HasId(table, id)
  BY <1>1 DEF DeleteId, HasId
<1>2. CASE HasId(table, id)
  <2> DEFINE gone == IndexOf(table, id)
             rest == MoveLastOver(table, gone)
             from(k) == IF k = gone THEN Len(table) ELSE k
  <2>1. /\ gone \in DOMAIN table
        /\ table[gone].id = id
    BY <1>2, IndexOfKey
  <2>2. /\ Len(table) \in Nat
        /\ DOMAIN table = 1 .. Len(table)
    BY LenProperties
  <2>3. DeleteId(table, id) = rest
    BY <1>2 DEF DeleteId
  <2> HIDE DEF gone
  <2>4. /\ rest \in Seq(Row)
        /\ DOMAIN rest = 1 .. Len(table) - 1
        /\ \A k \in 1 .. Len(table) - 1 : rest[k] = table[from(k)]
    BY <2>1, MoveLastOverRows
  <2> HIDE DEF rest
  <2>5. \A k \in DOMAIN rest : from(k) \in DOMAIN table \ {gone}
    BY <2>1, <2>2, <2>4
  <2>6. \A j \in DOMAIN table \ {gone} : \E k \in DOMAIN rest : from(k) = j
    <3> SUFFICES ASSUME NEW j \in DOMAIN table \ {gone}
                 PROVE  \E k \in DOMAIN rest : from(k) = j
      OBVIOUS
    <3>1. CASE j = Len(table)
      <4>1. gone \in DOMAIN rest /\ from(gone) = j
        BY <2>1, <2>2, <2>4, <3>1
      <4>2. QED
        BY <4>1
    <3>2. CASE j # Len(table)
      <4>1. j \in DOMAIN rest /\ from(j) = j
        BY <2>1, <2>2, <2>4, <3>2
      <4>2. QED
        BY <4>1
    <3>3. QED
      BY <3>1, <3>2
  <2>7. \A k, l \in DOMAIN rest : from(k) = from(l) => k = l
    BY <2>1, <2>2, <2>4
  <2>8. \A k \in DOMAIN rest : rest[k] = table[from(k)]
    BY <2>4
  <2> HIDE DEF from
  <2>9. UniqueIds(rest)
    BY <2>5, <2>7, <2>8 DEF UniqueIds
  <2>10. Ids(rest) = Ids(table) \ {id}
    <3>1. ASSUME NEW k \in DOMAIN rest
          PROVE  rest[k].id \in Ids(table) \ {id}
      BY <2>1, <2>5, <2>8 DEF Ids, UniqueIds
    <3>2. ASSUME NEW j \in DOMAIN table, table[j].id # id
          PROVE  table[j].id \in Ids(rest)
      BY <2>1, <2>6, <2>8, <3>2 DEF Ids
    <3>3. QED
      BY <3>1, <3>2 DEF Ids
  <2>11. QED
    BY <2>3, <2>4, <2>5, <2>8, <2>9, <2>10
<1>3. QED
  BY <1>1, <1>2

\* Adding a row under a new key adds that key and keeps every other row.
LEMMA AppendRow ==
  ASSUME NEW Row, NEW table \in Seq(Row), UniqueIds(table),
         NEW row \in Row, ~HasId(table, row.id)
  PROVE  /\ Append(table, row) \in Seq(Row)
         /\ UniqueIds(Append(table, row))
         /\ Ids(Append(table, row)) = Ids(table) \cup {row.id}
         /\ \A k \in DOMAIN Append(table, row) :
              \/ Append(table, row)[k] = row
              \/ \E j \in DOMAIN table : Append(table, row)[k] = table[j]
<1> DEFINE more == Append(table, row)
<1>1. /\ Len(table) \in Nat
      /\ DOMAIN table = 1 .. Len(table)
  BY LenProperties
<1>2. /\ more \in Seq(Row)
      /\ Len(more) = Len(table) + 1
      /\ \A i \in 1 .. Len(table) : more[i] = table[i]
      /\ more[Len(table) + 1] = row
  BY AppendProperties
<1>3. DOMAIN more = 1 .. Len(table) + 1
  BY <1>2, LenProperties
<1> HIDE DEF more
<1>4. \A i \in DOMAIN more :
        \/ i \in DOMAIN table /\ more[i] = table[i]
        \/ i = Len(table) + 1 /\ more[i] = row
  BY <1>1, <1>2, <1>3
<1>5. \A i \in DOMAIN table : i \in DOMAIN more /\ more[i] = table[i]
  BY <1>1, <1>2, <1>3
<1>6. Len(table) + 1 \in DOMAIN more
  BY <1>1, <1>3
<1>7. UniqueIds(more)
  BY <1>4 DEF UniqueIds, HasId, Ids
<1>8. Ids(more) = Ids(table) \cup {row.id}
  BY <1>2, <1>4, <1>5, <1>6 DEF Ids
<1>9. QED
  BY <1>2, <1>4, <1>7, <1>8 DEF more

\* Rewriting rows in place, their keys left alone, keeps the keys unique.
LEMMA RewriteRows ==
  ASSUME NEW Row, NEW table \in Seq(Row), UniqueIds(table),
         NEW after \in [DOMAIN table -> Row],
         \A i \in DOMAIN table : after[i].id = table[i].id
  PROVE  /\ after \in Seq(Row)
         /\ UniqueIds(after)
         /\ Ids(after) = Ids(table)
<1>1. /\ Len(table) \in Nat
      /\ DOMAIN table = 1 .. Len(table)
  BY LenProperties
<1>2. after \in Seq(Row)
  BY <1>1, SeqDef
<1>3. UniqueIds(after)
  BY DEF UniqueIds
<1>4. Ids(after) = Ids(table)
  BY DEF Ids
<1>5. QED
  BY <1>2, <1>3, <1>4
=============================================================================
