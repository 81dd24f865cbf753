-------------------------- MODULE PostStoreProofs --------------------------
(***************************************************************************)
(* PostStore for any set of post ids: its types, one row per post, and the *)
(* refinement of PostLibrary.                                              *)
(***************************************************************************)
EXTENDS PostStore, RealmTableProofs

StoreInv == StoreTypeOK /\ OneRowPerPost

\* MarkAsRead and SetFavorite write well-formed rows under the same keys.
LEMMA MarkedRows ==
  ASSUME StoreInv, NEW id \in PostId,
         MarkAsRead(id) \/ \E b \in BOOLEAN : SetFavorite(id, b)
  PROVE  /\ table' \in [DOMAIN table -> Post]
         /\ \A i \in DOMAIN table : table'[i].id = table[i].id
<1>1. \A i \in DOMAIN table : table[i] \in Post
  BY ElementOfSeq DEF StoreInv, StoreTypeOK
<1>2. CASE MarkAsRead(id)
  BY <1>1, <1>2 DEF MarkAsRead, Post
<1>3. CASE \E b \in BOOLEAN : SetFavorite(id, b)
  BY <1>1, <1>3 DEF SetFavorite, Post
<1>4. QED
  BY <1>2, <1>3

\* Every call of the store keeps its invariant.
LEMMA StoreStep == StoreInv /\ [StoreNext]_storeVars => StoreInv'
<1> SUFFICES ASSUME StoreInv, [StoreNext]_storeVars
             PROVE  StoreInv'
  OBVIOUS
<1> USE DEF StoreInv, StoreTypeOK, OneRowPerPost
<1>1. CASE LoadPostsFromRealm
  BY <1>1 DEF LoadPostsFromRealm, OpenRealm
<1>2. ASSUME NEW post \in Post, SavePost(post)
      PROVE  StoreInv'
  BY <1>2, AppendRow DEF SavePost
<1>3. CASE SavePostWithoutRealm
  BY <1>3 DEF SavePostWithoutRealm, storeVars
<1>4. ASSUME NEW id \in PostId,
             MarkAsRead(id) \/ \E b \in BOOLEAN : SetFavorite(id, b)
      PROVE  StoreInv'
  <2>1. table' \in Seq(Post) /\ UniqueIds(table')
    BY <1>4, MarkedRows, RewriteRows
  <2>2. realm'
    BY <1>4 DEF MarkAsRead, SetFavorite, OpenRealm
  <2>3. QED
    BY <2>1, <2>2
<1>5. ASSUME NEW id \in PostId, Delete(id)
      PROVE  StoreInv'
  BY <1>5, DeleteIdRows DEF Delete, OpenRealm
<1>6. CASE DeleteAll
  BY <1>6, NoRows DEF DeleteAll, OpenRealm
<1>7. CASE Close
  BY <1>7 DEF Close
<1>8. CASE UNCHANGED storeVars
  BY <1>8 DEF storeVars
<1>9. QED
  BY <1>1, <1>2, <1>3, <1>4, <1>5, <1>6, <1>7, <1>8 DEF StoreNext

\* Over every sequence of calls the store holds posts, and each only once.
THEOREM StoreInvariant == StoreSpec => []StoreInv
<1>1. StoreInit => StoreInv
  BY NoRows DEF StoreInit, StoreInv, StoreTypeOK, OneRowPerPost
<1>2. QED
  BY <1>1, StoreStep, PTL DEF StoreSpec

\* The types of the store's state.
THEOREM StoreTypeCorrect == StoreSpec => []StoreTypeOK
<1>1. StoreInv => StoreTypeOK
  BY DEF StoreInv
<1>2. QED
  BY <1>1, StoreInvariant, PTL

\* The cache never holds two rows for one post.
THEOREM OneRowPerPostHolds == StoreSpec => []OneRowPerPost
<1>1. StoreInv => OneRowPerPost
  BY DEF StoreInv
<1>2. QED
  BY <1>1, StoreInvariant, PTL

-----------------------------------------------------------------------------
(***************************************************************************)
(* The store implements the library.                                       *)
(***************************************************************************)

\* The two marks of a post are marks of the library.
LEMMA MarksOfPost ==
  ASSUME NEW post \in Post
  PROVE  MarksOf(post) \in Library!Marks
BY DEF Post, MarksOf, Library!Marks

\* Marks are equal when their fields are.
LEMMA MarksAreFields ==
  ASSUME NEW marks \in Library!Marks
  PROVE  marks = [isFavorite |-> marks.isFavorite, read |-> marks.read]
BY DEF Library!Marks

\* Setting the mark "read" in marks.
LEMMA ReadMarks ==
  ASSUME NEW marks \in Library!Marks
  PROVE  [marks EXCEPT !.read = TRUE] =
           [isFavorite |-> marks.isFavorite, read |-> TRUE]
<1> DEFINE after == [marks EXCEPT !.read = TRUE]
<1>1. after \in Library!Marks
  BY DEF Library!Marks
<1>2. after.read = TRUE /\ after.isFavorite = marks.isFavorite
  BY DEF Library!Marks
<1>3. after = [isFavorite |-> after.isFavorite, read |-> after.read]
  BY <1>1, MarksAreFields
<1>4. QED
  BY <1>2, <1>3

\* Setting the mark "isFavorite" in marks.
LEMMA FavorMarks ==
  ASSUME NEW marks \in Library!Marks, NEW isFavorite \in BOOLEAN
  PROVE  [marks EXCEPT !.isFavorite = isFavorite] =
           [isFavorite |-> isFavorite, read |-> marks.read]
<1> DEFINE after == [marks EXCEPT !.isFavorite = isFavorite]
<1>1. after \in Library!Marks
  BY DEF Library!Marks
<1>2. after.isFavorite = isFavorite /\ after.read = marks.read
  BY DEF Library!Marks
<1>3. after = [isFavorite |-> after.isFavorite, read |-> after.read]
  BY <1>1, MarksAreFields
<1>4. QED
  BY <1>2, <1>3

\* With unique keys, the marks of a post are those of its row.
LEMMA MarksOfKey ==
  ASSUME NEW rows, UniqueIds(rows), NEW i \in DOMAIN rows
  PROVE  /\ rows[i].id \in Ids(rows)
         /\ MarksIn(rows)[rows[i].id] = MarksOf(rows[i])
<1>1. rows[i].id \in Ids(rows)
  BY DEF Ids
<1>2. IndexOf(rows, rows[i].id) = i
  BY IndexOfRow
<1>3. QED
  BY <1>1, <1>2 DEF MarksIn

\* savePost adds the post with its marks and leaves every other as it was.
LEMMA SavePostAdds ==
  ASSUME StoreInv, NEW post \in Post, SavePost(post)
  PROVE  Library!Add(post.id, MarksOf(post))
<1>1. /\ table \in Seq(Post)
      /\ UniqueIds(table)
      /\ table' = Append(table, post)
      /\ post.id \notin Ids(table)
  BY DEF StoreInv, StoreTypeOK, OneRowPerPost, SavePost, HasId
<1>2. /\ UniqueIds(table')
      /\ Ids(table') = Ids(table) \cup {post.id}
      /\ \A k \in DOMAIN table' :
           table'[k] = post \/ \E j \in DOMAIN table : table'[k] = table[j]
  BY <1>1, AppendRow DEF HasId
<1>3. ASSUME NEW id \in Ids(table)
      PROVE  MarksIn(table')[id] = MarksIn(table)[id]
  <2>1. PICK k \in DOMAIN table' : table'[k].id = id
    BY <1>2 DEF Ids
  <2>2. table'[k] # post
    BY <1>1, <1>3, <2>1
  <2>3. PICK j \in DOMAIN table : table'[k] = table[j]
    BY <1>2, <2>2
  <2>4. MarksIn(table')[id] = MarksOf(table'[k])
    BY <1>2, <2>1, MarksOfKey
  <2>5. MarksIn(table)[table[j].id] = MarksOf(table[j])
    BY <1>1, MarksOfKey
  <2>6. QED
    BY <2>1, <2>3, <2>4, <2>5
<1>4. MarksIn(table')[post.id] = MarksOf(post)
  <2>1. PICK k \in DOMAIN table' : table'[k].id = post.id
    BY <1>2 DEF Ids
  <2>2. table'[k] = post
    BY <1>1, <1>2, <2>1 DEF Ids
  <2>3. QED
    BY <1>2, <2>2, MarksOfKey
<1>5. DOMAIN CachedMarks = Ids(table) /\ DOMAIN CachedMarks' = Ids(table')
  BY DEF CachedMarks, MarksIn
<1>6. CachedMarks' = [k \in Ids(table) \cup {post.id} |->
                        IF k = post.id THEN MarksOf(post) ELSE CachedMarks[k]]
  <2>1. CachedMarks' = [k \in Ids(table') |-> CachedMarks'[k]]
    BY DEF CachedMarks, MarksIn
  <2>2. \A k \in Ids(table') :
          CachedMarks'[k] =
            IF k = post.id THEN MarksOf(post) ELSE CachedMarks[k]
    BY <1>2, <1>3, <1>4 DEF CachedMarks
  <2>3. QED
    BY <1>2, <2>1, <2>2
<1>7. QED
  BY <1>1, <1>5, <1>6 DEF Library!Add

\* Marks that rewrite a row in place: the library after the call, where every
\* key keeps its marks but those of id.
LEMMA MarkedLibrary ==
  ASSUME StoreInv, NEW id \in PostId,
         MarkAsRead(id) \/ \E b \in BOOLEAN : SetFavorite(id, b)
  PROVE  /\ UniqueIds(table')
         /\ DOMAIN CachedMarks = Ids(table)
         /\ DOMAIN CachedMarks' = Ids(table)
         /\ \A i \in DOMAIN table :
              /\ i \in DOMAIN table'
              /\ CachedMarks[table[i].id] = MarksOf(table[i])
              /\ CachedMarks'[table[i].id] = MarksOf(table'[i])
<1>1. table \in Seq(Post) /\ UniqueIds(table)
  BY DEF StoreInv, StoreTypeOK, OneRowPerPost
<1>2. /\ table' \in [DOMAIN table -> Post]
      /\ \A i \in DOMAIN table : table'[i].id = table[i].id
  BY MarkedRows
<1>3. /\ UniqueIds(table')
      /\ Ids(table') = Ids(table)
  BY <1>1, <1>2, RewriteRows
<1>4. DOMAIN CachedMarks = Ids(table) /\ DOMAIN CachedMarks' = Ids(table)
  BY <1>3 DEF CachedMarks, MarksIn
<1>5. ASSUME NEW i \in DOMAIN table
      PROVE  /\ i \in DOMAIN table'
             /\ CachedMarks[table[i].id] = MarksOf(table[i])
             /\ CachedMarks'[table[i].id] = MarksOf(table'[i])
  <2>1. i \in DOMAIN table' /\ table'[i].id = table[i].id
    BY <1>2
  <2>2. MarksIn(table)[table[i].id] = MarksOf(table[i])
    BY <1>1, MarksOfKey
  <2>3. MarksIn(table')[table'[i].id] = MarksOf(table'[i])
    BY <1>3, <2>1, MarksOfKey
  <2>4. QED
    BY <2>1, <2>2, <2>3 DEF CachedMarks
<1>6. QED
  BY <1>3, <1>4, <1>5

\* markAsRead sets one mark of one post, or none when the post is gone.
LEMMA MarkAsReadReads ==
  ASSUME StoreInv, NEW id \in PostId, MarkAsRead(id)
  PROVE  Library!Read(id) \/ UNCHANGED CachedMarks
<1>1. \A i \in DOMAIN table :
        /\ table[i] \in Post
        /\ table'[i] = IF table[i].id = id THEN [table[i] EXCEPT !.read = TRUE]
                                          ELSE table[i]
  BY ElementOfSeq DEF StoreInv, StoreTypeOK, MarkAsRead
<1>2. CachedMarks = [k \in Ids(table) |-> CachedMarks[k]]
  BY DEF CachedMarks, MarksIn
<1>3. CachedMarks' = [k \in Ids(table) |-> CachedMarks'[k]]
  <2>1. CachedMarks' = [k \in Ids(table') |-> CachedMarks'[k]]
    BY DEF CachedMarks, MarksIn
  <2>2. Ids(table') = Ids(table)
    BY MarkedLibrary, <2>1
  <2>3. QED
    BY <2>1, <2>2
<1>4. ASSUME NEW k \in Ids(table)
      PROVE  CachedMarks'[k] = IF k = id
                                 THEN [CachedMarks[k] EXCEPT !.read = TRUE]
                                 ELSE CachedMarks[k]
  <2>1. PICK i \in DOMAIN table : table[i].id = k
    BY DEF Ids
  <2>2. /\ CachedMarks[k] = MarksOf(table[i])
        /\ CachedMarks'[k] = MarksOf(table'[i])
    BY <2>1, MarkedLibrary
  <2>3. CASE k = id
    <3>1. MarksOf(table'[i]) = [isFavorite |-> table[i].isFavorite,
                                read |-> TRUE]
      BY <1>1, <2>1, <2>3 DEF MarksOf, Post
    <3>2. [MarksOf(table[i]) EXCEPT !.read = TRUE] =
            [isFavorite |-> table[i].isFavorite, read |-> TRUE]
      BY <1>1, MarksOfPost, ReadMarks DEF MarksOf
    <3>3. QED
      BY <2>2, <2>3, <3>1, <3>2
  <2>4. CASE k # id
    BY <1>1, <2>1, <2>2, <2>4
  <2>5. QED
    BY <2>3, <2>4
<1>5. CASE id \in Ids(table)
  <2>1. CachedMarks' = [CachedMarks EXCEPT ![id].read = TRUE]
    BY <1>2, <1>3, <1>4, <1>5
  <2>2. QED
    BY <1>2, <1>5, <2>1 DEF Library!Read
<1>6. CASE id \notin Ids(table)
  BY <1>2, <1>3, <1>4, <1>6
<1>7. QED
  BY <1>5, <1>6

\* setFavorite sets the other mark of one post, or none.
LEMMA SetFavoriteFavors ==
  ASSUME StoreInv, NEW id \in PostId, NEW b \in BOOLEAN, SetFavorite(id, b)
  PROVE  Library!Favor(id, b) \/ UNCHANGED CachedMarks
<1>1. \A i \in DOMAIN table :
        /\ table[i] \in Post
        /\ table'[i] = IF table[i].id = id
                         THEN [table[i] EXCEPT !.isFavorite = b]
                         ELSE table[i]
  BY ElementOfSeq DEF StoreInv, StoreTypeOK, SetFavorite
<1>2. /\ CachedMarks = [k \in Ids(table) |-> CachedMarks[k]]
      /\ CachedMarks' = [k \in Ids(table') |-> CachedMarks'[k]]
  BY DEF CachedMarks, MarksIn
<1>3. CachedMarks' = [k \in Ids(table) |-> CachedMarks'[k]]
  BY <1>2, MarkedLibrary
<1>4. ASSUME NEW k \in Ids(table)
      PROVE  CachedMarks'[k] = IF k = id
                                 THEN [CachedMarks[k] EXCEPT !.isFavorite = b]
                                 ELSE CachedMarks[k]
  <2>1. PICK i \in DOMAIN table : table[i].id = k
    BY DEF Ids
  <2>2. /\ CachedMarks[k] = MarksOf(table[i])
        /\ CachedMarks'[k] = MarksOf(table'[i])
    BY <2>1, MarkedLibrary
  <2>3. CASE k = id
    <3>1. MarksOf(table'[i]) = [isFavorite |-> b, read |-> table[i].read]
      BY <1>1, <2>1, <2>3 DEF MarksOf, Post
    <3>2. [MarksOf(table[i]) EXCEPT !.isFavorite = b] =
            [isFavorite |-> b, read |-> table[i].read]
      BY <1>1, MarksOfPost, FavorMarks DEF MarksOf
    <3>3. QED
      BY <2>2, <2>3, <3>1, <3>2
  <2>4. CASE k # id
    BY <1>1, <2>1, <2>2, <2>4
  <2>5. QED
    BY <2>3, <2>4
<1>5. CASE id \in Ids(table)
  <2>1. CachedMarks' = [CachedMarks EXCEPT ![id].isFavorite = b]
    BY <1>2, <1>3, <1>4, <1>5
  <2>2. QED
    BY <1>2, <1>5, <2>1 DEF Library!Favor
<1>6. CASE id \notin Ids(table)
  BY <1>2, <1>3, <1>4, <1>6
<1>7. QED
  BY <1>5, <1>6

\* delete removes one post, or none, though it moves the row of another.
LEMMA DeleteRemoves ==
  ASSUME StoreInv, NEW id \in PostId, Delete(id)
  PROVE  Library!Remove(id) \/ UNCHANGED CachedMarks
<1>1. /\ table \in Seq(Post)
      /\ UniqueIds(table)
      /\ table' = DeleteId(table, id)
  BY DEF StoreInv, StoreTypeOK, OneRowPerPost, Delete
<1>2. CASE id \notin Ids(table)
  BY <1>1, <1>2 DEF DeleteId, HasId, CachedMarks
<1>3. CASE id \in Ids(table)
  <2>1. /\ UniqueIds(table')
        /\ Ids(table') = Ids(table) \ {id}
        /\ \A k \in DOMAIN table' :
             \E j \in DOMAIN table : table'[k] = table[j]
    BY <1>1, DeleteIdRows
  <2>2. ASSUME NEW x \in Ids(table')
        PROVE  CachedMarks'[x] = CachedMarks[x]
    <3>1. PICK k \in DOMAIN table' : table'[k].id = x
      BY DEF Ids
    <3>2. PICK j \in DOMAIN table : table'[k] = table[j]
      BY <2>1
    <3>3. MarksIn(table')[x] = MarksOf(table'[k])
      BY <2>1, <3>1, MarksOfKey
    <3>4. MarksIn(table)[table[j].id] = MarksOf(table[j])
      BY <1>1, MarksOfKey
    <3>5. QED
      BY <3>1, <3>2, <3>3, <3>4 DEF CachedMarks
  <2>3. /\ DOMAIN CachedMarks = Ids(table)
        /\ CachedMarks' = [x \in Ids(table') |-> CachedMarks'[x]]
    BY DEF CachedMarks, MarksIn
  <2>4. CachedMarks' = [x \in DOMAIN CachedMarks \ {id} |-> CachedMarks[x]]
    BY <2>1, <2>2, <2>3
  <2>5. QED
    BY <1>3, <2>3, <2>4 DEF Library!Remove
<1>4. QED
  BY <1>2, <1>3

\* An empty table is the empty library.
LEMMA NoMarks ==
  ASSUME table = <<>>
  PROVE  CachedMarks = Library!Nothing
BY NoRows DEF CachedMarks, MarksIn, Library!Nothing

\* Every call of the store is a call of the library, or changes nothing in it.
LEMMA LibraryStep ==
  StoreInv /\ [StoreNext]_storeVars => [Library!Next]_CachedMarks
<1> SUFFICES ASSUME StoreInv, [StoreNext]_storeVars
             PROVE  [Library!Next]_CachedMarks
  OBVIOUS
<1>1. CASE UNCHANGED table
  BY <1>1 DEF CachedMarks
<1>2. ASSUME NEW post \in Post, SavePost(post)
      PROVE  Library!Next
  <2>1. post.id \in PostId /\ MarksOf(post) \in Library!Marks
    BY MarksOfPost DEF Post
  <2>2. QED
    BY <1>2, <2>1, SavePostAdds DEF Library!Next
<1>3. ASSUME NEW id \in PostId, MarkAsRead(id)
      PROVE  [Library!Next]_CachedMarks
  BY <1>3, MarkAsReadReads DEF Library!Next
<1>4. ASSUME NEW id \in PostId, NEW b \in BOOLEAN, SetFavorite(id, b)
      PROVE  [Library!Next]_CachedMarks
  BY <1>4, SetFavoriteFavors DEF Library!Next
<1>5. ASSUME NEW id \in PostId, Delete(id)
      PROVE  [Library!Next]_CachedMarks
  BY <1>5, DeleteRemoves DEF Library!Next
<1>6. CASE DeleteAll
  <2>1. CachedMarks' = Library!Nothing
    BY <1>6, NoRows DEF DeleteAll, CachedMarks, MarksIn, Library!Nothing
  <2>2. QED
    BY <2>1 DEF Library!Next, Library!Clear
<1>7. QED
  BY <1>1, <1>2, <1>3, <1>4, <1>5, <1>6
     DEF StoreNext, storeVars, LoadPostsFromRealm, SavePostWithoutRealm, Close

\* The store implements the library: each of its calls adds, reads, favors or
\* removes the posts it names, or clears them all, and touches no other.
THEOREM StoreImplementsLibrary == StoreSpec => StoreIsLibrary
<1>1. StoreInit => Library!Init
  BY NoMarks DEF StoreInit, Library!Init
<1>2. QED
  BY <1>1, LibraryStep, StoreInvariant, PTL
     DEF StoreSpec, StoreIsLibrary, Library!Spec
=============================================================================
