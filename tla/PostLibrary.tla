---------------------------- MODULE PostLibrary ----------------------------
(***************************************************************************)
(* What the cache of posts promises, whatever the database does inside: a  *)
(* collection of posts, at most one per identifier, each with its marks.   *)
(* A call touches the posts it names and no other.  PostStore implements   *)
(* this specification.                                                     *)
(***************************************************************************)
CONSTANT PostId

VARIABLE library  \* the cached posts: a function from their ids to marks

Marks == [isFavorite : BOOLEAN, read : BOOLEAN]

Nothing == [id \in {} |-> {}]

Init == library = Nothing

\* A post that is not cached is added; a cached one is never overwritten.
Add(id, marks) ==
  /\ id \notin DOMAIN library
  /\ library' = [k \in DOMAIN library \cup {id} |->
                   IF k = id THEN marks ELSE library[k]]

Read(id) ==
  /\ id \in DOMAIN library
  /\ library' = [library EXCEPT ![id].read = TRUE]

Favor(id, isFavorite) ==
  /\ id \in DOMAIN library
  /\ library' = [library EXCEPT ![id].isFavorite = isFavorite]

Remove(id) ==
  /\ id \in DOMAIN library
  /\ library' = [k \in DOMAIN library \ {id} |-> library[k]]

Clear == library' = Nothing

Next ==
  \/ \E id \in PostId :
       \/ \E marks \in Marks : Add(id, marks)
       \/ Read(id)
       \/ \E b \in BOOLEAN : Favor(id, b)
       \/ Remove(id)
  \/ Clear

Spec == Init /\ [][Next]_library
=============================================================================
