--------------------------- MODULE MCDetailCache ---------------------------
(***************************************************************************)
(* Small instances of DetailCache: one post with several comments or none, *)
(* and one with a single row, as every user's is.                          *)
(***************************************************************************)
EXTENDS DetailCache

CONSTANTS t1, t2, v1, v2

CommentsAnswers == [k \in Key |-> IF k = 1 THEN {<<1, 2>>, <<>>}
                                  ELSE {<<3>>}]

Tickets == {t1, t2}
Viewers == {v1, v2}
=============================================================================
