---------------------------- MODULE MCSocialApp ----------------------------
(***************************************************************************)
(* Small instances of SocialApp.                                           *)
(***************************************************************************)
EXTENDS SocialApp

CONSTANTS t1, t2

Tickets == {t1, t2}
OneTicket == {t1}
Symmetry == Permutations(Ticket)
FullAnswers == {<<1, 2, 3>>}
TwoPosts == {<<1, 2>>}

IsFavoriteInCache(id) == \E row \in ToSet(table) : row.id = id /\ row.isFavorite

-----------------------------------------------------------------------------
(***************************************************************************)
(* The app as the README of the repository describes it.                   *)
(***************************************************************************)

\* "Favorite posts should have a star indicator": so has the open one.
FavoriteHasStar ==
  Settled /\ IsOpen(tab) /\ IsFavoriteInCache(captured[tab].id) => star[tab]
=============================================================================
