------------------------------- MODULE MCStar -------------------------------
(***************************************************************************)
(* SocialApp with a history variable: which details were left for the other*)
(* tab and came back.                                                      *)
(***************************************************************************)
EXTENDS MCSocialApp

\* The tabs whose detail has appeared again since it was opened.
VARIABLE returned

HistoryInit == AppInit /\ returned = {}

HistoryNext ==
  /\ AppNext
  /\ returned' = {v \in View : /\ captured'[v] # NoPost
                               /\ v \in returned \/ (v = tab' /\ tab' # tab)}

HistorySpec == HistoryInit /\ [][HistoryNext]_<<appVars, returned>>

\* Until its tab is left, the star of a post opened from the list of all posts
\* on a phone is what the cache holds, however often it is pressed.
StarIsRight ==
  Layout = "stack" /\ Settled /\ tab = "All" /\ IsOpen("All")
      /\ "All" \notin returned =>
    star["All"] = IsFavoriteInCache(captured["All"].id)
=============================================================================
