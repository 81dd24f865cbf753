---------------------------- MODULE ReadThrough ----------------------------
(***************************************************************************)
(* What a read-through cache promises to the views in front of it: the     *)
(* content of a key is fetched once, arrives whole, stays, and is what     *)
(* every view of the key shows from then on; until then they show nothing. *)
(***************************************************************************)
CONSTANTS
  Key,
  Viewer,
  Closed  \* the key of a viewer that is not on screen

VARIABLES
  held,    \* the keys whose content is cached
  screen   \* what each viewer is on, and whether it shows the content

vars == <<held, screen>>

Shut == [key |-> Closed, shows |-> FALSE]

Init ==
  /\ held = {}
  /\ screen = [v \in Viewer |-> Shut]

\* A viewer that comes on screen shows what is held.
Open(v, k) ==
  /\ screen' = [screen EXCEPT ![v] = [key |-> k, shows |-> k \in held]]
  /\ UNCHANGED held

\* The content arrives, is kept, and is given to any viewers that wait for it.
Fetch(k) ==
  /\ k \notin held
  /\ held' = held \cup {k}
  /\ \E waiting \in SUBSET {v \in Viewer : screen[v].key = k} :
       screen' = [v \in Viewer |->
                    IF v \in waiting THEN [screen[v] EXCEPT !.shows = TRUE]
                                     ELSE screen[v]]

Leave(v) ==
  /\ screen' = [screen EXCEPT ![v] = Shut]
  /\ UNCHANGED held

LeaveAll ==
  /\ screen' = [v \in Viewer |-> Shut]
  /\ UNCHANGED held

Next ==
  \/ \E v \in Viewer, k \in Key : Open(v, k)
  \/ \E k \in Key : Fetch(k)
  \/ \E v \in Viewer : Leave(v)
  \/ LeaveAll

Spec == Init /\ [][Next]_vars
=============================================================================
