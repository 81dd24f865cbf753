---------------------------- MODULE DetailCache ----------------------------
(***************************************************************************)
(* The related content of a post: DataRequest.getComments for CommentView, *)
(* with a post as the key, and DataRequest.getUsers for UserView, with the *)
(* author as the key.  The two are the same code on two stores; each is an *)
(* instance of this module.                                                *)
(*                                                                         *)
(* A viewer is a place where a detail can be on screen: the stack of a tab.*)
(* Opening a post makes a new view with the @State as declared; closing it *)
(* loses the view, and its loads go on and reach nobody.  The view is a row*)
(* of a List, so it appears again whenever it is scrolled back, and when   *)
(* its tab is selected again.                                              *)
(***************************************************************************)
EXTENDS DetailStore

CONSTANTS
  Answers,  \* per key, the lists of row ids the server may answer
  Viewer,
  Ticket,   \* bound: one ticket per load that may be in flight at once
  Closed,   \* the key of a viewer with nothing on screen
  Nobody    \* the viewer of a load whose view is gone

ASSUME AnswersAssumption == Answers \in [Key -> SUBSET Seq(RowId)]
\* The service's content is fixed: a key has one answer beside the empty one,
\* and a row is in one place of one answer.
ASSUME ContentAssumption ==
  \A k \in Key : \A a, b \in Answers[k] : a = <<>> \/ b = <<>> \/ a = b
ASSUME RowAssumption ==
  \A k, l \in Key : \A a \in Answers[k], b \in Answers[l] :
    \A i \in DOMAIN a, j \in DOMAIN b : a[i] = b[j] => k = l /\ (a = b => i = j)
ASSUME ClosedAssumption == Closed \notin Key
ASSUME NobodyAssumption == Nobody \notin Viewer

VARIABLES
  process,    \* the app: running, ended from outside, or ended by a trap
  requests,   \* the loads that have left the main thread
  save,       \* the batch that saveComments or saveUsers is writing
  where,      \* postId or userID of the view in each viewer
  shown,      \* its comments or users
  isLoading   \* its spinner

viewVars == <<where, shown, isLoading>>
vars == <<table, realm, process, requests, save, where, shown, isLoading>>

Free == [stage |-> "free", viewer |-> Nobody, key |-> Closed]
Request == [stage : {"free", "delayed", "requested"},
            viewer : Viewer \cup {Nobody}, key : Key \cup {Closed}]

NoSave == [viewer |-> Nobody, key |-> Closed, batch |-> <<>>, next |-> 1]
Save == [viewer : Viewer \cup {Nobody}, key : Key \cup {Closed},
         batch : Seq(Row), next : Nat \ {0}]

CacheTypeOK ==
  /\ StoreTypeOK
  /\ process \in {"running", "killed", "trapped"}
  /\ requests \in [Ticket -> Request]
  /\ save \in Save
  /\ where \in [Viewer -> Key \cup {Closed}]
  /\ shown \in [Viewer -> SUBSET Row]
  /\ isLoading \in [Viewer -> BOOLEAN]

AllFree == [t \in Ticket |-> Free]
AllClosed == [v \in Viewer |-> Closed]
NothingShown == [v \in Viewer |-> {}]
AllLoading == [v \in Viewer |-> TRUE]

\* A fresh install, launched, with no detail on screen.
Init ==
  /\ StoreInit
  /\ process = "running"
  /\ requests = AllFree
  /\ save = NoSave
  /\ where = AllClosed
  /\ shown = NothingShown
  /\ isLoading = AllLoading

\* The main thread is free to run the next block.
Idle == process = "running" /\ save = NoSave

-----------------------------------------------------------------------------
(***************************************************************************)
(* Loading.                                                                *)
(***************************************************************************)

\* The completion of a load on a list of rows, if its view is still there.
Complete(v, rows) ==
  IF v \in Viewer
    THEN /\ shown' = [shown EXCEPT ![v] = rows]
         /\ isLoading' = [isLoading EXCEPT ![v] = FALSE]
    ELSE UNCHANGED <<shown, isLoading>>

\* Mutant: the filter is dropped, any cached row answers.
GetAny(v, k) ==
  /\ LoadRowsFromRealm
  /\ \/ /\ table # <<>>
        /\ Complete(v, ToSet(table))
        /\ UNCHANGED requests
     \/ /\ table = <<>>
        /\ \E t \in Ticket :
             /\ requests[t] = Free
             /\ requests' = [requests EXCEPT
                 ![t] = [stage |-> "delayed", viewer |-> v, key |-> k]]
        /\ UNCHANGED <<shown, isLoading>>

\* Mutant: the cached rows are not looked at.
GetAnew(v, k) ==
  /\ LoadRowsFromRealm
  /\ \E t \in Ticket :
       /\ requests[t] = Free
       /\ requests' = [requests EXCEPT
            ![t] = [stage |-> "delayed", viewer |-> v, key |-> k]]
  /\ UNCHANGED <<shown, isLoading>>

\* getComments(from: k) or getUsers(k): a cached row answers at once.
Get(v, k) ==
  /\ LoadRowsFromRealm
  /\ \/ /\ Cached(k) # {}
        /\ Complete(v, Cached(k))
        /\ UNCHANGED requests
     \/ /\ Cached(k) = {}
        /\ \E t \in Ticket :
             /\ requests[t] = Free
             /\ requests' = [requests EXCEPT
                 ![t] = [stage |-> "delayed", viewer |-> v, key |-> k]]
        /\ UNCHANGED <<shown, isLoading>>

\* A post is opened: the new view appears.
Open(v, k) ==
  /\ Idle
  /\ where[v] = Closed
  /\ where' = [where EXCEPT ![v] = k]
  /\ Get(v, k)
  /\ UNCHANGED <<process, save>>

\* onAppear of a view that was there: scrolled back, or its tab selected.
Reappear(v) ==
  /\ Idle
  /\ where[v] # Closed
  /\ Get(v, where[v])
  /\ UNCHANGED <<process, save, where>>

\* Mutant: a load finds its viewer again, whatever view is there by then.
LeaveLoads(v) ==
  /\ Idle
  /\ where[v] # Closed
  /\ where' = [where EXCEPT ![v] = Closed]
  /\ shown' = [shown EXCEPT ![v] = {}]
  /\ isLoading' = [isLoading EXCEPT ![v] = TRUE]
  /\ UNCHANGED <<storeVars, process, requests, save>>

\* Back to the list, or the row of the open post is gone.
Leave(v) ==
  /\ Idle
  /\ where[v] # Closed
  /\ where' = [where EXCEPT ![v] = Closed]
  /\ shown' = [shown EXCEPT ![v] = {}]
  /\ isLoading' = [isLoading EXCEPT ![v] = TRUE]
  /\ requests' = [t \in Ticket |->
                    IF requests[t].viewer = v
                      THEN [requests[t] EXCEPT !.viewer = Nobody]
                      ELSE requests[t]]
  /\ UNCHANGED <<storeVars, process, save>>

\* asyncAfter's two seconds are over: the request is sent.
StartRequest(t) ==
  /\ Idle
  /\ requests[t].stage = "delayed"
  /\ requests' = [requests EXCEPT ![t].stage = "requested"]
  /\ UNCHANGED <<storeVars, process, save, viewVars>>

\* Mutant: the completion returns on nil before it resets the spinner.
ReceiveNothingSilently(t) ==
  /\ Idle
  /\ requests[t].stage = "requested"
  /\ requests' = [requests EXCEPT ![t] = Free]
  /\ UNCHANGED <<storeVars, process, save, viewVars>>

\* No data, or data that does not decode: completion(nil).
ReceiveNothing(t) ==
  /\ Idle
  /\ requests[t].stage = "requested"
  /\ requests' = [requests EXCEPT ![t] = Free]
  /\ isLoading' = [v \in Viewer |->
                     isLoading[v] /\ v # requests[t].viewer]
  /\ UNCHANGED <<storeVars, process, save, where, shown>>

Fetched(answer, k) ==
  [i \in DOMAIN answer |-> [id |-> answer[i], key |-> k]]

\* A decoded answer goes to saveCommentsToRealm or saveUsersToRealm.
ReceiveRows(t) ==
  /\ Idle
  /\ requests[t].stage = "requested"
  /\ requests[t].key \in Key
  /\ \E answer \in Answers[requests[t].key] :
       save' = [viewer |-> requests[t].viewer, key |-> requests[t].key,
                batch |-> Fetched(answer, requests[t].key), next |-> 1]
  /\ requests' = [requests EXCEPT ![t] = Free]
  /\ OpenRealm
  /\ UNCHANGED <<table, process, viewVars>>

\* One turn of saveComments or saveUsers.
SaveNext ==
  /\ process = "running"
  /\ save.key \in Key
  /\ save.next <= Len(save.batch)
  /\ SaveRow(save.batch[save.next])
  /\ save' = [save EXCEPT !.next = save.next + 1]
  /\ UNCHANGED <<process, requests, viewVars>>

\* Mutant: the rows are saved and the completion is not called.
FinishSaveSilently ==
  /\ process = "running"
  /\ save.key \in Key
  /\ save.next > Len(save.batch)
  /\ save' = NoSave
  /\ UNCHANGED <<storeVars, process, requests, viewVars>>

\* completion(networkComments), with the batch that was decoded.
FinishSave ==
  /\ process = "running"
  /\ save.key \in Key
  /\ save.next > Len(save.batch)
  /\ Complete(save.viewer, ToSet(save.batch))
  /\ save' = NoSave
  /\ UNCHANGED <<storeVars, process, requests, where>>

-----------------------------------------------------------------------------
(***************************************************************************)
(* The process.                                                            *)
(***************************************************************************)

\* The process ends: what was in memory is lost, the table is not.
End(cause) ==
  /\ process = "running"
  /\ process' = cause
  /\ Close
  /\ requests' = AllFree
  /\ save' = NoSave
  /\ where' = AllClosed
  /\ shown' = NothingShown
  /\ isLoading' = AllLoading

\* From outside (the user, the system), or by a try! on a file error.
Kill == End("killed")

\* realm.add raises on a primary key that exists; nothing catches it.
TrapOnDuplicate ==
  /\ save.key \in Key
  /\ save.next <= Len(save.batch)
  /\ HasId(table, save.batch[save.next].id)
  /\ End("trapped")

Launch ==
  /\ process # "running"
  /\ process' = "running"
  /\ UNCHANGED <<storeVars, requests, save, viewVars>>

Receive(t) == ReceiveNothing(t) \/ ReceiveRows(t)

Saving == SaveNext \/ FinishSave \/ TrapOnDuplicate

Next ==
  \/ \E v \in Viewer :
       \/ \E k \in Key : Open(v, k)
       \/ Reappear(v)
       \/ Leave(v)
  \/ \E t \in Ticket : StartRequest(t) \/ Receive(t)
  \/ Saving
  \/ Kill
  \/ Launch

Spec == Init /\ [][Next]_vars

(***************************************************************************)
(* As for the posts: the main queue is serial and first in first out, and  *)
(* URLSession calls a task's handler exactly once.                         *)
(***************************************************************************)
Fairness ==
  /\ \A t \in Ticket : SF_vars(StartRequest(t)) /\ SF_vars(Receive(t))
  /\ WF_vars(Saving)

FairSpec == Spec /\ Fairness

-----------------------------------------------------------------------------
(***************************************************************************)
(* Properties.                                                             *)
(***************************************************************************)

\* A view that shows rows shows all the rows cached under its own key: not
\* those of the post that was open before it, not part of a batch.
ShownInFull ==
  \A v \in Viewer : shown[v] # {} => shown[v] = Cached(where[v])

\* A spinner that turns in an open view has a load that will stop it, however
\* many views were opened, left and opened again meanwhile.
SpinnerHasLoad ==
  \A v \in Viewer :
    where[v] # Closed /\ isLoading[v] =>
      \/ save.viewer = v
      \/ \E t \in Ticket : requests[t].stage # "free" /\ requests[t].viewer = v

\* The process never ends by a trap of its own.
NeverTraps == process # "trapped"

\* The spinner of an open view stops, unless the view is left or the process
\* ends first.
SpinnerStops ==
  \A v \in Viewer :
    where[v] # Closed /\ isLoading[v] ~>
      ~isLoading[v] \/ where[v] = Closed \/ process # "running"

-----------------------------------------------------------------------------
(***************************************************************************)
(* A user who never has two loads of one key in flight.                    *)
(***************************************************************************)

LoadsDiffer ==
  \A t, u \in Ticket :
    t # u /\ requests[t].stage # "free" => requests[t].key # requests[u].key

CalmSpec == Init /\ [][Next /\ LoadsDiffer']_vars

(***************************************************************************)
(* The same user, and a process that does not end in the middle of a save: *)
(* then the cache is a read-through cache.  During a save its key is not   *)
(* held yet, since no view runs until the save is over.                    *)
(***************************************************************************)
WholeNext == Next /\ LoadsDiffer' /\ (Kill => save = NoSave)

WholeSpec == Init /\ [][WholeNext]_vars

Held == {k \in Key : Cached(k) # {}} \ {save.key}

Screen == [v \in Viewer |-> [key |-> where[v], shows |-> shown[v] # {}]]

Abstract == INSTANCE ReadThrough WITH held <- Held, screen <- Screen

\* Each key is fetched once, arrives whole, stays, and is what every view of it
\* shows from then on, whatever loads fail, overlap or outlive their view.
IsReadThrough == Abstract!Spec
=============================================================================
