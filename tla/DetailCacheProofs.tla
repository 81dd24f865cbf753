------------------------- MODULE DetailCacheProofs -------------------------
(***************************************************************************)
(* DetailStore and DetailCache for any rows, keys, viewers, answers and    *)
(* number of loads in flight.                                              *)
(***************************************************************************)
EXTENDS DetailCache, RealmTableProofs

-----------------------------------------------------------------------------
(***************************************************************************)
(* The store.                                                              *)
(***************************************************************************)

StoreInv == StoreTypeOK /\ OneRowPerId

\* Every call of the store keeps its invariant.
LEMMA StoreStep == StoreInv /\ [StoreNext]_storeVars => StoreInv'
<1> SUFFICES ASSUME StoreInv, [StoreNext]_storeVars
             PROVE  StoreInv'
  OBVIOUS
<1> USE DEF StoreInv, StoreTypeOK, OneRowPerId
<1>1. CASE LoadRowsFromRealm
  BY <1>1 DEF LoadRowsFromRealm, OpenRealm
<1>2. ASSUME NEW row \in Row, SaveRow(row)
      PROVE  StoreInv'
  BY <1>2, AppendRow DEF SaveRow
<1>3. CASE SaveRowWithoutRealm
  BY <1>3 DEF SaveRowWithoutRealm, storeVars
<1>4. CASE DeleteAllRows
  BY <1>4, NoRows DEF DeleteAllRows, OpenRealm
<1>5. CASE Close
  BY <1>5 DEF Close
<1>6. CASE UNCHANGED storeVars
  BY <1>6 DEF storeVars
<1>7. QED
  BY <1>1, <1>2, <1>3, <1>4, <1>5, <1>6 DEF StoreNext

\* Whatever calls are made in whatever order, the store of comments or of users
\* holds no primary key twice.
THEOREM OneRowPerIdHolds == StoreSpec => []OneRowPerId
<1>1. StoreInit => StoreInv
  BY NoRows DEF StoreInit, StoreInv, StoreTypeOK, OneRowPerId
<1>2. StoreInv => OneRowPerId
  BY DEF StoreInv
<1>3. QED
  BY <1>1, <1>2, StoreStep, PTL DEF StoreSpec

\* Adding a row adds it under its key and under no other.
LEMMA CachedAfterSave ==
  ASSUME StoreTypeOK, NEW row \in Row, SaveRow(row)
  PROVE  \A k : Cached(k)' = IF k = row.key THEN Cached(k) \cup {row}
                                            ELSE Cached(k)
<1>1. /\ table \in Seq(Row)
      /\ table' = Append(table, row)
  BY DEF StoreTypeOK, SaveRow
<1>2. ToSet(table') = ToSet(table) \cup {row}
  <2>1. /\ Len(table) \in Nat
        /\ DOMAIN table = 1 .. Len(table)
    BY <1>1, LenProperties
  <2>2. /\ table' \in Seq(Row)
        /\ Len(table') = Len(table) + 1
        /\ table'[Len(table) + 1] = row
        /\ \A i \in 1 .. Len(table) : table'[i] = table[i]
    BY <1>1, AppendProperties
  <2>3. DOMAIN table' = 1 .. Len(table) + 1
    BY <2>2, LenProperties
  <2>4. \A i \in DOMAIN table' : i \in DOMAIN table \/ i = Len(table) + 1
    BY <2>1, <2>3
  <2>5. \A i \in DOMAIN table : i \in DOMAIN table'
    BY <2>1, <2>3
  <2>6. Len(table) + 1 \in DOMAIN table'
    BY <2>1, <2>3
  <2>7. ToSet(table') \subseteq ToSet(table) \cup {row}
    BY <2>1, <2>2, <2>4 DEF ToSet
  <2>8. ToSet(table) \cup {row} \subseteq ToSet(table')
    BY <2>1, <2>2, <2>5, <2>6 DEF ToSet
  <2>9. QED
    BY <2>7, <2>8
<1>3. QED
  BY <1>2 DEF Cached

-----------------------------------------------------------------------------
(***************************************************************************)
(* Types.                                                                  *)
(***************************************************************************)

\* The cache uses the store by its calls alone.
LEMMA StoreOfCacheStep ==
  CacheTypeOK /\ [Next]_vars => [StoreNext]_storeVars
<1> SUFFICES ASSUME CacheTypeOK, [Next]_vars
             PROVE  [StoreNext]_storeVars
  OBVIOUS
<1>1. ASSUME NEW v \in Viewer, (\E k \in Key : Open(v, k)) \/ Reappear(v)
      PROVE  StoreNext
  BY <1>1 DEF Open, Reappear, Get, StoreNext
<1>2. ASSUME NEW v \in Viewer, Leave(v)
      PROVE  UNCHANGED storeVars
  BY <1>2 DEF Leave
<1>3. ASSUME NEW t \in Ticket, StartRequest(t) \/ ReceiveNothing(t)
      PROVE  UNCHANGED storeVars
  BY <1>3 DEF StartRequest, ReceiveNothing
<1>4. ASSUME NEW t \in Ticket, ReceiveRows(t)
      PROVE  StoreNext
  BY <1>4 DEF ReceiveRows, StoreNext, LoadRowsFromRealm
<1>5. CASE SaveNext
  <2>1. save.batch \in Seq(Row) /\ save.next \in Nat \ {0}
    BY DEF CacheTypeOK, Save
  <2>2. save.batch[save.next] \in Row
    BY <1>5, <2>1, LenProperties, ElementOfSeq DEF SaveNext
  <2>3. QED
    BY <1>5, <2>2 DEF SaveNext, StoreNext
<1>6. CASE FinishSave
  BY <1>6 DEF FinishSave
<1>7. ASSUME NEW cause, End(cause)
      PROVE  StoreNext
  BY <1>7 DEF End, StoreNext
<1>8. CASE Launch
  BY <1>8 DEF Launch
<1>9. CASE UNCHANGED vars
  BY <1>9 DEF vars, storeVars
<1>10. QED
  BY <1>1, <1>2, <1>3, <1>4, <1>5, <1>6, <1>7, <1>8, <1>9
     DEF Next, Receive, Saving, TrapOnDuplicate, Kill

\* Two intervals from 1 are equal only when their ends are.
LEMMA SameInterval ==
  ASSUME NEW m \in Nat, NEW n \in Nat, 1 .. m = 1 .. n
  PROVE  m = n
<1>1. CASE m < n
  <2>1. n \in 1 .. n /\ n \notin 1 .. m
    BY <1>1
  <2>2. QED
    BY <2>1
<1>2. CASE n < m
  <2>1. m \in 1 .. m /\ m \notin 1 .. n
    BY <1>2
  <2>2. QED
    BY <2>1
<1>3. QED
  BY <1>1, <1>2

\* The rows made of an answer are rows under its key.
LEMMA FetchedRows ==
  ASSUME NEW k \in Key, NEW answer \in Answers[k]
  PROVE  /\ Fetched(answer, k) \in Seq(Row)
         /\ DOMAIN Fetched(answer, k) = DOMAIN answer
         /\ DOMAIN answer = 1 .. Len(answer)
         /\ Len(answer) \in Nat
         /\ Len(Fetched(answer, k)) = Len(answer)
<1>1. answer \in Seq(RowId)
  BY AnswersAssumption
<1>2. /\ Len(answer) \in Nat
      /\ DOMAIN answer = 1 .. Len(answer)
      /\ \A i \in DOMAIN answer : answer[i] \in RowId
  BY <1>1, LenProperties, ElementOfSeq
<1>3. Fetched(answer, k) \in [1 .. Len(answer) -> Row]
  BY <1>2 DEF Fetched, Row
<1>4. Fetched(answer, k) \in Seq(Row)
  BY <1>2, <1>3, SeqDef
<1>5. DOMAIN Fetched(answer, k) = DOMAIN answer
  BY DEF Fetched
<1>6. \A rows \in Seq(Row) :
        /\ DOMAIN rows = 1 .. Len(rows)
        /\ Len(rows) \in Nat
  BY LenProperties
<1>7. Len(Fetched(answer, k)) = Len(answer)
  <2>1. /\ DOMAIN Fetched(answer, k) = 1 .. Len(Fetched(answer, k))
        /\ Len(Fetched(answer, k)) \in Nat
    BY <1>4, <1>6
  <2>2. 1 .. Len(Fetched(answer, k)) = 1 .. Len(answer)
    BY <1>2, <1>5, <2>1
  <2>3. QED
    BY <1>2, <2>1, <2>2, SameInterval
<1>8. QED
  BY <1>2, <1>4, <1>5, <1>7

\* A call of getComments or getUsers writes well-formed state.
LEMMA GetTypes ==
  ASSUME CacheTypeOK, NEW v \in Viewer, NEW k \in Key, Get(v, k)
  PROVE  /\ requests' \in [Ticket -> Request]
         /\ shown' \in [Viewer -> SUBSET Row]
         /\ isLoading' \in [Viewer -> BOOLEAN]
<1> USE DEF CacheTypeOK
<1>1. CASE Complete(v, Cached(k)) /\ UNCHANGED requests
  <2>1. Cached(k) \subseteq Row
    BY ElementOfSeq DEF Cached, ToSet, StoreTypeOK
  <2>2. QED
    BY <1>1, <2>1 DEF Complete
<1>2. CASE /\ \E t \in Ticket :
                requests' = [requests EXCEPT ![t] =
                  [stage |-> "delayed", viewer |-> v, key |-> k]]
           /\ UNCHANGED <<shown, isLoading>>
  <2>1. [stage |-> "delayed", viewer |-> v, key |-> k] \in Request
    BY DEF Request
  <2>2. QED
    BY <1>2, <2>1
<1>3. QED
  BY <1>1, <1>2 DEF Get

\* Every step keeps the types of the state.
LEMMA CacheTypeStep ==
  CacheTypeOK /\ StoreTypeOK' /\ [Next]_vars => CacheTypeOK'
<1> SUFFICES ASSUME CacheTypeOK, StoreTypeOK', [Next]_vars
             PROVE  CacheTypeOK'
  OBVIOUS
<1> USE DEF CacheTypeOK
<1>1. /\ NoSave \in Save
      /\ Free \in Request
  BY EmptySeq DEF NoSave, Save, Free, Request
<1>2. ASSUME NEW v \in Viewer, NEW k \in Key, Open(v, k)
      PROVE  CacheTypeOK'
  BY <1>2, GetTypes DEF Open
<1>3. ASSUME NEW v \in Viewer, Reappear(v)
      PROVE  CacheTypeOK'
  <2>1. where[v] \in Key
    BY <1>3 DEF Reappear
  <2>2. QED
    BY <1>3, <2>1, GetTypes DEF Reappear
<1>4. ASSUME NEW v \in Viewer, Leave(v)
      PROVE  CacheTypeOK'
  <2>1. \A t \in Ticket : [requests[t] EXCEPT !.viewer = Nobody] \in Request
    BY DEF Request
  <2>2. requests' \in [Ticket -> Request]
    BY <1>4, <2>1 DEF Leave
  <2>3. QED
    BY <1>4, <2>2 DEF Leave
<1>5. ASSUME NEW t \in Ticket, StartRequest(t)
      PROVE  CacheTypeOK'
  <2>1. [requests[t] EXCEPT !.stage = "requested"] \in Request
    BY DEF Request
  <2>2. requests' \in [Ticket -> Request]
    BY <1>5, <2>1 DEF StartRequest
  <2>3. QED
    BY <1>5, <2>2 DEF StartRequest, viewVars
<1>6. ASSUME NEW t \in Ticket, ReceiveNothing(t)
      PROVE  CacheTypeOK'
  BY <1>1, <1>6 DEF ReceiveNothing
<1>7. ASSUME NEW t \in Ticket, ReceiveRows(t)
      PROVE  CacheTypeOK'
  <2>1. requests[t].viewer \in Viewer \cup {Nobody} /\ requests[t].key \in Key
    BY <1>7 DEF Request, ReceiveRows
  <2>2. save' \in Save
    BY <1>7, <2>1, FetchedRows DEF ReceiveRows, Save
  <2>3. requests' \in [Ticket -> Request]
    BY <1>1, <1>7 DEF ReceiveRows
  <2>4. QED
    BY <1>7, <2>2, <2>3 DEF ReceiveRows, viewVars
<1>8. CASE SaveNext
  <2>1. [save EXCEPT !.next = save.next + 1] \in Save
    BY DEF Save
  <2>2. QED
    BY <1>8, <2>1 DEF SaveNext, viewVars
<1>9. CASE FinishSave
  <2>1. ToSet(save.batch) \subseteq Row
    BY ElementOfSeq DEF Save, ToSet
  <2>2. shown' \in [Viewer -> SUBSET Row] /\ isLoading' \in [Viewer -> BOOLEAN]
    BY <1>9, <2>1 DEF FinishSave, Complete
  <2>3. QED
    BY <1>1, <1>9, <2>2 DEF FinishSave
<1>10. ASSUME NEW cause \in {"killed", "trapped"}, End(cause)
       PROVE  CacheTypeOK'
  BY <1>1, <1>10 DEF End, AllFree, AllClosed, NothingShown, AllLoading
<1>11. CASE Launch
  BY <1>11 DEF Launch, viewVars
<1>12. CASE UNCHANGED vars
  BY <1>12 DEF vars
<1>13. QED
  BY <1>2, <1>3, <1>4, <1>5, <1>6, <1>7, <1>8, <1>9, <1>10, <1>11, <1>12
     DEF Next, Receive, Saving, TrapOnDuplicate, Kill

TypeInv == CacheTypeOK /\ OneRowPerId

\* The types, and one row per primary key, are kept by every step.
LEMMA TypeInvStep == TypeInv /\ [Next]_vars => TypeInv'
<1>1. TypeInv /\ [Next]_vars => StoreInv'
  BY StoreOfCacheStep, StoreStep DEF TypeInv, StoreInv, CacheTypeOK
<1>2. QED
  BY <1>1, CacheTypeStep DEF TypeInv, StoreInv

\* A fresh install has the types.
LEMMA TypeInvInit == Init => TypeInv
<1> SUFFICES ASSUME Init
             PROVE  TypeInv
  OBVIOUS
<1>1. /\ NoSave \in Save
      /\ Free \in Request
  BY EmptySeq DEF NoSave, Save, Free, Request
<1>2. StoreTypeOK /\ OneRowPerId
  BY NoRows DEF Init, StoreInit, StoreTypeOK, OneRowPerId
<1>3. QED
  BY <1>1, <1>2
     DEF Init, TypeInv, CacheTypeOK, AllFree, AllClosed, NothingShown,
         AllLoading

\* The types of the whole state, for any number of viewers and of loads.
THEOREM CacheTypeCorrect == Spec => []CacheTypeOK
<1>1. TypeInv => CacheTypeOK
  BY DEF TypeInv
<1>2. QED
  BY <1>1, TypeInvInit, TypeInvStep, PTL DEF Spec

\* No row is stored twice, whichever answers arrive twice and whenever the
\* process ends.
THEOREM CacheOneRowPerId == Spec => []OneRowPerId
<1>1. TypeInv => OneRowPerId
  BY DEF TypeInv
<1>2. QED
  BY <1>1, TypeInvInit, TypeInvStep, PTL DEF Spec

-----------------------------------------------------------------------------
(***************************************************************************)
(* Spinners.                                                               *)
(***************************************************************************)

\* The load that a viewer waits for.
Waits(v) ==
  \/ save.viewer = v
  \/ \E t \in Ticket : requests[t].stage # "free" /\ requests[t].viewer = v

\* A call of getComments or getUsers stops the spinner or starts a load.
LEMMA GetSpinner ==
  ASSUME CacheTypeOK, SpinnerHasLoad, NEW v \in Viewer, NEW k \in Key,
         Get(v, k), UNCHANGED save,
         \A w \in Viewer : w # v => where'[w] = where[w]
  PROVE  SpinnerHasLoad'
<1> USE DEF CacheTypeOK
<1> SUFFICES ASSUME NEW w \in Viewer, where'[w] # Closed, isLoading'[w]
             PROVE  Waits(w)'
  BY DEF SpinnerHasLoad, Waits
<1>1. CASE Complete(v, Cached(k)) /\ UNCHANGED requests
  BY <1>1 DEF Complete, SpinnerHasLoad, Waits
<1>2. CASE /\ \E t \in Ticket :
                /\ requests[t] = Free
                /\ requests' = [requests EXCEPT ![t] =
                     [stage |-> "delayed", viewer |-> v, key |-> k]]
           /\ UNCHANGED <<shown, isLoading>>
  <2>1. PICK t \in Ticket :
          /\ requests[t] = Free
          /\ requests' = [requests EXCEPT ![t] =
               [stage |-> "delayed", viewer |-> v, key |-> k]]
    BY <1>2
  <2>2. /\ requests'[t].stage = "delayed"
        /\ requests'[t].viewer = v
        /\ \A u \in Ticket : u # t => requests'[u] = requests[u]
        /\ requests[t].stage = "free"
    BY <2>1 DEF Free
  <2>3. CASE w = v
    BY <2>2, <2>3 DEF Waits
  <2>4. CASE w # v
    BY <1>2, <2>2, <2>4 DEF SpinnerHasLoad, Waits
  <2>5. QED
    BY <2>3, <2>4
<1>3. QED
  BY <1>1, <1>2 DEF Get

\* Each step keeps a load behind the spinner of an open view.
LEMMA SpinnerStep ==
  CacheTypeOK /\ SpinnerHasLoad /\ [Next]_vars => SpinnerHasLoad'
<1> SUFFICES ASSUME CacheTypeOK, SpinnerHasLoad, [Next]_vars
             PROVE  SpinnerHasLoad'
  OBVIOUS
<1> USE DEF CacheTypeOK
<1>1. ASSUME NEW v \in Viewer, NEW k \in Key, Open(v, k)
      PROVE  SpinnerHasLoad'
  BY <1>1, GetSpinner DEF Open
<1>2. ASSUME NEW v \in Viewer, Reappear(v)
      PROVE  SpinnerHasLoad'
  <2>1. where[v] \in Key
    BY <1>2 DEF Reappear
  <2>2. QED
    BY <1>2, <2>1, GetSpinner DEF Reappear
<1>3. ASSUME NEW v \in Viewer, Leave(v)
      PROVE  SpinnerHasLoad'
  <2>1. ASSUME NEW t \in Ticket, requests[t].viewer # v
        PROVE  requests'[t] = requests[t]
    BY <1>3, <2>1 DEF Leave
  <2>2. where'[v] = Closed /\ save' = save
    BY <1>3 DEF Leave
  <2>3. ASSUME NEW w \in Viewer, w # v
        PROVE  where'[w] = where[w] /\ isLoading'[w] = isLoading[w]
    BY <1>3, <2>3 DEF Leave
  <2>4. QED
    BY <2>1, <2>2, <2>3 DEF SpinnerHasLoad
<1>4. ASSUME NEW t \in Ticket, StartRequest(t)
      PROVE  SpinnerHasLoad'
  <2>1. /\ requests'[t].stage = "requested"
        /\ requests'[t].viewer = requests[t].viewer
        /\ \A u \in Ticket : u # t => requests'[u] = requests[u]
    BY <1>4 DEF StartRequest, Request
  <2>2. QED
    BY <1>4, <2>1 DEF StartRequest, SpinnerHasLoad, viewVars
<1>5. ASSUME NEW t \in Ticket, ReceiveNothing(t)
      PROVE  SpinnerHasLoad'
  BY <1>5 DEF ReceiveNothing, SpinnerHasLoad
<1>6. ASSUME NEW t \in Ticket, ReceiveRows(t)
      PROVE  SpinnerHasLoad'
  <2>1. /\ save'.viewer = requests[t].viewer
        /\ \A u \in Ticket : u # t => requests'[u] = requests[u]
        /\ UNCHANGED viewVars
        /\ save = NoSave
    BY <1>6 DEF ReceiveRows, Idle
  <2>2. \A v \in Viewer : save.viewer # v
    BY <2>1, NobodyAssumption DEF NoSave
  <2>3. QED
    BY <2>1, <2>2 DEF SpinnerHasLoad, viewVars
<1>7. CASE SaveNext
  <2>1. save'.viewer = save.viewer
    BY <1>7 DEF SaveNext, Save
  <2>2. QED
    BY <1>7, <2>1 DEF SaveNext, SpinnerHasLoad, viewVars
<1>8. CASE FinishSave
  BY <1>8 DEF FinishSave, Complete, SpinnerHasLoad
<1>9. ASSUME NEW cause, End(cause)
      PROVE  SpinnerHasLoad'
  BY <1>9 DEF End, SpinnerHasLoad, AllClosed
<1>10. CASE Launch
  BY <1>10 DEF Launch, SpinnerHasLoad, viewVars
<1>11. CASE UNCHANGED vars
  BY <1>11 DEF vars, SpinnerHasLoad
<1>12. QED
  BY <1>1, <1>2, <1>3, <1>4, <1>5, <1>6, <1>7, <1>8, <1>9, <1>10, <1>11
     DEF Next, Receive, Saving, TrapOnDuplicate, Kill

\* A spinner that turns in an open view has a load that will stop it.
THEOREM SpinnerHasLoadHolds == Spec => []SpinnerHasLoad
<1>1. Init => SpinnerHasLoad
  BY DEF Init, SpinnerHasLoad, AllClosed
<1>2. QED
  BY <1>1, SpinnerStep, CacheTypeCorrect, PTL DEF Spec

-----------------------------------------------------------------------------
(***************************************************************************)
(* What is shown.  A view is filled from the cache, or from a batch that   *)
(* was just saved.  The second is right only if the key had no row before: *)
(* the batch begins with the row that any other save of the key began with,*)
(* so a save that gets past its first row found the key empty, and no view *)
(* of the key shows anything until that save is over.                      *)
(***************************************************************************)

LoadsFindTheirView ==
  /\ \A t \in Ticket : requests[t].viewer \in Viewer =>
       requests[t].key \in Key /\ where[requests[t].viewer] = requests[t].key
  /\ save.viewer \in Viewer => where[save.viewer] = save.key

BatchIsAnswer ==
  /\ save.key \in Key =>
       \E answer \in Answers[save.key] : save.batch = Fetched(answer, save.key)
  /\ save.next <= Len(save.batch) + 1

BatchIsCached ==
  save.next > 1 =>
    /\ save.key \in Key
    /\ Cached(save.key) = {save.batch[i] : i \in 1 .. save.next - 1}
    /\ \A v \in Viewer : where[v] = save.key => shown[v] = {}

FirstRowIsCached ==
  \A k \in Key : \A answer \in Answers[k] :
    Cached(k) # {} /\ answer # <<>> =>
      [id |-> answer[1], key |-> k] \in Cached(k)

ShownInv ==
  /\ LoadsFindTheirView
  /\ BatchIsAnswer
  /\ BatchIsCached
  /\ FirstRowIsCached
  /\ ShownInFull

\* Between saves nothing is said of a batch.
LEMMA NoBatch ==
  ASSUME save' = NoSave
  PROVE  /\ BatchIsAnswer'
         /\ BatchIsCached'
         /\ save'.viewer \notin Viewer
<1>1. /\ save'.key \notin Key
      /\ save'.next = 1
      /\ save'.batch = <<>>
      /\ save'.viewer = Nobody
  BY ClosedAssumption DEF NoSave
<1>2. Len(<<>>) = 0
  OBVIOUS
<1>3. QED
  BY <1>1, <1>2, NobodyAssumption DEF BatchIsAnswer, BatchIsCached

\* A step that leaves the table alone leaves what is cached of every key.
LEMMA SameTable ==
  ASSUME UNCHANGED table
  PROVE  /\ \A k : Cached(k)' = Cached(k)
         /\ FirstRowIsCached => FirstRowIsCached'
<1>1. \A k : Cached(k)' = Cached(k)
  BY DEF Cached
<1>2. QED
  BY <1>1 DEF FirstRowIsCached

\* getComments and getUsers fill a view with all that is cached of its key.
LEMMA GetShown ==
  ASSUME TypeInv, ShownInv, NEW v \in Viewer, NEW k \in Key, Get(v, k),
         save = NoSave, UNCHANGED save,
         where' = [where EXCEPT ![v] = k], where[v] \in {Closed, k}
  PROVE  ShownInv'
<1> USE DEF TypeInv, CacheTypeOK
<1>1. UNCHANGED table
  BY DEF Get, LoadRowsFromRealm
<1>2. FirstRowIsCached' /\ \A l : Cached(l)' = Cached(l)
  BY <1>1, SameTable DEF ShownInv
<1>3. BatchIsAnswer' /\ BatchIsCached' /\ save'.viewer \notin Viewer
  BY NoBatch
<1>4. where'[v] = k /\ \A w \in Viewer : w # v => where'[w] = where[w]
  OBVIOUS
<1>5. ShownInFull'
  <2>1. \A w \in Viewer : w # v => shown'[w] = shown[w]
    BY DEF Get, Complete
  <2>2. shown'[v] = Cached(k) \/ shown'[v] = shown[v]
    BY DEF Get, Complete
  <2>3. where[v] = Closed => shown[v] = {}
    <3>1. Cached(Closed) = {}
      <4>1. \A row \in ToSet(table) : row \in Row
        BY ElementOfSeq DEF ToSet, StoreTypeOK
      <4>2. \A row \in ToSet(table) : row.key \in Key
        BY <4>1 DEF Row
      <4>3. QED
        BY <4>2, ClosedAssumption DEF Cached
    <3>2. QED
      BY <3>1 DEF ShownInv, ShownInFull
  <2>4. QED
    BY <1>2, <1>4, <2>1, <2>2, <2>3 DEF ShownInv, ShownInFull
<1>6. LoadsFindTheirView'
  <2>1. ASSUME NEW t \in Ticket, requests'[t].viewer \in Viewer
        PROVE  /\ requests'[t].key \in Key
               /\ where'[requests'[t].viewer] = requests'[t].key
    <3>1. CASE requests'[t] = requests[t]
      <4>1. /\ requests[t].key \in Key
            /\ where[requests[t].viewer] = requests[t].key
        BY <2>1, <3>1 DEF ShownInv, LoadsFindTheirView
      <4>2. QED
        BY <1>4, <2>1, <3>1, <4>1, ClosedAssumption
    <3>2. CASE requests'[t] # requests[t]
      <4>1. requests'[t] = [stage |-> "delayed", viewer |-> v, key |-> k]
        BY <3>2 DEF Get
      <4>2. QED
        BY <1>4, <4>1
    <3>3. QED
      BY <3>1, <3>2
  <2>2. QED
    BY <1>3, <2>1 DEF LoadsFindTheirView
<1>7. QED
  BY <1>2, <1>3, <1>5, <1>6 DEF ShownInv

\* One more row of the batch is cached; the first finds the key empty.
LEMMA SaveNextShown ==
  ASSUME TypeInv, ShownInv, SaveNext
  PROVE  ShownInv'
<1> USE DEF TypeInv, CacheTypeOK
<1> DEFINE row == save.batch[save.next]
<1>1. /\ save.batch \in Seq(Row)
      /\ save.next \in Nat \ {0}
      /\ save.key \in Key
      /\ save.next <= Len(save.batch)
      /\ Len(save.batch) \in Nat
      /\ DOMAIN save.batch = 1 .. Len(save.batch)
  BY LenProperties DEF SaveNext, Save
<1>2. /\ save' = [save EXCEPT !.next = save.next + 1]
      /\ UNCHANGED <<requests, where, shown>>
      /\ SaveRow(row)
  BY DEF SaveNext, viewVars
<1>3. /\ save'.next = save.next + 1
      /\ save'.batch = save.batch
      /\ save'.key = save.key
      /\ save'.viewer = save.viewer
  BY <1>2 DEF Save
<1>4. PICK answer \in Answers[save.key] : save.batch = Fetched(answer, save.key)
  BY <1>1 DEF ShownInv, BatchIsAnswer
<1>5. /\ DOMAIN answer = DOMAIN save.batch
      /\ \A i \in DOMAIN answer :
           save.batch[i] = [id |-> answer[i], key |-> save.key]
  BY <1>4 DEF Fetched
<1>6. row \in Row /\ row.key = save.key /\ save.next \in DOMAIN answer
  <2>1. save.next \in DOMAIN save.batch
    BY <1>1
  <2>2. row \in Row
    BY <1>1, <2>1, ElementOfSeq
  <2>3. row = [id |-> answer[save.next], key |-> save.key]
    BY <1>5, <2>1
  <2>4. QED
    BY <1>5, <2>1, <2>2, <2>3
<1>7. \A k : Cached(k)' = IF k = save.key THEN Cached(k) \cup {row} ELSE Cached(k)
  BY <1>2, <1>6, CachedAfterSave
<1>8. answer # <<>>
  BY <1>6
<1>9. save.next = 1 => Cached(save.key) = {}
  <2> SUFFICES ASSUME save.next = 1, Cached(save.key) # {}
               PROVE  FALSE
    OBVIOUS
  <2>1. [id |-> answer[1], key |-> save.key] \in Cached(save.key)
    BY <1>1, <1>8 DEF ShownInv, FirstRowIsCached
  <2>2. row \in ToSet(table)
    BY <1>5, <1>6, <2>1 DEF Cached
  <2>3. HasId(table, row.id)
    BY <2>2 DEF ToSet, HasId, Ids
  <2>4. QED
    BY <1>2, <2>3 DEF SaveRow
<1>10. \A v \in Viewer : where[v] = save.key => shown[v] = {}
  BY <1>1, <1>9 DEF ShownInv, ShownInFull, BatchIsCached
<1>11. \A k : k = save.key =>
         Cached(k)' = {save.batch[i] : i \in 1 .. save.next}
  <2>1. Cached(save.key) = {save.batch[i] : i \in 1 .. save.next - 1}
    BY <1>1, <1>9 DEF ShownInv, BatchIsCached
  <2>2. 1 .. save.next = 1 .. save.next - 1 \cup {save.next}
    BY <1>1
  <2>3. {save.batch[i] : i \in 1 .. save.next}
          = {save.batch[i] : i \in 1 .. save.next - 1} \cup {row}
    BY <2>2
  <2>4. QED
    BY <1>7, <2>1, <2>3
<1>12. BatchIsCached'
  BY <1>1, <1>2, <1>3, <1>10, <1>11 DEF BatchIsCached, Cached
<1>13. BatchIsAnswer'
  BY <1>1, <1>3 DEF ShownInv, BatchIsAnswer
<1>14. LoadsFindTheirView'
  BY <1>2, <1>3 DEF ShownInv, LoadsFindTheirView
<1>15. ShownInFull'
  BY <1>2, <1>7, <1>10 DEF ShownInv, ShownInFull
<1>16. FirstRowIsCached'
  <2> SUFFICES ASSUME NEW k \in Key, NEW other \in Answers[k],
                      Cached(k)' # {}, other # <<>>
               PROVE  [id |-> other[1], key |-> k] \in Cached(k)'
    BY DEF FirstRowIsCached
  <2>1. CASE k # save.key
    BY <1>7, <2>1 DEF ShownInv, FirstRowIsCached
  <2>2. CASE k = save.key
    <3>1. other = answer
      BY <1>8, <2>2, ContentAssumption
    <3>2. 1 \in 1 .. save.next /\ 1 \in DOMAIN answer
      BY <1>1, <1>5
    <3>3. save.batch[1] \in Cached(k)'
      BY <1>11, <2>2, <3>2
    <3>4. QED
      BY <1>5, <2>2, <3>1, <3>2, <3>3
  <2>3. QED
    BY <2>1, <2>2
<1>17. QED
  BY <1>12, <1>13, <1>14, <1>15, <1>16 DEF ShownInv

\* The view gets the batch, which is by then all that is cached of its key.
LEMMA FinishSaveShown ==
  ASSUME TypeInv, ShownInv, FinishSave
  PROVE  ShownInv'
<1> USE DEF TypeInv, CacheTypeOK
<1>1. save' = NoSave /\ UNCHANGED <<table, requests, where>>
  BY DEF FinishSave, storeVars
<1>2. FirstRowIsCached' /\ \A k : Cached(k)' = Cached(k)
  BY <1>1, SameTable DEF ShownInv
<1>3. BatchIsAnswer' /\ BatchIsCached' /\ save'.viewer \notin Viewer
  BY <1>1, NoBatch
<1>4. LoadsFindTheirView'
  BY <1>1, <1>3 DEF ShownInv, LoadsFindTheirView
<1>5. ASSUME NEW v \in Viewer, shown'[v] # {}
      PROVE  shown'[v] = Cached(where[v])
  <2>1. CASE shown'[v] = shown[v]
    BY <1>5, <2>1 DEF ShownInv, ShownInFull
  <2>2. CASE v = save.viewer /\ shown'[v] = ToSet(save.batch)
    <3>1. /\ save.batch \in Seq(Row)
          /\ Len(save.batch) \in Nat
          /\ DOMAIN save.batch = 1 .. Len(save.batch)
          /\ save.next \in Nat
      BY LenProperties DEF Save
    <3>2. DOMAIN save.batch # {}
      BY <1>5, <2>2 DEF ToSet
    <3>3. save.next > 1 /\ save.next - 1 = Len(save.batch)
      BY <3>1, <3>2 DEF FinishSave, ShownInv, BatchIsAnswer
    <3>4. Cached(save.key) = {save.batch[i] : i \in DOMAIN save.batch}
      BY <3>1, <3>3 DEF ShownInv, BatchIsCached
    <3>5. where[v] = save.key
      BY <2>2 DEF ShownInv, LoadsFindTheirView
    <3>6. QED
      BY <2>2, <3>4, <3>5 DEF ToSet
  <2>3. QED
    BY <2>1, <2>2 DEF FinishSave, Complete
<1>6. ShownInFull'
  BY <1>1, <1>2, <1>5 DEF ShownInFull
<1>7. QED
  BY <1>2, <1>3, <1>4, <1>6 DEF ShownInv

\* A step on the loads alone, with no batch before it and none after it.
LEMMA LoadsShown ==
  ASSUME ShownInv, save' = NoSave, UNCHANGED <<table, where, shown>>,
         \A t \in Ticket :
           requests'[t].viewer \in Viewer =>
             /\ requests'[t].viewer = requests[t].viewer
             /\ requests'[t].key = requests[t].key
  PROVE  ShownInv'
<1>1. FirstRowIsCached' /\ \A k : Cached(k)' = Cached(k)
  BY SameTable DEF ShownInv
<1>2. BatchIsAnswer' /\ BatchIsCached' /\ save'.viewer \notin Viewer
  BY NoBatch
<1>3. LoadsFindTheirView'
  BY <1>2 DEF ShownInv, LoadsFindTheirView
<1>4. ShownInFull'
  BY <1>1 DEF ShownInv, ShownInFull
<1>5. QED
  BY <1>1, <1>2, <1>3, <1>4 DEF ShownInv

\* Leaving a view takes it from the loads that were to fill it.
LEMMA LeaveShown ==
  ASSUME TypeInv, ShownInv, NEW v \in Viewer, Leave(v)
  PROVE  ShownInv'
<1> USE DEF TypeInv, CacheTypeOK
<1>1. save' = NoSave /\ UNCHANGED table
  BY DEF Leave, Idle, storeVars
<1>2. FirstRowIsCached' /\ \A k : Cached(k)' = Cached(k)
  BY <1>1, SameTable DEF ShownInv
<1>3. BatchIsAnswer' /\ BatchIsCached' /\ save'.viewer \notin Viewer
  BY <1>1, NoBatch
<1>4. \A w \in Viewer : w # v => where'[w] = where[w] /\ shown'[w] = shown[w]
  BY DEF Leave
<1>5. shown'[v] = {}
  BY DEF Leave
<1>6. ASSUME NEW t \in Ticket, requests'[t].viewer \in Viewer
      PROVE  requests'[t] = requests[t] /\ requests[t].viewer # v
  <2>1. CASE requests[t].viewer = v
    <3>1. requests'[t] = [requests[t] EXCEPT !.viewer = Nobody]
      BY <2>1 DEF Leave
    <3>2. requests'[t].viewer = Nobody
      BY <3>1 DEF Request
    <3>3. QED
      BY <1>6, <3>2, NobodyAssumption
  <2>2. CASE requests[t].viewer # v
    BY <2>2 DEF Leave
  <2>3. QED
    BY <2>1, <2>2
<1>7. LoadsFindTheirView'
  BY <1>3, <1>4, <1>6 DEF ShownInv, LoadsFindTheirView
<1>8. ShownInFull'
  BY <1>2, <1>4, <1>5 DEF ShownInv, ShownInFull
<1>9. QED
  BY <1>2, <1>3, <1>7, <1>8 DEF ShownInv

\* A decoded answer becomes the batch.
LEMMA ReceiveRowsShown ==
  ASSUME TypeInv, ShownInv, NEW t \in Ticket, ReceiveRows(t)
  PROVE  ShownInv'
<1> USE DEF TypeInv, CacheTypeOK
<1>1. PICK answer \in Answers[requests[t].key] :
        save' = [viewer |-> requests[t].viewer, key |-> requests[t].key,
                 batch |-> Fetched(answer, requests[t].key), next |-> 1]
  BY DEF ReceiveRows
<1>2. /\ requests[t].key \in Key
      /\ requests' = [requests EXCEPT ![t] = Free]
      /\ UNCHANGED <<table, where, shown>>
  BY DEF ReceiveRows, viewVars
<1>3. FirstRowIsCached' /\ \A k : Cached(k)' = Cached(k)
  BY <1>2, SameTable DEF ShownInv
<1>4. BatchIsAnswer'
  <2>1. Len(Fetched(answer, requests[t].key)) \in Nat
    BY <1>2, FetchedRows
  <2>2. save'.next <= Len(save'.batch) + 1
    BY <1>1, <2>1
  <2>3. QED
    BY <1>1, <1>2, <2>2 DEF BatchIsAnswer
<1>5. BatchIsCached'
  BY <1>1 DEF BatchIsCached
<1>6. LoadsFindTheirView'
  <2>1. requests'[t].viewer \notin Viewer
    BY <1>2, NobodyAssumption DEF Free
  <2>2. \A u \in Ticket : u # t => requests'[u] = requests[u]
    BY <1>2
  <2>3. QED
    BY <1>1, <1>2, <2>1, <2>2 DEF ShownInv, LoadsFindTheirView
<1>7. ShownInFull'
  BY <1>2, <1>3 DEF ShownInv, ShownInFull
<1>8. QED
  BY <1>3, <1>4, <1>5, <1>6, <1>7 DEF ShownInv

\* The process ends: nothing is loading and nothing is shown.
LEMMA EndShown ==
  ASSUME ShownInv, NEW cause, End(cause)
  PROVE  ShownInv'
<1>1. save' = NoSave /\ UNCHANGED table
  BY DEF End, Close
<1>2. FirstRowIsCached'
  BY <1>1, SameTable DEF ShownInv
<1>3. BatchIsAnswer' /\ BatchIsCached' /\ save'.viewer \notin Viewer
  BY <1>1, NoBatch
<1>4. LoadsFindTheirView'
  BY <1>3, NobodyAssumption DEF End, AllFree, Free, LoadsFindTheirView
<1>5. ShownInFull'
  BY DEF End, NothingShown, ShownInFull
<1>6. QED
  BY <1>2, <1>3, <1>4, <1>5 DEF ShownInv

\* Each step keeps what the views show whole.
LEMMA ShownStep == TypeInv /\ ShownInv /\ [Next]_vars => ShownInv'
<1> SUFFICES ASSUME TypeInv, ShownInv, [Next]_vars
             PROVE  ShownInv'
  OBVIOUS
<1> USE DEF TypeInv, CacheTypeOK
<1>1. ASSUME NEW v \in Viewer, NEW k \in Key, Open(v, k)
      PROVE  ShownInv'
  BY <1>1, GetShown DEF Open, Idle
<1>2. ASSUME NEW v \in Viewer, Reappear(v)
      PROVE  ShownInv'
  <2>1. where[v] \in Key
    BY <1>2 DEF Reappear
  <2>2. where' = [where EXCEPT ![v] = where[v]]
    BY <1>2 DEF Reappear
  <2>3. QED
    BY <1>2, <2>1, <2>2, GetShown DEF Reappear, Idle
<1>3. ASSUME NEW v \in Viewer, Leave(v)
      PROVE  ShownInv'
  BY <1>3, LeaveShown
<1>4. ASSUME NEW t \in Ticket, StartRequest(t)
      PROVE  ShownInv'
  <2>1. /\ requests'[t].viewer = requests[t].viewer
        /\ requests'[t].key = requests[t].key
        /\ \A u \in Ticket : u # t => requests'[u] = requests[u]
    BY <1>4 DEF StartRequest, Request
  <2>2. save' = NoSave /\ UNCHANGED <<table, where, shown>>
    BY <1>4 DEF StartRequest, Idle, storeVars, viewVars
  <2>3. QED
    BY <2>1, <2>2, LoadsShown
<1>5. ASSUME NEW t \in Ticket, ReceiveNothing(t)
      PROVE  ShownInv'
  <2>1. /\ requests'[t] = Free
        /\ \A u \in Ticket : u # t => requests'[u] = requests[u]
    BY <1>5 DEF ReceiveNothing
  <2>2. requests'[t].viewer \notin Viewer
    BY <2>1, NobodyAssumption DEF Free
  <2>3. save' = NoSave /\ UNCHANGED <<table, where, shown>>
    BY <1>5 DEF ReceiveNothing, Idle, storeVars
  <2>4. QED
    BY <2>1, <2>2, <2>3, LoadsShown
<1>6. ASSUME NEW t \in Ticket, ReceiveRows(t)
      PROVE  ShownInv'
  BY <1>6, ReceiveRowsShown
<1>7. CASE SaveNext
  BY <1>7, SaveNextShown
<1>8. CASE FinishSave
  BY <1>8, FinishSaveShown
<1>9. ASSUME NEW cause, End(cause)
      PROVE  ShownInv'
  BY <1>9, EndShown
<1>10. ASSUME UNCHANGED <<table, requests, save, where, shown>>
       PROVE  ShownInv'
  <2>1. FirstRowIsCached' /\ \A k : Cached(k)' = Cached(k)
    BY <1>10, SameTable DEF ShownInv
  <2>2. BatchIsCached'
    BY <1>10 DEF ShownInv, BatchIsCached, Cached
  <2>3. BatchIsAnswer' /\ LoadsFindTheirView'
    BY <1>10 DEF ShownInv, BatchIsAnswer, LoadsFindTheirView
  <2>4. ShownInFull'
    BY <1>10, <2>1 DEF ShownInv, ShownInFull
  <2>5. QED
    BY <2>1, <2>2, <2>3, <2>4 DEF ShownInv
<1>11. CASE Launch
  BY <1>10, <1>11 DEF Launch, storeVars, viewVars
<1>12. CASE UNCHANGED vars
  BY <1>10, <1>12 DEF vars
<1>13. QED
  BY <1>1, <1>2, <1>3, <1>4, <1>5, <1>6, <1>7, <1>8, <1>9, <1>11, <1>12
     DEF Next, Receive, Saving, TrapOnDuplicate, Kill

\* At the start nothing is cached, loading or shown.
LEMMA ShownInit == Init => ShownInv
<1> SUFFICES ASSUME Init
             PROVE  ShownInv
  OBVIOUS
<1>1. \A k : Cached(k) = {}
  BY DEF Init, StoreInit, Cached, ToSet
<1>2. /\ save.key \notin Key
      /\ save.next = 1
      /\ save.batch = <<>>
      /\ save.viewer \notin Viewer
  BY ClosedAssumption, NobodyAssumption DEF Init, NoSave
<1>3. BatchIsAnswer /\ BatchIsCached
  <2>1. Len(<<>>) = 0
    OBVIOUS
  <2>2. QED
    BY <1>2, <2>1 DEF BatchIsAnswer, BatchIsCached
<1>4. LoadsFindTheirView
  BY <1>2, NobodyAssumption DEF Init, AllFree, Free, LoadsFindTheirView
<1>5. FirstRowIsCached /\ ShownInFull
  BY <1>1 DEF Init, NothingShown, FirstRowIsCached, ShownInFull
<1>6. QED
  BY <1>3, <1>4, <1>5 DEF ShownInv

\* Views show whole contents, loads find their own view.
LEMMA ShownInvariant == Spec => [](TypeInv /\ ShownInv)
BY TypeInvInit, TypeInvStep, ShownInit, ShownStep, PTL DEF Spec

\* A view that shows rows shows all the rows cached under its own key, through
\* overlapping loads, views left and opened again, and saves cut short.
THEOREM ShownInFullHolds == Spec => []ShownInFull
<1>1. ShownInv => ShownInFull
  BY DEF ShownInv
<1>2. QED
  BY <1>1, ShownInvariant, PTL

-----------------------------------------------------------------------------
(***************************************************************************)
(* One load per key at a time: a key that is loading has no row cached, and*)
(* a batch finds of its key only the rows it has put there itself.         *)
(***************************************************************************)

LoadsAreNeeded ==
  \A t \in Ticket : requests[t].stage # "free" =>
    /\ requests[t].key \in Key
    /\ requests[t].key # save.key
    /\ Cached(requests[t].key) = {}

OnlyTheBatch ==
  save.key \in Key =>
    Cached(save.key) = {save.batch[i] : i \in 1 .. save.next - 1}

RowsAreAnswers ==
  \A row \in ToSet(table) :
    \E answer \in Answers[row.key] : \E i \in DOMAIN answer : answer[i] = row.id

CalmInv ==
  /\ LoadsDiffer
  /\ LoadsAreNeeded
  /\ OnlyTheBatch
  /\ RowsAreAnswers
  /\ NeverTraps

\* What is known of the batch of a running save.
LEMMA BatchOfKey ==
  ASSUME TypeInv, ShownInv, save.key \in Key
  PROVE  \E answer \in Answers[save.key] :
           /\ DOMAIN answer = DOMAIN save.batch
           /\ DOMAIN save.batch = 1 .. Len(save.batch)
           /\ Len(save.batch) \in Nat
           /\ \A i \in DOMAIN answer :
                save.batch[i] = [id |-> answer[i], key |-> save.key]
<1>1. PICK answer \in Answers[save.key] : save.batch = Fetched(answer, save.key)
  BY DEF ShownInv, BatchIsAnswer
<1>2. /\ DOMAIN save.batch = 1 .. Len(save.batch)
      /\ Len(save.batch) \in Nat
  BY LenProperties DEF TypeInv, CacheTypeOK, Save
<1>3. QED
  BY <1>1, <1>2 DEF Fetched

\* A batch never meets a row of its own: realm.add does not raise.
LEMMA NoDuplicate ==
  ASSUME TypeInv, ShownInv, CalmInv, save.key \in Key,
         save.next <= Len(save.batch)
  PROVE  ~HasId(table, save.batch[save.next].id)
<1> SUFFICES ASSUME HasId(table, save.batch[save.next].id)
             PROVE  FALSE
  OBVIOUS
<1>1. PICK answer \in Answers[save.key] :
        /\ DOMAIN answer = DOMAIN save.batch
        /\ DOMAIN save.batch = 1 .. Len(save.batch)
        /\ Len(save.batch) \in Nat
        /\ \A i \in DOMAIN answer :
             save.batch[i] = [id |-> answer[i], key |-> save.key]
  BY BatchOfKey
<1>2. save.next \in Nat \ {0} /\ save.next \in DOMAIN answer
  BY <1>1 DEF TypeInv, CacheTypeOK, Save
<1>3. PICK row \in ToSet(table) : row.id = answer[save.next]
  <2>1. save.batch[save.next] = [id |-> answer[save.next], key |-> save.key]
    BY <1>1, <1>2
  <2>2. \E row \in ToSet(table) : row.id = save.batch[save.next].id
    BY DEF HasId, Ids, ToSet
  <2>3. QED
    BY <2>1, <2>2
<1>4. row \in Row
  BY ElementOfSeq DEF TypeInv, CacheTypeOK, StoreTypeOK, ToSet
<1>5. PICK other \in Answers[row.key] :
        \E i \in DOMAIN other : other[i] = row.id
  BY DEF CalmInv, RowsAreAnswers
<1>6. row.key = save.key
  BY <1>2, <1>3, <1>4, <1>5, RowAssumption DEF Row
<1>7. row \in Cached(save.key)
  BY <1>6 DEF Cached
<1>8. PICK i \in 1 .. save.next - 1 : row = save.batch[i]
  BY <1>7 DEF CalmInv, OnlyTheBatch
<1>9. i \in DOMAIN answer /\ i # save.next
  BY <1>1, <1>2, <1>8
<1>10. answer[i] = answer[save.next]
  <2>1. save.batch[i] = [id |-> answer[i], key |-> save.key]
    BY <1>1, <1>9
  <2>2. QED
    BY <1>3, <1>8, <2>1
<1>11. QED
  BY <1>2, <1>9, <1>10, RowAssumption

\* A step that leaves the table and the batch alone, and starts no load of a
\* key that is cached.
LEMMA CalmLoads ==
  ASSUME CalmInv, UNCHANGED <<table, save>>, LoadsDiffer', process' # "trapped",
         \A t \in Ticket : requests'[t].stage # "free" =>
           \/ requests[t].stage # "free" /\ requests'[t].key = requests[t].key
           \/ /\ requests'[t].key \in Key \ {save.key}
              /\ Cached(requests'[t].key) = {}
  PROVE  CalmInv'
<1>1. \A k : Cached(k)' = Cached(k)
  BY SameTable
<1>2. \A t \in Ticket : requests'[t].stage # "free" =>
        /\ requests'[t].key \in Key
        /\ requests'[t].key # save.key
        /\ Cached(requests'[t].key) = {}
  BY DEF CalmInv, LoadsAreNeeded
<1>3. LoadsAreNeeded'
  BY <1>2 DEF LoadsAreNeeded, Cached
<1>4. OnlyTheBatch'
  BY DEF CalmInv, OnlyTheBatch, Cached
<1>5. RowsAreAnswers'
  BY DEF CalmInv, RowsAreAnswers
<1>6. QED
  BY <1>3, <1>4, <1>5 DEF CalmInv, NeverTraps

\* getComments and getUsers load a key only when nothing is cached of it.
LEMMA GetCalm ==
  ASSUME TypeInv, CalmInv, NEW v \in Viewer, NEW k \in Key, Get(v, k),
         save = NoSave, UNCHANGED <<save, process>>, LoadsDiffer'
  PROVE  CalmInv'
<1>1. UNCHANGED table
  BY DEF Get, LoadRowsFromRealm
<1>2. save.key # k
  BY ClosedAssumption DEF NoSave
<1>3. ASSUME NEW t \in Ticket, requests'[t].stage # "free"
      PROVE  \/ requests[t].stage # "free" /\ requests'[t].key = requests[t].key
             \/ /\ requests'[t].key \in Key \ {save.key}
                /\ Cached(requests'[t].key) = {}
  BY <1>2, <1>3 DEF Get, TypeInv, CacheTypeOK
<1>4. QED
  BY <1>1, <1>3, CalmLoads DEF CalmInv, NeverTraps

\* A turn of a save writes a row of its batch, under a key of its own.
LEMMA SaveNextCalm ==
  ASSUME TypeInv, ShownInv, CalmInv, SaveNext, LoadsDiffer'
  PROVE  CalmInv'
<1> USE DEF TypeInv, CacheTypeOK
<1> DEFINE row == save.batch[save.next]
<1>1. PICK answer \in Answers[save.key] :
        /\ DOMAIN answer = DOMAIN save.batch
        /\ DOMAIN save.batch = 1 .. Len(save.batch)
        /\ Len(save.batch) \in Nat
        /\ \A i \in DOMAIN answer :
             save.batch[i] = [id |-> answer[i], key |-> save.key]
  BY BatchOfKey DEF SaveNext
<1>2. /\ save.next \in Nat \ {0}
      /\ save.key \in Key
      /\ save.next \in DOMAIN answer
  BY <1>1 DEF SaveNext, Save
<1>3. row = [id |-> answer[save.next], key |-> save.key]
  BY <1>1, <1>2
<1>4. row \in Row
  <2>1. save.batch \in Seq(Row) /\ save.next \in DOMAIN save.batch
    BY <1>1, <1>2 DEF Save
  <2>2. QED
    BY <2>1, ElementOfSeq
<1>5. SaveRow(row) /\ UNCHANGED requests /\ process' = process
  BY DEF SaveNext
<1>6. \A k : Cached(k)' = IF k = save.key THEN Cached(k) \cup {row} ELSE Cached(k)
  BY <1>3, <1>4, <1>5, CachedAfterSave
<1>7. /\ save'.next = save.next + 1
      /\ save'.batch = save.batch
      /\ save'.key = save.key
  BY DEF SaveNext, Save
<1>8. LoadsAreNeeded'
  <2>1. \A t \in Ticket : requests[t].stage # "free" =>
          Cached(requests[t].key)' = Cached(requests[t].key)
    <3>1. \A t \in Ticket : requests[t].stage # "free" =>
            requests[t].key # save.key
      BY DEF CalmInv, LoadsAreNeeded
    <3>2. \A k : k # save.key => Cached(k)' = Cached(k)
      BY <1>6
    <3>3. QED
      BY <1>5, <3>1, <3>2 DEF Cached
  <2>2. QED
    BY <1>5, <1>7, <2>1 DEF CalmInv, LoadsAreNeeded
<1>9. OnlyTheBatch'
  <2>1. 1 .. save.next = 1 .. save.next - 1 \cup {save.next}
    BY <1>2
  <2>2. {save.batch[i] : i \in 1 .. save.next}
          = {save.batch[i] : i \in 1 .. save.next - 1} \cup {row}
    BY <2>1
  <2>3. \A k : k = save.key =>
          Cached(k)' = {save.batch[i] : i \in 1 .. save.next}
    BY <1>2, <1>6, <2>2 DEF CalmInv, OnlyTheBatch
  <2>4. save'.next - 1 = save.next
    BY <1>2, <1>7
  <2>5. QED
    BY <1>7, <2>3, <2>4 DEF OnlyTheBatch, Cached
<1>10. RowsAreAnswers'
  <2>1. ASSUME NEW added \in ToSet(table')
        PROVE  added = row \/ added \in ToSet(table)
    <3>1. added \in Cached(added.key)'
      BY <2>1 DEF Cached
    <3>2. added \in Cached(added.key) \cup {row}
      BY <1>6, <3>1 DEF Cached
    <3>3. QED
      BY <3>2 DEF Cached
  <2>2. QED
    BY <1>1, <1>2, <1>3, <2>1 DEF CalmInv, RowsAreAnswers
<1>11. QED
  BY <1>5, <1>8, <1>9, <1>10 DEF CalmInv, NeverTraps

\* Each step of a user whose loads differ keeps the invariant.
LEMMA CalmStep ==
  TypeInv /\ ShownInv /\ CalmInv /\ [Next /\ LoadsDiffer']_vars => CalmInv'
<1> SUFFICES ASSUME TypeInv, ShownInv, CalmInv, [Next /\ LoadsDiffer']_vars
             PROVE  CalmInv'
  OBVIOUS
<1> USE DEF TypeInv, CacheTypeOK
<1>0. LoadsDiffer'
  BY DEF CalmInv, vars, LoadsDiffer
<1>1. ASSUME NEW v \in Viewer, NEW k \in Key, Open(v, k)
      PROVE  CalmInv'
  BY <1>0, <1>1, GetCalm DEF Open, Idle
<1>2. ASSUME NEW v \in Viewer, Reappear(v)
      PROVE  CalmInv'
  <2>1. where[v] \in Key
    BY <1>2 DEF Reappear
  <2>2. QED
    BY <1>0, <1>2, <2>1, GetCalm DEF Reappear, Idle
<1>3. ASSUME NEW v \in Viewer, Leave(v)
      PROVE  CalmInv'
  <2>1. ASSUME NEW t \in Ticket
        PROVE  /\ requests'[t].stage = requests[t].stage
               /\ requests'[t].key = requests[t].key
    BY <1>3 DEF Leave, Request
  <2>2. QED
    BY <1>0, <1>3, <2>1, CalmLoads DEF Leave, storeVars, CalmInv, NeverTraps
<1>4. ASSUME NEW t \in Ticket, StartRequest(t)
      PROVE  CalmInv'
  <2>1. ASSUME NEW u \in Ticket, requests'[u].stage # "free"
        PROVE  requests[u].stage # "free" /\ requests'[u].key = requests[u].key
    BY <1>4, <2>1 DEF StartRequest, Request
  <2>2. QED
    BY <1>0, <1>4, <2>1, CalmLoads
       DEF StartRequest, storeVars, CalmInv, NeverTraps
<1>5. ASSUME NEW t \in Ticket, ReceiveNothing(t)
      PROVE  CalmInv'
  <2>1. ASSUME NEW u \in Ticket, requests'[u].stage # "free"
        PROVE  requests'[u] = requests[u]
    BY <1>5, <2>1 DEF ReceiveNothing, Free
  <2>2. QED
    BY <1>0, <1>5, <2>1, CalmLoads
       DEF ReceiveNothing, storeVars, CalmInv, NeverTraps
<1>6. ASSUME NEW t \in Ticket, ReceiveRows(t)
      PROVE  CalmInv'
  <2>1. /\ requests[t].stage # "free"
        /\ requests[t].key \in Key
        /\ save'.key = requests[t].key
        /\ save'.next = 1
        /\ UNCHANGED <<table, process>>
    BY <1>6 DEF ReceiveRows
  <2>2. ASSUME NEW u \in Ticket, requests'[u].stage # "free"
        PROVE  u # t /\ requests'[u] = requests[u]
    BY <1>6, <2>2 DEF ReceiveRows, Free
  <2>3. \A k : Cached(k)' = Cached(k)
    BY <2>1, SameTable
  <2>4. LoadsAreNeeded'
    <3>1. \A u \in Ticket : requests'[u].stage # "free" =>
            /\ requests[u].key \in Key
            /\ requests[u].key # requests[t].key
            /\ Cached(requests[u].key) = {}
      BY <2>2 DEF CalmInv, LoadsAreNeeded, LoadsDiffer
    <3>2. QED
      BY <2>1, <2>2, <3>1 DEF LoadsAreNeeded, Cached
  <2>5. OnlyTheBatch'
    <3>1. Cached(requests[t].key) = {}
      BY <2>1 DEF CalmInv, LoadsAreNeeded
    <3>2. 1 .. save'.next - 1 = {}
      BY <2>1
    <3>3. QED
      BY <2>1, <3>1, <3>2 DEF OnlyTheBatch, Cached
  <2>6. RowsAreAnswers'
    BY <2>1 DEF CalmInv, RowsAreAnswers
  <2>7. QED
    BY <1>0, <2>1, <2>4, <2>5, <2>6 DEF CalmInv, NeverTraps
<1>7. CASE SaveNext
  BY <1>0, <1>7, SaveNextCalm
<1>8. CASE FinishSave
  <2>1. save' = NoSave /\ UNCHANGED <<table, requests, process>>
    BY <1>8 DEF FinishSave, storeVars
  <2>2. save'.key \notin Key
    BY <2>1, ClosedAssumption DEF NoSave
  <2>3. LoadsAreNeeded'
    BY <2>1, <2>2 DEF CalmInv, LoadsAreNeeded, Cached
  <2>4. OnlyTheBatch' /\ RowsAreAnswers'
    BY <2>1, <2>2 DEF CalmInv, OnlyTheBatch, RowsAreAnswers
  <2>5. QED
    BY <1>0, <2>1, <2>3, <2>4 DEF CalmInv, NeverTraps
<1>9. ~TrapOnDuplicate
  BY NoDuplicate DEF TrapOnDuplicate
<1>10. CASE Kill
  <2>1. /\ requests' = AllFree
        /\ save' = NoSave
        /\ table' = table
        /\ process' = "killed"
    BY <1>10 DEF Kill, End, Close
  <2>2. LoadsAreNeeded'
    BY <2>1 DEF LoadsAreNeeded, AllFree, Free
  <2>3. OnlyTheBatch' /\ RowsAreAnswers'
    BY <2>1, ClosedAssumption DEF CalmInv, OnlyTheBatch, RowsAreAnswers, NoSave
  <2>4. QED
    BY <1>0, <2>1, <2>2, <2>3 DEF CalmInv, NeverTraps
<1>11. ASSUME UNCHANGED <<table, requests, save>>, process' # "trapped"
       PROVE  CalmInv'
  BY <1>0, <1>11, CalmLoads
<1>12. CASE Launch
  BY <1>11, <1>12 DEF Launch, storeVars
<1>13. CASE UNCHANGED vars
  BY <1>11, <1>13 DEF vars, CalmInv, NeverTraps
<1>14. QED
  BY <1>1, <1>2, <1>3, <1>4, <1>5, <1>6, <1>7, <1>8, <1>9, <1>10, <1>12, <1>13
     DEF Next, Receive, Saving

\* A fresh install has it.
LEMMA CalmInit == Init => CalmInv
<1> SUFFICES ASSUME Init
             PROVE  CalmInv
  OBVIOUS
<1>1. \A t \in Ticket : requests[t].stage = "free"
  BY DEF Init, AllFree, Free
<1>2. save.key \notin Key
  BY ClosedAssumption DEF Init, NoSave
<1>3. ToSet(table) = {}
  BY DEF Init, StoreInit, ToSet
<1>4. QED
  BY <1>1, <1>2, <1>3
     DEF Init, CalmInv, LoadsDiffer, LoadsAreNeeded, OnlyTheBatch,
         RowsAreAnswers, NeverTraps

\* For that user it holds throughout.
LEMMA CalmInvariant == CalmSpec => [](TypeInv /\ ShownInv /\ CalmInv)
<1>1. [Next /\ LoadsDiffer']_vars => [Next]_vars
  OBVIOUS
<1>2. QED
  BY <1>1, TypeInvInit, TypeInvStep, ShownInit, ShownStep, CalmInit, CalmStep,
     PTL DEF CalmSpec

\* With one load per key at a time the app never ends by a duplicate key,
\* whatever loads of other keys overlap and whenever it is killed.
THEOREM NeverTrapsHolds == CalmSpec => []NeverTraps
<1>1. CalmInv => NeverTraps
  BY DEF CalmInv
<1>2. QED
  BY <1>1, CalmInvariant, PTL

-----------------------------------------------------------------------------
(***************************************************************************)
(* The read-through cache.                                                 *)
(***************************************************************************)

\* A closed viewer shows nothing.
LEMMA ClosedShowsNothing ==
  ASSUME TypeInv, ShownInv, NEW v \in Viewer, where[v] = Closed
  PROVE  shown[v] = {}
<1>1. \A row \in ToSet(table) : row \in Row
  BY ElementOfSeq DEF TypeInv, CacheTypeOK, StoreTypeOK, ToSet
<1>2. \A row \in ToSet(table) : row.key \in Key
  BY <1>1 DEF Row
<1>3. Cached(Closed) = {}
  BY <1>2, ClosedAssumption DEF Cached
<1>4. QED
  BY <1>3 DEF ShownInv, ShownInFull

\* A step on neither table, batch, places nor rows shown is not seen.
LEMMA NotSeen ==
  ASSUME UNCHANGED <<table, where, shown>>, save'.key = save.key
  PROVE  UNCHANGED <<Held, Screen>>
BY DEF Held, Screen, Cached

\* A view that asks for a key shows what is held of it.
LEMMA GetIsOpen ==
  ASSUME TypeInv, ShownInv, NEW v \in Viewer, NEW k \in Key, Get(v, k),
         save = NoSave, UNCHANGED save,
         where' = [where EXCEPT ![v] = k], where[v] \in {Closed, k}
  PROVE  Abstract!Open(v, k)
<1> USE DEF TypeInv, CacheTypeOK
<1>1. UNCHANGED table
  BY DEF Get, LoadRowsFromRealm
<1>2. Held' = Held
  BY <1>1 DEF Held, Cached
<1>3. k \in Held <=> Cached(k) # {}
  BY ClosedAssumption DEF Held, NoSave
<1>4. shown'[v] # {} <=> k \in Held
  <2>1. CASE Cached(k) # {}
    BY <1>3, <2>1 DEF Get, Complete
  <2>2. CASE Cached(k) = {}
    <3>1. shown'[v] = shown[v]
      BY <2>2 DEF Get
    <3>2. shown[v] = {}
      BY <2>2, ClosedShowsNothing DEF ShownInv, ShownInFull
    <3>3. QED
      BY <1>3, <2>2, <3>1, <3>2
  <2>3. QED
    BY <2>1, <2>2
<1>5. \A w \in Viewer : w # v => shown'[w] = shown[w] /\ where'[w] = where[w]
  BY DEF Get, Complete
<1>6. where'[v] = k
  OBVIOUS
<1>7. Screen'[v] = [key |-> k, shows |-> k \in Held]
  <2>1. (shown'[v] # {}) = (k \in Held)
    BY <1>4
  <2>2. Screen'[v] = [key |-> k, shows |-> shown'[v] # {}]
    BY <1>6 DEF Screen
  <2>3. QED
    BY <2>1, <2>2, Zenon
<1>8. \A w \in Viewer : w # v => Screen'[w] = Screen[w]
  BY <1>5 DEF Screen
<1>9. Screen' = [Screen EXCEPT ![v] = [key |-> k, shows |-> k \in Held]]
  <2>1. /\ Screen' = [w \in Viewer |-> Screen'[w]]
        /\ Screen = [w \in Viewer |-> Screen[w]]
    BY Zenon DEF Screen
  <2>2. QED
    BY <1>7, <1>8, <2>1
<1>10. QED
  BY <1>2, <1>9 DEF Abstract!Open

\* A viewer that waits and is given the content shows it.
LEMMA ShowsNow ==
  ASSUME NEW l, NEW seen \in BOOLEAN
  PROVE  [[key |-> l, shows |-> seen] EXCEPT !.shows = TRUE] =
           [key |-> l, shows |-> TRUE]
<1> DEFINE S == {l}
           before == [key |-> l, shows |-> seen]
           after == [before EXCEPT !.shows = TRUE]
<1>1. before \in [key : S, shows : BOOLEAN]
  OBVIOUS
<1>2. after \in [key : S, shows : BOOLEAN]
  BY <1>1
<1>3. after.key = l
  BY <1>1
<1>4. after.shows = TRUE
  BY <1>1
<1>5. after = [key |-> l, shows |-> TRUE]
  <2>1. \A r \in [key : S, shows : BOOLEAN] :
          r.key = l /\ r.shows = TRUE => r = [key |-> l, shows |-> TRUE]
    OBVIOUS
  <2> HIDE DEF after
  <2>2. QED
    BY <1>2, <1>3, <1>4, <2>1, Zenon
<1>6. QED
  BY <1>5

\* A save shows when it ends: its key is held then, and its view shows it.
LEMMA FinishIsFetch ==
  ASSUME TypeInv, ShownInv, CalmInv, FinishSave
  PROVE  Abstract!Fetch(save.key) \/ UNCHANGED <<Held, Screen>>
<1> USE DEF TypeInv, CacheTypeOK
<1> DEFINE k == save.key
<1>1. PICK answer \in Answers[k] :
        /\ DOMAIN answer = DOMAIN save.batch
        /\ DOMAIN save.batch = 1 .. Len(save.batch)
        /\ Len(save.batch) \in Nat
        /\ \A i \in DOMAIN answer :
             save.batch[i] = [id |-> answer[i], key |-> k]
  BY BatchOfKey DEF FinishSave
<1>2. /\ save' = NoSave
      /\ UNCHANGED <<table, where>>
      /\ k \in Key
      /\ save.next = Len(save.batch) + 1
  BY <1>1 DEF FinishSave, storeVars, ShownInv, BatchIsAnswer, Save
<1>3. save'.key \notin Key
  BY <1>2, ClosedAssumption DEF NoSave
<1>4. Cached(k) = ToSet(save.batch)
  <2>1. save.next - 1 = Len(save.batch)
    BY <1>1, <1>2
  <2>2. QED
    BY <1>1, <1>2, <2>1 DEF CalmInv, OnlyTheBatch, ToSet
<1>5. \A w \in Viewer : shown'[w] = IF w = save.viewer THEN ToSet(save.batch)
                                                      ELSE shown[w]
  BY DEF FinishSave, Complete
<1>6. \A l : Cached(l)' = Cached(l)
  BY <1>2, SameTable
<1>7. CASE ToSet(save.batch) = {}
  <2>1. Held' = Held
    BY <1>2, <1>3, <1>4, <1>7 DEF Held, Cached
  <2>2. \A w \in Viewer : (shown'[w] # {}) = (shown[w] # {})
    BY <1>4, <1>5, <1>7 DEF ShownInv, ShownInFull, LoadsFindTheirView
  <2>3. Screen' = Screen
    BY <1>2, <2>2 DEF Screen
  <2>4. QED
    BY <2>1, <2>3
<1>8. CASE ToSet(save.batch) # {}
  <2>1. k \notin Held
    BY DEF Held
  <2>2. Held' = Held \cup {k}
    BY <1>2, <1>3, <1>4, <1>8 DEF Held, Cached
  <2> DEFINE waiting == {w \in Viewer : w = save.viewer}
  <2>3. waiting \subseteq {w \in Viewer : Screen[w].key = k}
    BY DEF ShownInv, LoadsFindTheirView, Screen
  <2>4. \A w \in Viewer : Screen'[w] =
          IF w \in waiting THEN [Screen[w] EXCEPT !.shows = TRUE]
                           ELSE Screen[w]
    <3>1. ASSUME NEW w \in Viewer, w = save.viewer
          PROVE  Screen'[w] = [Screen[w] EXCEPT !.shows = TRUE]
      <4>1. Screen[w] = [key |-> where[w], shows |-> shown[w] # {}]
        BY DEF Screen
      <4>2. Screen'[w] = [key |-> where[w], shows |-> TRUE]
        BY <1>2, <1>5, <1>8, <3>1 DEF Screen
      <4>3. QED
        BY <4>1, <4>2, ShowsNow
    <3>2. ASSUME NEW w \in Viewer, w # save.viewer
          PROVE  Screen'[w] = Screen[w]
      BY <1>2, <1>5, <3>2 DEF Screen
    <3>3. QED
      BY <3>1, <3>2
  <2>5. Screen' = [w \in Viewer |->
                     IF w \in waiting THEN [Screen[w] EXCEPT !.shows = TRUE]
                                      ELSE Screen[w]]
    BY <2>4 DEF Screen
  <2>6. QED
    BY <2>1, <2>2, <2>3, <2>5 DEF Abstract!Fetch
<1>9. QED
  BY <1>7, <1>8

\* Each step of WholeSpec is one of the read-through cache, or not seen in it.
LEMMA WholeStep ==
  TypeInv /\ ShownInv /\ CalmInv /\ [WholeNext]_vars =>
    [Abstract!Next]_<<Held, Screen>>
<1> SUFFICES ASSUME TypeInv, ShownInv, CalmInv, [WholeNext]_vars
             PROVE  [Abstract!Next]_<<Held, Screen>>
  OBVIOUS
<1> USE DEF TypeInv, CacheTypeOK
<1>1. ASSUME NEW v \in Viewer, NEW k \in Key, Open(v, k)
      PROVE  Abstract!Next
  BY <1>1, GetIsOpen DEF Open, Idle, Abstract!Next
<1>2. ASSUME NEW v \in Viewer, Reappear(v)
      PROVE  Abstract!Next
  <2>1. where[v] \in Key
    BY <1>2 DEF Reappear
  <2>2. where' = [where EXCEPT ![v] = where[v]]
    BY <1>2 DEF Reappear
  <2>3. Abstract!Open(v, where[v])
    BY <1>2, <2>1, <2>2, GetIsOpen DEF Reappear, Idle
  <2>4. QED
    BY <2>1, <2>3 DEF Abstract!Next
<1>3. ASSUME NEW v \in Viewer, Leave(v)
      PROVE  Abstract!Next
  <2>1. Held' = Held
    BY <1>3 DEF Leave, storeVars, Held, Cached
  <2>2. Screen' = [Screen EXCEPT ![v] = [key |-> Closed, shows |-> FALSE]]
    BY <1>3 DEF Leave, Screen
  <2>3. QED
    BY <2>1, <2>2 DEF Abstract!Next, Abstract!Leave, Abstract!Shut
<1>4. ASSUME NEW t \in Ticket, StartRequest(t) \/ ReceiveNothing(t)
      PROVE  UNCHANGED <<Held, Screen>>
  BY <1>4, NotSeen DEF StartRequest, ReceiveNothing, storeVars, viewVars
<1>5. ASSUME NEW t \in Ticket, ReceiveRows(t)
      PROVE  UNCHANGED <<Held, Screen>>
  <2>1. /\ Cached(requests[t].key) = {}
        /\ save'.key = requests[t].key
        /\ save = NoSave
        /\ UNCHANGED <<table, where, shown>>
    <3>1. requests[t].stage # "free"
      BY <1>5 DEF ReceiveRows
    <3>2. Cached(requests[t].key) = {}
      BY <1>5, <3>1 DEF ReceiveRows, Idle, CalmInv, LoadsAreNeeded
    <3>3. save'.key = requests[t].key
      BY <1>5 DEF ReceiveRows
    <3>4. QED
      BY <1>5, <3>2, <3>3 DEF ReceiveRows, Idle, viewVars
  <2>2. Held' = Held
    BY <2>1, ClosedAssumption DEF Held, Cached, NoSave
  <2>3. QED
    BY <2>1, <2>2 DEF Screen
<1>6. CASE SaveNext
  <2>1. save.batch[save.next] \in Row
    <3>1. save.batch \in Seq(Row) /\ save.next \in Nat \ {0}
      BY DEF Save
    <3>2. QED
      BY <1>6, <3>1, LenProperties, ElementOfSeq DEF SaveNext
  <2>2. save.batch[save.next].key = save.key
    <3>1. save.next \in Nat \ {0}
      BY DEF Save
    <3>2. PICK answer \in Answers[save.key] :
            /\ DOMAIN answer = DOMAIN save.batch
            /\ DOMAIN save.batch = 1 .. Len(save.batch)
            /\ Len(save.batch) \in Nat
            /\ \A i \in DOMAIN answer :
                 save.batch[i] = [id |-> answer[i], key |-> save.key]
      BY <1>6, BatchOfKey DEF SaveNext
    <3>3. save.next \in DOMAIN answer
      BY <1>6, <3>1, <3>2 DEF SaveNext
    <3>4. save.batch[save.next] = [id |-> answer[save.next], key |-> save.key]
      BY <3>2, <3>3
    <3>5. QED
      BY <3>4
  <2>3. \A k : k # save.key => Cached(k)' = Cached(k)
    BY <1>6, <2>1, <2>2, CachedAfterSave DEF SaveNext
  <2>4. save'.key = save.key /\ UNCHANGED <<where, shown>>
    BY <1>6 DEF SaveNext, Save, viewVars
  <2>5. Held' = Held
    BY <2>3, <2>4 DEF Held
  <2>6. QED
    BY <2>4, <2>5 DEF Screen
<1>7. CASE FinishSave
  BY <1>7, FinishIsFetch DEF Abstract!Next, FinishSave
<1>8. ~TrapOnDuplicate
  BY NoDuplicate DEF TrapOnDuplicate
<1>9. CASE Kill /\ save = NoSave
  <2>1. Held' = Held
    BY <1>9 DEF Kill, End, Close, Held, Cached
  <2>2. Screen' = [v \in Viewer |-> [key |-> Closed, shows |-> FALSE]]
    BY <1>9 DEF Kill, End, Screen, AllClosed, NothingShown
  <2>3. QED
    BY <2>1, <2>2 DEF Abstract!Next, Abstract!LeaveAll, Abstract!Shut
<1>10. CASE Launch
  BY <1>10, NotSeen DEF Launch, storeVars, viewVars
<1>11. CASE UNCHANGED vars
  BY <1>11, NotSeen DEF vars
<1>12. QED
  BY <1>1, <1>2, <1>3, <1>4, <1>5, <1>6, <1>7, <1>8, <1>9, <1>10, <1>11
     DEF WholeNext, Next, Receive, Saving, Abstract!vars

\* For a user with one load per key at a time and a process that does not end
\* within a save, comments and users are a read-through cache: each key is
\* fetched once, whole, and shown by every view of it from then on.
THEOREM CacheIsReadThrough == WholeSpec => IsReadThrough
<1>1. Init => Abstract!Init
  <2> SUFFICES ASSUME Init
               PROVE  Abstract!Init
    OBVIOUS
  <2>1. Held = {}
    BY DEF Init, StoreInit, Held, Cached, ToSet
  <2>2. Screen = [v \in Viewer |-> [key |-> Closed, shows |-> FALSE]]
    BY DEF Init, AllClosed, NothingShown, Screen
  <2>3. QED
    BY <2>1, <2>2 DEF Abstract!Init, Abstract!Shut
<1>2. WholeSpec => CalmSpec
  <2>1. [WholeNext]_vars => [Next /\ LoadsDiffer']_vars
    BY DEF WholeNext
  <2>2. QED
    BY <2>1, PTL DEF WholeSpec, CalmSpec
<1>3. QED
  BY <1>1, <1>2, CalmInvariant, WholeStep, PTL
     DEF WholeSpec, IsReadThrough, Abstract!Spec, Abstract!vars
=============================================================================
