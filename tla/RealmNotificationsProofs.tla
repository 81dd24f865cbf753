---------------------- MODULE RealmNotificationsProofs ----------------------
(***************************************************************************)
(* RealmNotifications for any number of commits and callbacks: its types,  *)
(* that the worker always knows whether there are callbacks, and that the  *)
(* worker, the Realm and what is on its way to it agree on versions.       *)
(***************************************************************************)
EXTENDS RealmNotifications, SequenceTheorems, TLAPS

\* A delivery is at one of the callbacks, or past the last: so when they run out
\* in a delivery, as those before it are removed, the position is that of no
\* delivery, and add_callback sets m_have_callbacks.
CallbacksInv ==
  /\ callbacks \in Seq(Callback)
  /\ Len(callbacks) < nextToken
  /\ index <= Len(callbacks)
  /\ haveCallbacks = (callbacks # <<>>)

NotificationsInv ==
  /\ NotificationsTypeOK
  /\ CallbacksInv
  /\ Running => worker.todo # <<>>

-----------------------------------------------------------------------------
(***************************************************************************)
(* Sequences.                                                              *)
(***************************************************************************)

\* A change of each element keeps a sequence as long as it is.
LEMMA EachOf ==
  ASSUME NEW S, NEW s \in Seq(S), NEW t,
         t = [i \in DOMAIN s |-> t[i]],
         \A i \in DOMAIN s : t[i] \in S
  PROVE  /\ t \in Seq(S)
         /\ Len(t) = Len(s)
         /\ t = <<>> <=> s = <<>>
<1>1. /\ Len(s) \in Nat
      /\ DOMAIN s = 1 .. Len(s)
  BY LenProperties
<1>2. t \in [1 .. Len(s) -> S]
  BY <1>1
<1>3. /\ t \in Seq(S)
      /\ DOMAIN t = 1 .. Len(s)
  BY <1>1, <1>2, SeqDef
<1>4. Len(t) = Len(s)
  BY <1>1, <1>3, LenProperties
<1>5. QED
  BY <1>3, <1>4, EmptySeq

\* Removing an element leaves one less.
LEMMA RemoveOne ==
  ASSUME NEW S, NEW s \in Seq(S), NEW i \in DOMAIN s
  PROVE  /\ RemoveAt(s, i) \in Seq(S)
         /\ Len(RemoveAt(s, i)) = Len(s) - 1
         /\ Len(s) \in Nat
         /\ i \in 1 .. Len(s)
<1>1. /\ Len(s) \in Nat
      /\ DOMAIN s = 1 .. Len(s)
      /\ i \in 1 .. Len(s)
  BY LenProperties
<1>2. /\ SubSeq(s, 1, i - 1) \in Seq(S)
      /\ Len(SubSeq(s, 1, i - 1)) = i - 1
  BY <1>1, SubSeqProperties
<1>3. /\ SubSeq(s, i + 1, Len(s)) \in Seq(S)
      /\ Len(SubSeq(s, i + 1, Len(s))) = Len(s) - i
  BY <1>1, SubSeqProperties
<1>4. /\ RemoveAt(s, i) \in Seq(S)
      /\ Len(RemoveAt(s, i)) = (i - 1) + (Len(s) - i)
  BY <1>2, <1>3, ConcatProperties DEF RemoveAt
<1>5. QED
  BY <1>1, <1>4

-----------------------------------------------------------------------------
(***************************************************************************)
(* The callbacks.                                                          *)
(***************************************************************************)

LEMMA CallbacksAdd ==
  ASSUME NotificationsInv, AddCallback
  PROVE  CallbacksInv' /\ nextToken' \in 1 .. MaxToken + 1
<1> DEFINE c == [token |-> nextToken, accumulated |-> {}, toDeliver |-> {},
                 initial |-> FALSE, skip |-> FALSE]
<1>1. /\ nextToken \in 1 .. MaxToken + 1
      /\ nextToken <= MaxToken
      /\ callbacks \in Seq(Callback)
      /\ index \in 0 .. MaxToken
      /\ Len(callbacks) < nextToken /\ index <= Len(callbacks)
      /\ haveCallbacks = (callbacks # <<>>)
  BY DEF NotificationsInv, NotificationsTypeOK, CallbacksInv, AddCallback
<1>2. c \in Callback
  BY <1>1, MaxAssumption DEF Callback, Token, Change
<1>3. /\ callbacks' = Append(callbacks, c)
      /\ nextToken' = nextToken + 1
      /\ haveCallbacks' = (haveCallbacks \/ index = 0)
      /\ index' = index
  BY DEF AddCallback
<1> HIDE DEF c
<1>4. /\ Append(callbacks, c) \in Seq(Callback)
      /\ Len(Append(callbacks, c)) = Len(callbacks) + 1
      /\ Len(callbacks) \in Nat
  BY <1>1, <1>2, AppendProperties, LenProperties
<1>5. Append(callbacks, c) # <<>>
  BY <1>4, EmptySeq
<1>6. haveCallbacks \/ index = 0
  <2>1. callbacks = <<>> => index = 0
    BY <1>1, EmptySeq
  <2>2. QED
    BY <1>1, <2>1, Zenon
<1>7. QED
  BY <1>1, <1>3, <1>4, <1>5, <1>6, MaxAssumption DEF CallbacksInv

LEMMA CallbacksRemove ==
  ASSUME NotificationsInv, NEW i \in DOMAIN callbacks, RemoveCallback(i)
  PROVE  /\ CallbacksInv'
         /\ index' \in 0 .. MaxToken
         /\ count' \in 0 .. SizeMax
<1>1. /\ nextToken \in 1 .. MaxToken + 1
      /\ callbacks \in Seq(Callback)
      /\ index \in 0 .. MaxToken
      /\ count \in 0 .. SizeMax
      /\ Len(callbacks) < nextToken /\ index <= Len(callbacks)
      /\ haveCallbacks = (callbacks # <<>>)
  BY DEF NotificationsInv, NotificationsTypeOK, CallbacksInv
<1>2. /\ callbacks' = RemoveAt(callbacks, i)
      /\ haveCallbacks' = (Len(callbacks) > 1)
      /\ index' = IF index # 0 /\ index >= i THEN index - 1 ELSE index
      /\ count' = (count + SizeMax) % (SizeMax + 1)
      /\ nextToken' = nextToken
  BY DEF RemoveCallback
<1>3. /\ RemoveAt(callbacks, i) \in Seq(Callback)
      /\ Len(RemoveAt(callbacks, i)) = Len(callbacks) - 1
      /\ Len(callbacks) \in Nat
      /\ i \in 1 .. Len(callbacks)
  BY <1>1, RemoveOne
<1>4. (RemoveAt(callbacks, i) # <<>>) = (Len(callbacks) > 1)
  BY <1>3, EmptySeq
<1>5. index' <= Len(callbacks) - 1 /\ index' \in 0 .. MaxToken
  BY <1>1, <1>2, <1>3, MaxAssumption
<1>6. count' \in 0 .. SizeMax
  BY <1>1, <1>2, SizeAssumption
<1>7. QED
  BY <1>1, <1>2, <1>3, <1>4, <1>5, <1>6 DEF CallbacksInv

\* The actions that change only what the callbacks hold.
LEMMA CallbacksEach ==
  ASSUME NotificationsInv,
         callbacks' = [i \in DOMAIN callbacks |-> callbacks'[i]],
         \A i \in DOMAIN callbacks : callbacks'[i] \in Callback,
         nextToken' = nextToken, haveCallbacks' = haveCallbacks,
         index' <= Len(callbacks)
  PROVE  CallbacksInv'
<1>1. /\ callbacks \in Seq(Callback)
      /\ Len(callbacks) < nextToken
      /\ haveCallbacks = (callbacks # <<>>)
  BY DEF NotificationsInv, CallbacksInv
<1>2. /\ callbacks' \in Seq(Callback)
      /\ Len(callbacks') = Len(callbacks)
      /\ callbacks' = <<>> <=> callbacks = <<>>
  BY <1>1, EachOf
<1>3. QED
  BY <1>1, <1>2 DEF CallbacksInv

LEMMA CallbacksChanges ==
  ASSUME NotificationsInv, NEW changes \in Change, AddChanges(changes),
         UNCHANGED <<haveCallbacks, index, nextToken>>
  PROVE  CallbacksInv'
<1>1. callbacks \in Seq(Callback) /\ index <= Len(callbacks)
  BY DEF NotificationsInv, CallbacksInv
<1>2. \A i \in DOMAIN callbacks : callbacks[i] \in Callback
  BY <1>1, ElementOfSeq, LenProperties
<1>3. \A i \in DOMAIN callbacks : callbacks'[i] \in Callback
  BY <1>2 DEF AddChanges, Callback, Change
<1>4. QED
  BY <1>1, <1>3, CallbacksEach DEF AddChanges

LEMMA CallbacksPackage ==
  ASSUME NotificationsInv, Package, UNCHANGED <<haveCallbacks, index, nextToken>>
  PROVE  CallbacksInv' /\ count' \in 0 .. SizeMax /\ notifier' \in Notifier
<1>1. /\ callbacks \in Seq(Callback)
      /\ index <= Len(callbacks)
      /\ Len(callbacks) < nextToken
      /\ nextToken \in 1 .. MaxToken + 1
      /\ count \in 0 .. SizeMax
      /\ notifier \in Notifier
  BY DEF NotificationsInv, NotificationsTypeOK, CallbacksInv
<1>2. \A i \in DOMAIN callbacks : callbacks[i] \in Callback
  BY <1>1, ElementOfSeq, LenProperties
<1>3. Len(callbacks) \in 0 .. SizeMax
  BY <1>1, LenProperties, MaxAssumption, SizeAssumption
<1>4. CASE notifier.place # "none" /\ notifier.hasRun
  <2>1. \A c \in Callback :
          [c EXCEPT !.toDeliver = c.accumulated, !.accumulated = {}] \in Callback
    BY DEF Callback, Change
  <2>2. callbacks' = [i \in DOMAIN callbacks |->
              [callbacks[i] EXCEPT !.toDeliver = callbacks[i].accumulated,
                                   !.accumulated = {}]]
    BY <1>4 DEF Package
  <2>3. \A i \in DOMAIN callbacks : callbacks'[i] \in Callback
    BY <1>2, <2>1, <2>2, Zenon
  <2>4. CallbacksInv'
    BY <1>1, <2>2, <2>3, CallbacksEach
  <2>5. notifier' \in Notifier
    BY <1>1, <1>4 DEF Package, Notifier
  <2>6. QED
    BY <1>3, <1>4, <2>4, <2>5 DEF Package
<1>5. CASE ~(notifier.place # "none" /\ notifier.hasRun)
  BY <1>1, <1>5 DEF Package, CallbacksInv, NotificationsInv
<1>6. QED
  BY <1>4, <1>5

\* Actions that leave the callbacks and the position alone.
LEMMA CallbacksStay ==
  ASSUME NotificationsInv,
         UNCHANGED <<callbacks, haveCallbacks, index, nextToken>>
  PROVE  CallbacksInv'
BY DEF NotificationsInv, CallbacksInv

-----------------------------------------------------------------------------
(***************************************************************************)
(* Every action keeps the invariant.                                       *)
(***************************************************************************)

\* The worker.
LEMMA WorkStep ==
  ASSUME NotificationsInv, Work
  PROVE  NotificationsInv'
<1> USE DEF NotificationsInv
<1>0. /\ worker \in Worker /\ notifier \in Notifier
      /\ latest \in Version /\ changing \in Change /\ skipVersion \in Version
      /\ 0 \in Version
  BY MaxAssumption DEF NotificationsTypeOK, Version
<1>1. CASE Start
  <2>1. CallbacksInv'
    BY <1>1, CallbacksStay DEF Start
  <2>2. CASE notifier.place = "none"
    <3>1. worker' = [worker EXCEPT !.pc = "signal"]
      BY <1>1, <2>2 DEF Start
    <3>2. worker' \in Worker /\ worker'.pc = "signal"
      BY <1>0, <3>1 DEF Worker
    <3>3. ~Running'
      BY <3>2 DEF Running
    <3>4. NotificationsTypeOK'
      BY <1>1, <2>2, <3>2 DEF Start, NotificationsTypeOK
    <3>5. QED
      BY <2>1, <3>3, <3>4
  <2>3. CASE notifier.place # "none"
    <3> DEFINE todo == IF skipVersion = 0 THEN <<latest>>
                                          ELSE <<skipVersion, latest>>
    <3>1. todo \in Seq(Version) /\ todo # <<>>
      BY <1>0
    <3>2. /\ worker' = [worker EXCEPT !.pc = "run", !.todo = todo]
          /\ notifier' = [notifier EXCEPT !.place = "main"]
          /\ skipVersion' = 0
      BY <1>1, <2>3 DEF Start
    <3> HIDE DEF todo
    <3>3. worker' \in Worker /\ worker'.todo = todo
      BY <1>0, <3>1, <3>2 DEF Worker
    <3>4. notifier' \in Notifier
      BY <1>0, <3>2 DEF Notifier
    <3>5. NotificationsTypeOK'
      BY <1>0, <1>1, <3>2, <3>3, <3>4 DEF Start, NotificationsTypeOK
    <3>6. QED
      BY <2>1, <3>1, <3>3, <3>5
  <2>4. QED
    BY <2>2, <2>3
<1>2. ASSUME NEW wanted \in BOOLEAN, NeedToRun(wanted)
      PROVE  NotificationsInv'
  <2>1. PICK pc \in {"calculate", "handover"} : worker' = [worker EXCEPT !.pc = pc]
    BY <1>2 DEF NeedToRun
  <2>2. worker' \in Worker /\ worker'.todo = worker.todo
    BY <1>0, <2>1 DEF Worker
  <2>3. worker.todo # <<>>
    BY <1>2 DEF NeedToRun, Running
  <2>4. CallbacksInv'
    BY <1>2, CallbacksStay DEF NeedToRun, notifierVars
  <2>5. NotificationsTypeOK'
    BY <1>2, <2>2 DEF NeedToRun, NotificationsTypeOK, notifierVars
  <2>6. QED
    BY <2>2, <2>3, <2>4, <2>5
<1>3. CASE CalculateChanges
  <2>1. worker.todo # <<>> /\ worker.todo \in Seq(Version)
    BY <1>0, <1>3 DEF CalculateChanges, Running, Worker
  <2>2. Head(worker.todo) \in Version
    BY <2>1, HeadTailProperties
  <2>3. PICK changes \in Change :
          worker' = [worker EXCEPT !.pc = "handover", !.ran = TRUE,
                                   !.changes = changes]
    <3>1. Since(Head(worker.todo)) \in Change /\ {} \in Change
      BY <1>0 DEF Since, Change
    <3>2. QED
      BY <1>3, <3>1 DEF CalculateChanges
  <2>4. worker' \in Worker /\ worker'.todo = worker.todo
    BY <1>0, <2>3 DEF Worker
  <2>5. notifier' \in Notifier
    BY <1>0, <1>3, <2>2 DEF CalculateChanges, Notifier
  <2>6. CallbacksInv'
    BY <1>3, CallbacksStay DEF CalculateChanges
  <2>7. NotificationsTypeOK'
    BY <1>3, <2>4, <2>5 DEF CalculateChanges, NotificationsTypeOK
  <2>8. QED
    BY <2>1, <2>4, <2>6, <2>7
<1>4. CASE PrepareHandover
  <2>1. worker.todo # <<>> /\ worker.todo \in Seq(Version) /\ worker.changes \in Change
    BY <1>0, <1>4 DEF PrepareHandover, Running, Worker
  <2>2. /\ Head(worker.todo) \in Version
        /\ Tail(worker.todo) \in Seq(Version)
        /\ Len(worker.todo) > 1 => Tail(worker.todo) # <<>>
    <3>1. /\ Head(worker.todo) \in Version
          /\ Tail(worker.todo) \in Seq(Version)
          /\ Len(Tail(worker.todo)) = Len(worker.todo) - 1
          /\ Len(worker.todo) \in Nat
      BY <2>1, HeadTailProperties, LenProperties
    <3>2. Tail(worker.todo) = <<>> => Len(Tail(worker.todo)) = 0
      BY EmptySeq
    <3>3. Len(worker.todo) > 1 => Len(Tail(worker.todo)) # 0
      <4> DEFINE n == Len(worker.todo)
                 m == Len(Tail(worker.todo))
      <4>1. n \in Nat /\ m = n - 1
        BY <3>1
      <4> HIDE DEF n, m
      <4>2. n > 1 => m # 0
        BY <4>1
      <4>3. QED
        BY <4>2 DEF n, m
    <3>4. QED
      BY <3>1, <3>2, <3>3, Zenon
  <2>3. worker' = [pc |-> IF Len(worker.todo) > 1 THEN "run" ELSE "signal",
                   todo |-> Tail(worker.todo), ran |-> FALSE, changes |-> {}]
    BY <1>4 DEF PrepareHandover
  <2>4. worker' \in Worker /\ (Running' => worker'.todo # <<>>)
    BY <2>2, <2>3 DEF Worker, Change, Running
  <2>5. notifier' \in Notifier
    BY <1>0, <1>4, <2>2 DEF PrepareHandover, Notifier
  <2>6. CallbacksInv'
    BY <1>4, <2>1, CallbacksChanges DEF PrepareHandover
  <2>7. NotificationsTypeOK'
    BY <1>4, <2>4, <2>5, <2>6 DEF PrepareHandover, NotificationsTypeOK, CallbacksInv
  <2>8. QED
    BY <2>4, <2>6, <2>7
<1>5. CASE Signal
  <2>1. AtRest \in Worker /\ AtRest.pc = "idle"
    BY DEF AtRest, Worker, Change
  <2>2. ~Running'
    BY <1>5, <2>1 DEF Signal, Running
  <2>3. CallbacksInv'
    BY <1>5, CallbacksStay DEF Signal, notifierVars
  <2>4. NotificationsTypeOK'
    BY <1>5, <2>1 DEF Signal, NotificationsTypeOK, notifierVars
  <2>5. QED
    BY <2>2, <2>3, <2>4
<1>6. QED
  BY <1>1, <1>2, <1>3, <1>4, <1>5 DEF Work

\* The Realm's thread and its user.
LEMMA SendStep ==
  ASSUME NotificationsInv, Send
  PROVE  NotificationsInv'
<1> USE DEF NotificationsInv
<1>0. /\ main \in Main /\ call \in Call /\ notifier \in Notifier
      /\ realm \in [version : Version, writing : BOOLEAN]
      /\ latest \in Version /\ index \in 0 .. MaxToken
      /\ 0 \in Version
  BY MaxAssumption DEF NotificationsTypeOK, Version
<1>1. Idle \in Main /\ NoCall \in Call
  BY <1>0 DEF Idle, Main, NoCall, Call, Change
<1>2. CASE PackageAndWait
  <2>1. PICK pc \in {"before", "advance"}, to \in Version, packed \in BOOLEAN :
          main' = [main EXCEPT !.pc = pc, !.to = to, !.packed = packed]
    <3> DEFINE packed == CanPackage /\ notifier.version >= main.to
               to == IF packed THEN notifier.version ELSE latest
    <3>1. packed \in BOOLEAN /\ to \in Version
      BY <1>0 DEF Notifier
    <3>2. main' = [main EXCEPT
            !.pc = IF packed /\ (main.goal = "read" \/ to > realm.version)
                     THEN "before" ELSE "advance",
            !.to = to,
            !.packed = packed]
      BY <1>2 DEF PackageAndWait
    <3> HIDE DEF packed, to
    <3>3. QED
      BY <3>1, <3>2
  <2>2. main' \in Main
    BY <1>0, <2>1 DEF Main
  <2>3. CallbacksInv' /\ count' \in 0 .. SizeMax /\ notifier' \in Notifier
    BY <1>2, CallbacksPackage DEF PackageAndWait
  <2>4. NotificationsTypeOK'
    BY <1>2, <2>2, <2>3 DEF PackageAndWait, NotificationsTypeOK, CallbacksInv
  <2>5. QED
    BY <1>2, <2>3, <2>4 DEF PackageAndWait, Running
<1>3. CASE BeforeAdvance
  <2>1. /\ index' \in 0 .. MaxToken
        /\ index' <= Len(callbacks)
        /\ call' \in Call /\ main' \in Main
    <3>1. callbacks \in Seq(Callback) /\ Len(callbacks) < nextToken
          /\ index <= Len(callbacks) /\ nextToken \in 1 .. MaxToken + 1
      BY DEF CallbacksInv, NotificationsTypeOK
    <3>2. Len(callbacks) \in Nat /\ DOMAIN callbacks = 1 .. Len(callbacks)
      BY <3>1, LenProperties
    <3>3. CASE index + 1 \in DOMAIN callbacks /\ index' = index + 1 /\ UNCHANGED main
      <4>1. callbacks[index + 1] \in Callback
        BY <3>1, <3>2, <3>3, ElementOfSeq
      <4>2. call' = IF callbacks[index + 1].toDeliver = {} THEN NoCall
                    ELSE [token |-> callbacks[index + 1].token,
                          changes |-> callbacks[index + 1].toDeliver,
                          first |-> FALSE, in |-> "before"]
        BY <1>3, <3>3, <3>1, <3>2, <1>0 DEF BeforeAdvance
      <4>3. call' \in Call
        BY <1>1, <4>1, <4>2 DEF Callback, Call
      <4>4. QED
        BY <1>0, <3>1, <3>2, <3>3, <4>3, MaxAssumption
    <3>4. CASE index' = 0 /\ main' = [main EXCEPT !.pc = "advance"] /\ UNCHANGED call
      BY <1>0, <3>2, <3>4, MaxAssumption DEF Main
    <3>5. QED
      BY <1>3, <3>3, <3>4 DEF BeforeAdvance
  <2>2. CallbacksInv'
    BY <1>3, <2>1 DEF BeforeAdvance, CallbacksInv
  <2>3. NotificationsTypeOK'
    BY <1>3, <2>1 DEF BeforeAdvance, NotificationsTypeOK
  <2>4. QED
    BY <1>3, <2>2, <2>3 DEF BeforeAdvance, Running
<1>4. CASE Advance
  <2>1. main' \in Main
    BY <1>0, <1>1, <1>4 DEF Advance, Main
  <2>2. call' \in Call
    <3>1. [NoCall EXCEPT !.in = "did_change"] \in Call
      BY <1>1 DEF Call
    <3>2. QED
      BY <1>1, <1>4, <3>1 DEF Advance
  <2>3. realm' \in [version : Version, writing : BOOLEAN]
    <3>1. main.to \in Version /\ (main.goal = "write") \in BOOLEAN
      BY <1>0 DEF Main
    <3>2. QED
      BY <1>4, <3>1 DEF Advance
  <2>4. CallbacksInv'
    BY <1>4, CallbacksStay DEF Advance, notifierVars
  <2>5. NotificationsTypeOK'
    BY <1>4, <2>1, <2>2, <2>3 DEF Advance, NotificationsTypeOK, notifierVars
  <2>6. QED
    BY <1>4, <2>4, <2>5 DEF Advance, Running
<1>5. CASE Deliver
  <2>1. main' \in Main
    BY <1>0, <1>5 DEF Deliver, Main
  <2>2. notifier' \in Notifier
    BY <1>0, <1>5 DEF Deliver, Notifier
  <2>3. CallbacksInv'
    BY <1>5, CallbacksStay DEF Deliver
  <2>4. NotificationsTypeOK'
    BY <1>5, <2>1, <2>2 DEF Deliver, NotificationsTypeOK
  <2>5. QED
    BY <1>5, <2>3, <2>4 DEF Deliver, Running
<1>6. CASE AfterAdvance
  <2>1. /\ callbacks \in Seq(Callback) /\ Len(callbacks) < nextToken
        /\ index <= Len(callbacks) /\ nextToken \in 1 .. MaxToken + 1
        /\ Len(callbacks) \in Nat /\ DOMAIN callbacks = 1 .. Len(callbacks)
    BY LenProperties DEF CallbacksInv, NotificationsTypeOK
  <2>2. CASE index' = 0 /\ main' = Idle /\ UNCHANGED <<callbacks, call>>
    <3>1. CallbacksInv'
      BY <1>6, <2>1, <2>2 DEF AfterAdvance, CallbacksInv
    <3>2. NotificationsTypeOK'
      BY <1>1, <1>6, <2>2, MaxAssumption DEF AfterAdvance, NotificationsTypeOK
    <3>3. QED
      BY <1>6, <3>1, <3>2 DEF AfterAdvance, Running
  <2>3. ASSUME index + 1 \in DOMAIN callbacks, index' = index + 1, UNCHANGED main,
               UNCHANGED <<callbacks, call>>
        PROVE  NotificationsInv'
    <3>1. CallbacksInv'
      BY <1>6, <2>1, <2>3, <1>0 DEF AfterAdvance, CallbacksInv
    <3>2. NotificationsTypeOK'
      BY <1>0, <1>6, <2>1, <2>3, MaxAssumption DEF AfterAdvance, NotificationsTypeOK
    <3>3. QED
      BY <1>6, <3>1, <3>2 DEF AfterAdvance, Running
  <2>4. ASSUME index + 1 \in DOMAIN callbacks, index' = index + 1, UNCHANGED main,
               callbacks' = [callbacks EXCEPT ![index + 1].initial = TRUE,
                                              ![index + 1].toDeliver = {}],
               call' = [token |-> callbacks[index + 1].token,
                        changes |-> callbacks[index + 1].toDeliver,
                        first |-> ~callbacks[index + 1].initial, in |-> "after"]
        PROVE  NotificationsInv'
    <3>1. \A i \in DOMAIN callbacks : callbacks[i] \in Callback
      BY <2>1, ElementOfSeq
    <3>2. \A c \in Callback :
            [[c EXCEPT !.initial = TRUE] EXCEPT !.toDeliver = {}] \in Callback
      BY DEF Callback, Change
    <3>3. \A i \in DOMAIN callbacks :
            callbacks'[i] =
              IF i = index + 1
                THEN [[callbacks[i] EXCEPT !.initial = TRUE] EXCEPT !.toDeliver = {}]
                ELSE callbacks[i]
      BY <2>4
    <3>4. \A i \in DOMAIN callbacks : callbacks'[i] \in Callback
      BY <3>1, <3>2, <3>3
    <3>5. callbacks' = [i \in DOMAIN callbacks |-> callbacks'[i]]
      BY <2>4
    <3>6. index' <= Len(callbacks) /\ index' \in 0 .. MaxToken
      BY <1>0, <2>1, <2>4, MaxAssumption
    <3>7. CallbacksInv'
      BY <1>6, <3>4, <3>5, <3>6, CallbacksEach DEF AfterAdvance
    <3>8. call' \in Call
      <4>1. \A c \in Callback :
              [token |-> c.token, changes |-> c.toDeliver,
               first |-> ~c.initial, in |-> "after"] \in Call
        BY DEF Callback, Call
      <4>2. QED
        BY <2>4, <3>1, <4>1
    <3>9. NotificationsTypeOK'
      BY <1>6, <2>4, <3>6, <3>7, <3>8
         DEF AfterAdvance, NotificationsTypeOK, CallbacksInv
    <3>10. QED
      BY <1>6, <3>7, <3>9 DEF AfterAdvance, Running
  <2>5. QED
    BY <1>6, <2>2, <2>3, <2>4 DEF AfterAdvance
<1>7. QED
  BY <1>2, <1>3, <1>4, <1>5, <1>6 DEF Send

\* The run loop.
LEMMA NotifyStep ==
  ASSUME NotificationsInv, Notify
  PROVE  NotificationsInv'
<1> USE DEF NotificationsInv
<1>0. /\ main \in Main /\ notifier \in Notifier
      /\ realm \in [version : Version, writing : BOOLEAN]
      /\ latest \in Version /\ 0 \in Version
  BY MaxAssumption DEF NotificationsTypeOK, Version
<1>1. CASE NotifyInVain
  BY <1>1, CallbacksStay DEF NotifyInVain, NotificationsTypeOK, notifierVars, Running
<1>2. CASE ProcessAvailable
  <2>1. CallbacksInv' /\ count' \in 0 .. SizeMax /\ notifier' \in Notifier
    BY <1>2, CallbacksPackage DEF ProcessAvailable
  <2>2. main' \in Main
    BY <1>0, <1>2 DEF ProcessAvailable, Main
  <2>3. NotificationsTypeOK'
    BY <1>2, <2>1, <2>2 DEF ProcessAvailable, NotificationsTypeOK, CallbacksInv
  <2>4. QED
    BY <1>2, <2>1, <2>3 DEF ProcessAvailable, Running
<1>3. CASE AdvanceToReady
  <2>1. CallbacksInv' /\ count' \in 0 .. SizeMax /\ notifier' \in Notifier
    BY <1>3, CallbacksPackage DEF AdvanceToReady
  <2>2. main' \in Main
    BY <1>0, <1>3 DEF AdvanceToReady, Main, Idle, Notifier
  <2>3. NotificationsTypeOK'
    BY <1>3, <2>1, <2>2 DEF AdvanceToReady, NotificationsTypeOK, CallbacksInv
  <2>4. QED
    BY <1>3, <2>1, <2>3 DEF AdvanceToReady, Running
<1>4. QED
  BY <1>1, <1>2, <1>3 DEF Notify

\* The transactions of the Realm.
LEMMA WriteStep ==
  ASSUME NotificationsInv, Write \/ FailToCommit
  PROVE  NotificationsInv'
<1> USE DEF NotificationsInv
<1>0. /\ realm \in [version : Version, writing : BOOLEAN]
      /\ latest \in Version /\ changing \in Change /\ 0 \in Version
      /\ skipVersion \in Version
      /\ wake \in BOOLEAN
  BY MaxAssumption DEF NotificationsTypeOK, Version
<1>1. Idle \in Main
  BY <1>0 DEF Idle, Main
<1>2. CASE BeginWrite
  <2>1. main' \in Main
    BY <1>0, <1>2 DEF BeginWrite, Main
  <2>2. wake' \in BOOLEAN
    BY <1>0, <1>2 DEF BeginWrite
  <2>3. CallbacksInv'
    BY <1>2, CallbacksStay DEF BeginWrite, notifierVars
  <2>4. NotificationsTypeOK'
    BY <1>2, <2>1, <2>2 DEF BeginWrite, NotificationsTypeOK, notifierVars
  <2>5. QED
    BY <1>2, <2>3, <2>4 DEF BeginWrite, Running
<1>3. ASSUME NEW unwanted \in SUBSET DOMAIN callbacks, SuppressNext(unwanted)
      PROVE  NotificationsInv'
  <2>1. callbacks \in Seq(Callback) /\ index <= Len(callbacks)
    BY DEF CallbacksInv
  <2>2. \A i \in DOMAIN callbacks : callbacks[i] \in Callback
    BY <2>1, ElementOfSeq, LenProperties
  <2>3. \A c \in Callback : [c EXCEPT !.skip = TRUE] \in Callback
    BY DEF Callback
  <2>4. callbacks' = [i \in DOMAIN callbacks |->
          IF i \in unwanted THEN [callbacks[i] EXCEPT !.skip = TRUE]
                            ELSE callbacks[i]]
    BY <1>3 DEF SuppressNext
  <2>5. \A i \in DOMAIN callbacks : callbacks'[i] \in Callback
    BY <2>2, <2>3, <2>4
  <2>6. CallbacksInv'
    BY <1>3, <2>1, <2>4, <2>5, CallbacksEach DEF SuppressNext
  <2>7. main' \in Main
    BY <1>1, <1>3 DEF SuppressNext, Main
  <2>8. NotificationsTypeOK'
    BY <1>3, <2>6, <2>7 DEF SuppressNext, NotificationsTypeOK, CallbacksInv
  <2>9. QED
    BY <1>3, <2>6, <2>8 DEF SuppressNext, Running
<1>4. CASE CommitWrite
  <2>1. latest' \in Version /\ changing' \in Change /\ latest' = latest + 1
    BY <1>0, <1>4, MaxAssumption DEF CommitWrite, NewVersion, Version, Change
  <2>2. realm' \in [version : Version, writing : BOOLEAN]
    BY <1>4, <2>1 DEF CommitWrite
  <2>3. skipVersion' \in Version
    BY <1>0, <1>4, <2>1 DEF CommitWrite
  <2>4. CallbacksInv'
    BY <1>4, CallbacksStay DEF CommitWrite, notifierVars
  <2>5. NotificationsTypeOK'
    BY <1>1, <1>4, <2>1, <2>2, <2>3
       DEF CommitWrite, NewVersion, NotificationsTypeOK, notifierVars
  <2>6. QED
    BY <1>4, <2>4, <2>5 DEF CommitWrite, Running
<1>5. CASE CancelWrite
  <2>1. realm' \in [version : Version, writing : BOOLEAN]
    BY <1>0, <1>5 DEF CancelWrite
  <2>2. CallbacksInv'
    BY <1>5, CallbacksStay DEF CancelWrite, notifierVars
  <2>3. NotificationsTypeOK'
    BY <1>5, <2>1 DEF CancelWrite, NotificationsTypeOK, notifierVars
  <2>4. QED
    BY <1>5, <2>2, <2>3 DEF CancelWrite, Running
<1>6. CASE FailToCommit
  <2>1. realm' \in [version : Version, writing : BOOLEAN]
    BY <1>0, <1>6 DEF FailToCommit
  <2>2. CallbacksInv'
    BY <1>6, CallbacksStay DEF FailToCommit, notifierVars
  <2>3. NotificationsTypeOK'
    BY <1>1, <1>6, <2>1 DEF FailToCommit, NotificationsTypeOK, notifierVars
  <2>4. QED
    BY <1>6, <2>2, <2>3 DEF FailToCommit, Running
<1>7. QED
  BY <1>2, <1>3, <1>4, <1>5, <1>6 DEF Write

\* What the user, other threads and other processes do.
LEMMA UserStep ==
  ASSUME NotificationsInv,
         \/ ReadResults \/ Refresh \/ OtherCommit \/ OtherWake \/ Return
         \/ AddCallback
         \/ \E i \in DOMAIN callbacks : RemoveCallback(i)
  PROVE  NotificationsInv'
<1> USE DEF NotificationsInv
<1>0. /\ realm \in [version : Version, writing : BOOLEAN]
      /\ latest \in Version /\ changing \in Change /\ 0 \in Version
      /\ notifier \in Notifier /\ wake \in BOOLEAN /\ haveCallbacks \in BOOLEAN
  BY MaxAssumption DEF NotificationsTypeOK, Version
<1>1. Registered \in Notifier
  BY <1>0 DEF Registered, Notifier
<1>2. CASE ReadResults
  <2>1. CallbacksInv'
    BY <1>2, CallbacksStay DEF ReadResults
  <2>2. NotificationsTypeOK'
    BY <1>1, <1>2 DEF ReadResults, NotificationsTypeOK
  <2>3. QED
    BY <1>2, <2>1, <2>2 DEF ReadResults, Running
<1>3. CASE Refresh
  <2>1. main' \in Main
    BY <1>0, <1>3 DEF Refresh, Main
  <2>2. wake' \in BOOLEAN
    BY <1>0, <1>3 DEF Refresh
  <2>3. CallbacksInv'
    BY <1>3, CallbacksStay DEF Refresh, notifierVars
  <2>4. NotificationsTypeOK'
    BY <1>3, <2>1, <2>2 DEF Refresh, NotificationsTypeOK, notifierVars
  <2>5. QED
    BY <1>3, <2>3, <2>4 DEF Refresh, Running
<1>4. CASE OtherCommit
  <2>1. latest' \in Version /\ changing' \in Change
    BY <1>0, <1>4, MaxAssumption DEF OtherCommit, NewVersion, Version, Change
  <2>2. CallbacksInv'
    BY <1>4, CallbacksStay DEF OtherCommit, notifierVars
  <2>3. NotificationsTypeOK'
    BY <1>4, <2>1 DEF OtherCommit, NewVersion, NotificationsTypeOK, notifierVars
  <2>4. QED
    BY <1>4, <2>2, <2>3 DEF OtherCommit, Running
<1>5. CASE OtherWake
  <2>1. CallbacksInv'
    BY <1>5, CallbacksStay DEF OtherWake, notifierVars
  <2>2. QED
    BY <1>5, <2>1 DEF OtherWake, NotificationsTypeOK, notifierVars, Running
<1>6. CASE Return
  <2>1. NoCall \in Call
    BY DEF NoCall, Call, Change
  <2>2. CallbacksInv'
    BY <1>6, CallbacksStay DEF Return, notifierVars
  <2>3. NotificationsTypeOK'
    BY <1>6, <2>1 DEF Return, NotificationsTypeOK, notifierVars
  <2>4. QED
    BY <1>6, <2>2, <2>3 DEF Return, Running
<1>7. CASE AddCallback
  <2>1. CallbacksInv' /\ nextToken' \in 1 .. MaxToken + 1
    BY <1>7, CallbacksAdd
  <2>2. /\ haveCallbacks' = (haveCallbacks \/ index = 0)
        /\ wake' = (wake \/ index = 0)
    BY <1>7 DEF AddCallback
  <2>3. haveCallbacks' \in BOOLEAN /\ wake' \in BOOLEAN
    BY <2>2
  <2>4. NotificationsTypeOK'
    BY <1>1, <1>7, <2>1, <2>3 DEF AddCallback, NotificationsTypeOK, CallbacksInv
  <2>5. QED
    BY <1>7, <2>1, <2>4 DEF AddCallback, Running
<1>8. ASSUME NEW i \in DOMAIN callbacks, RemoveCallback(i)
      PROVE  NotificationsInv'
  <2>1. CallbacksInv' /\ index' \in 0 .. MaxToken /\ count' \in 0 .. SizeMax
    BY <1>8, CallbacksRemove
  <2>2. haveCallbacks' \in BOOLEAN
    BY <1>8 DEF RemoveCallback
  <2>3. NotificationsTypeOK'
    BY <1>8, <2>1, <2>2 DEF RemoveCallback, NotificationsTypeOK, CallbacksInv
  <2>4. QED
    BY <1>8, <2>1, <2>3 DEF RemoveCallback, Running
<1>9. QED
  BY <1>2, <1>3, <1>4, <1>5, <1>6, <1>7, <1>8

LEMMA NotificationsStep == NotificationsInv /\ [Next]_vars => NotificationsInv'
<1> SUFFICES ASSUME NotificationsInv, [Next]_vars
             PROVE  NotificationsInv'
  OBVIOUS
<1>1. CASE Next
  BY <1>1, WorkStep, SendStep, NotifyStep, WriteStep, UserStep, Zenon DEF Next, Common
<1>2. CASE UNCHANGED vars
  BY <1>2 DEF vars, notifierVars, NotificationsInv, NotificationsTypeOK,
              CallbacksInv, Running
<1>3. QED
  BY <1>1, <1>2

LEMMA NotificationsStart == Init => NotificationsInv
<1> SUFFICES ASSUME Init
             PROVE  NotificationsInv
  OBVIOUS
<1>1. /\ 0 \in Version /\ {} \in Change /\ SizeMax \in Nat /\ MaxToken \in Nat
      /\ <<>> \in Seq(Callback) /\ Len(<<>>) = 0
  BY MaxAssumption, SizeAssumption, EmptySeq DEF Version, Change
<1>2. /\ callbacks \in Seq(Callback)
      /\ index \in 0 .. MaxToken /\ count \in 0 .. SizeMax
      /\ nextToken \in 1 .. MaxToken + 1
  <2>1. callbacks = <<>> /\ index = 0 /\ count = SizeMax /\ nextToken = 1
    BY DEF Init
  <2>2. QED
    BY <1>1, <2>1
<1>3. CallbacksInv
  <2>1. /\ callbacks = <<>> /\ index = 0 /\ nextToken = 1
        /\ haveCallbacks = FALSE
    BY DEF Init
  <2>2. Len(callbacks) = 0
    BY <1>1, <2>1, Zenon
  <2>3. Len(callbacks) < nextToken /\ index <= Len(callbacks)
    BY <2>1, <2>2
  <2>4. haveCallbacks = (callbacks # <<>>)
    BY <2>1, Zenon
  <2>5. QED
    BY <1>2, <2>3, <2>4 DEF CallbacksInv
<1>4. /\ main \in Main /\ call \in Call /\ worker \in Worker
      /\ notifier \in Notifier
  <2>1. Idle \in Main /\ NoCall \in Call /\ AtRest \in Worker
    BY <1>1 DEF Idle, Main, NoCall, Call, AtRest, Worker
  <2>2. Unregistered \in Notifier
    BY <1>1 DEF Unregistered, Notifier
  <2>3. QED
    BY <2>1, <2>2 DEF Init
<1>5. /\ latest \in Version /\ changing \in Change /\ skipVersion \in Version
      /\ realm \in [version : Version, writing : BOOLEAN]
      /\ signal \in BOOLEAN /\ wake \in BOOLEAN /\ haveCallbacks \in BOOLEAN
  BY <1>1 DEF Init
<1>6. NotificationsTypeOK
  BY <1>2, <1>4, <1>5 DEF NotificationsTypeOK
<1>7. ~Running
  BY DEF Init, Running, AtRest
<1>8. QED
  BY <1>3, <1>6, <1>7 DEF NotificationsInv

-----------------------------------------------------------------------------
\* Types of the notifier, its worker and its Realm, for any number of commits and
\* of callbacks: the position and the count of a delivery included.
THEOREM NotificationsTypeCorrect == Spec => []NotificationsTypeOK
<1>1. NotificationsInv => NotificationsTypeOK
  BY DEF NotificationsInv
<1>2. QED
  BY <1>1, NotificationsStart, NotificationsStep, PTL DEF Spec

\* Callbacks are added and removed from any thread, and in a delivery by the
\* callbacks themselves: m_have_callbacks hides them at no time, although it is
\* set only outside deliveries.
THEOREM CallbacksAreKnownHolds == Spec => []CallbacksAreKnown
<1>1. NotificationsInv => CallbacksAreKnown
  BY DEF NotificationsInv, CallbacksInv, CallbacksAreKnown
<1>2. QED
  BY <1>1, NotificationsStart, NotificationsStep, PTL DEF Spec

-----------------------------------------------------------------------------
(***************************************************************************)
(* Versions: where the worker is going, and where the Realm.               *)
(***************************************************************************)

\* The worker runs the query of a registered notifier at one version, or at one
\* and a later one; it never goes back, and not past the one to be skipped.
TodoInv ==
  /\ ~Running => worker.todo = <<>>
  /\ Running =>
       \E v, w \in notifier.version .. latest :
         /\ worker.todo \in {<<w>>, <<v, w>>}
         /\ worker.todo = <<w>> => v = w
         /\ v <= w
         /\ skipVersion # 0 => w <= skipVersion
  /\ Running \/ notifier.hasRun \/ skipVersion # 0 => notifier.place = "main"
  /\ skipVersion # 0 => notifier.version <= skipVersion
  /\ skipVersion <= latest
  /\ notifier.version <= latest

\* What there is to do, as the actions look at it.
LEMMA One ==
  ASSUME NEW w, NEW todo, todo = <<w>>
  PROVE  Head(todo) = w /\ Last(todo) = w /\ Tail(todo) = <<>> /\ Len(todo) = 1
BY DEF Last

LEMMA Two ==
  ASSUME NEW v, NEW w, NEW todo, todo = <<v, w>>
  PROVE  Head(todo) = v /\ Last(todo) = w /\ Tail(todo) = <<w>> /\ Len(todo) = 2
BY DEF Last

\* A Realm on its way to another version goes forward, and if a package is on
\* the way with it the notifier is there; who writes has the latest version.
TripInv ==
  /\ realm.version <= latest /\ main.to <= latest
  /\ main.pc \in {"wait", "before", "advance"} =>
       realm.version <= main.to /\ ~realm.writing
  /\ main.pc \in {"deliver", "after"} =>
       main.to = realm.version /\ realm.writing = (main.goal = "write")
  /\ main.packed => main.to <= notifier.version /\ notifier.hasRun
  /\ main.pc \in {"idle", "wait", "commit"} => ~main.packed
  /\ main.pc \in {"before", "deliver", "after"} => main.packed
  /\ main.pc = "commit" => realm.writing
  /\ main.pc \in {"wait", "advance", "commit"} => call = NoCall
  /\ realm.writing => realm.version = latest
  /\ main.pc # "idle" /\ main.goal = "write" => main.to = latest

\* A TableView is at the version of the notifier until it is packaged, and at the
\* one that the Realm is going to from then on.
ViewInv ==
  /\ notifier.handover \in {NoView, notifier.version}
  /\ notifier.place = "none" => notifier.handover = NoView
  /\ main.pc \in {"before", "advance", "deliver"} /\ main.packed =>
       notifier.toDeliver \in {NoView, main.to}

VersionsInv == NotificationsInv /\ TodoInv /\ TripInv /\ ViewInv /\ WaitIsAnswered

\* What the proofs below need to know of types.
LEMMA VersionTypes ==
  ASSUME NotificationsInv
  PROVE  /\ MaxVersion \in Nat /\ Version = 0 .. MaxVersion
         /\ latest \in Version /\ skipVersion \in Version
         /\ realm \in [version : Version, writing : BOOLEAN]
         /\ main \in Main /\ main.to \in Version /\ main.packed \in BOOLEAN
         /\ worker \in Worker /\ worker.todo \in Seq(Version)
         /\ notifier \in Notifier /\ notifier.version \in Version
         /\ notifier.seen \in Version
BY MaxAssumption
   DEF NotificationsInv, NotificationsTypeOK, Version, Main, Worker, Notifier

\* Packaging and delivering leave the notifier where it was.
LEMMA PackageEffect ==
  ASSUME NotificationsInv, Package
  PROVE  /\ notifier'.version = notifier.version
         /\ (notifier'.hasRun <=> notifier.hasRun)
         /\ notifier'.place = notifier.place
         /\ notifier'.seen = notifier.seen
         /\ CanPackage => /\ notifier'.toDeliver = notifier.handover
                          /\ notifier'.handover = NoView
         /\ ~CanPackage => notifier' = notifier
BY VersionTypes DEF Package, CanPackage, Notifier

LEMMA RegisteredEffect ==
  ASSUME NotificationsInv, notifier' = Registered
  PROVE  /\ (notifier'.hasRun <=> notifier.hasRun)
         /\ notifier'.seen = notifier.seen
         /\ notifier'.handover = notifier.handover
         /\ notifier'.toDeliver = notifier.toDeliver
         /\ notifier.place # "none" => notifier' = notifier
         /\ notifier.place = "none" => /\ notifier'.place = "new"
                                       /\ notifier'.version = realm.version
BY VersionTypes DEF Registered, Notifier

LEMMA HandoverEffect ==
  ASSUME NotificationsInv, TodoInv, PrepareHandover
  PROVE  /\ Running
         /\ notifier'.version = Head(worker.todo) /\ notifier'.hasRun
         /\ notifier'.place = notifier.place /\ notifier'.seen = notifier.seen
         /\ notifier'.handover \in {NoView, Head(worker.todo)}
         /\ notifier'.toDeliver = notifier.toDeliver
         /\ worker'.changes = {} /\ worker'.todo = Tail(worker.todo)
         /\ worker'.pc = IF Len(worker.todo) > 1 THEN "run" ELSE "signal"
BY VersionTypes DEF PrepareHandover, Notifier, Running

LEMMA StartEffect ==
  ASSUME NotificationsInv, Start
  PROVE  /\ worker'.ran = worker.ran /\ worker'.changes = worker.changes
         /\ notifier.place = "none" =>
              /\ worker'.pc = "signal" /\ worker'.todo = worker.todo
              /\ notifier' = notifier /\ skipVersion' = skipVersion
         /\ notifier.place # "none" =>
              /\ worker'.pc = "run"
              /\ worker'.todo = IF skipVersion = 0 THEN <<latest>>
                                                   ELSE <<skipVersion, latest>>
              /\ skipVersion' = 0
              /\ notifier'.place = "main" /\ notifier'.version = notifier.version
              /\ (notifier'.hasRun <=> notifier.hasRun)
              /\ notifier'.seen = notifier.seen
              /\ notifier'.handover = notifier.handover
              /\ notifier'.toDeliver = notifier.toDeliver
BY VersionTypes DEF Start, Worker, Notifier

LEMMA NeedToRunEffect ==
  ASSUME NotificationsInv, NEW wanted \in BOOLEAN, NeedToRun(wanted)
  PROVE  /\ worker'.todo = worker.todo /\ worker'.changes = worker.changes
         /\ worker'.ran = worker.ran
         /\ worker'.pc = IF \/ ~notifier.hasRun
                            \/ (haveCallbacks \/ wanted) /\ Since(Head(worker.todo)) # {}
                           THEN "calculate" ELSE "handover"
         /\ Running /\ Running'
BY VersionTypes DEF NeedToRun, Worker, Running

LEMMA CalculateEffect ==
  ASSUME NotificationsInv, CalculateChanges
  PROVE  /\ worker'.todo = worker.todo /\ worker'.pc = "handover"
         /\ worker'.changes = IF notifier.hasRun /\ haveCallbacks
                                THEN Since(Head(worker.todo)) ELSE {}
         /\ notifier'.version = notifier.version
         /\ (notifier'.hasRun <=> notifier.hasRun)
         /\ notifier'.place = notifier.place
         /\ notifier'.handover = notifier.handover
         /\ notifier'.toDeliver = notifier.toDeliver
         /\ notifier'.seen = Head(worker.todo)
         /\ Running /\ Running'
BY VersionTypes DEF CalculateChanges, Worker, Notifier, Running

\* Where the worker is going, seen from what it has to do.
LEMMA TodoFacts ==
  ASSUME NotificationsInv, TodoInv, Running
  PROVE  /\ Head(worker.todo) \in Version /\ Last(worker.todo) \in Version
         /\ notifier.version <= Head(worker.todo)
         /\ Head(worker.todo) <= Last(worker.todo)
         /\ Last(worker.todo) <= latest
         /\ skipVersion # 0 => Last(worker.todo) <= skipVersion
         /\ Len(worker.todo) > 1 =>
              Tail(worker.todo) = <<Last(worker.todo)>>
         /\ ~(Len(worker.todo) > 1) =>
              /\ Tail(worker.todo) = <<>> /\ Last(worker.todo) = Head(worker.todo)
              /\ worker.todo = <<Last(worker.todo)>>
         /\ Len(worker.todo) > 1 =>
              worker.todo = <<Head(worker.todo), Last(worker.todo)>>
<1>1. PICK v \in notifier.version .. latest, w \in notifier.version .. latest :
        /\ worker.todo \in {<<w>>, <<v, w>>}
        /\ worker.todo = <<w>> => v = w
        /\ v <= w
        /\ skipVersion # 0 => w <= skipVersion
  BY DEF TodoInv
<1>2. v \in Version /\ w \in Version
  BY <1>1, VersionTypes
<1>3. CASE worker.todo = <<w>>
  <2>1. /\ Head(worker.todo) = w /\ Last(worker.todo) = w
        /\ Tail(worker.todo) = <<>> /\ Len(worker.todo) = 1
    BY <1>3, One
  <2>2. QED
    BY <1>1, <1>2, <1>3, <2>1, VersionTypes
<1>4. CASE worker.todo = <<v, w>>
  <2>1. /\ Head(worker.todo) = v /\ Last(worker.todo) = w
        /\ Tail(worker.todo) = <<w>> /\ Len(worker.todo) = 2
    BY <1>4, Two
  <2>2. QED
    BY <1>1, <1>2, <1>4, <2>1, VersionTypes
<1>5. QED
  BY <1>1, <1>3, <1>4

-----------------------------------------------------------------------------
(***************************************************************************)
(* Every action keeps them.                                                *)
(***************************************************************************)

\* What the worker has to do is not touched by most of the actions.
LEMMA TodoFrame ==
  ASSUME NotificationsInv, NotificationsInv', TodoInv,
         worker'.todo = worker.todo, Running' <=> Running,
         notifier'.version = notifier.version, notifier'.place = notifier.place,
         (notifier'.hasRun <=> notifier.hasRun), skipVersion' = skipVersion,
         latest' \in {latest, latest + 1}
  PROVE  TodoInv'
BY VersionTypes DEF TodoInv, Version

LEMMA TodoStep ==
  ASSUME NotificationsInv, NotificationsInv', TodoInv, TripInv, Next
  PROVE  TodoInv'
<1>0. /\ latest \in Nat /\ skipVersion \in Nat /\ notifier.version \in Nat
      /\ realm.version \in Nat /\ realm.version <= latest
      /\ skipVersion <= latest /\ notifier.version <= latest
      /\ Running \/ notifier.hasRun \/ skipVersion # 0 => notifier.place = "main"
      /\ skipVersion # 0 => notifier.version <= skipVersion
      /\ ~Running => worker.todo = <<>>
  BY VersionTypes DEF Version, TodoInv, TripInv
<1>1. CASE Start
  <2>1. ~Running /\ latest' = latest /\ worker.todo = <<>>
    BY <1>0, <1>1 DEF Start, Running
  <2>2. CASE notifier.place = "none"
    <3>1. ~Running'
      BY <1>1, <2>2, StartEffect DEF Running
    <3>2. QED
      BY <1>0, <1>1, <2>1, <2>2, <3>1, StartEffect DEF TodoInv
  <2>3. CASE notifier.place # "none"
    <3> DEFINE v == IF skipVersion = 0 THEN latest ELSE skipVersion
    <3>1. /\ Running' /\ skipVersion' = 0 /\ notifier'.place = "main"
          /\ notifier'.version = notifier.version
          /\ worker'.todo = IF skipVersion = 0 THEN <<latest>> ELSE <<v, latest>>
      BY <1>1, <2>3, StartEffect DEF Running
    <3>2. /\ v \in notifier'.version .. latest' /\ latest \in notifier'.version .. latest'
          /\ v <= latest
      BY <1>0, <2>1, <3>1
    <3>3. /\ worker'.todo \in {<<latest>>, <<v, latest>>}
          /\ worker'.todo = <<latest>> => v = latest
      <4>1. <<v, latest>> # <<latest>>
        BY One, Two
      <4>2. QED
        BY <3>1, <4>1
    <3> HIDE DEF v
    <3>4. QED
      BY <1>0, <2>1, <3>1, <3>2, <3>3 DEF TodoInv
  <2>4. QED
    BY <2>2, <2>3
<1>2. ASSUME NEW wanted \in BOOLEAN, NeedToRun(wanted)
      PROVE  TodoInv'
  BY <1>2, NeedToRunEffect, TodoFrame DEF NeedToRun, notifierVars
<1>3. CASE CalculateChanges
  <2>1. Running' <=> Running
    BY <1>3, CalculateEffect, Zenon
  <2>2. skipVersion' = skipVersion /\ latest' = latest
    BY <1>3 DEF CalculateChanges
  <2>3. QED
    BY <1>3, <2>1, <2>2, CalculateEffect, TodoFrame
<1>4. CASE PrepareHandover
  <2>1. /\ Running /\ notifier'.version = Head(worker.todo)
        /\ notifier'.place = notifier.place
        /\ worker'.todo = Tail(worker.todo)
        /\ worker'.pc = IF Len(worker.todo) > 1 THEN "run" ELSE "signal"
    BY <1>4, HandoverEffect
  <2>2. latest' = latest /\ skipVersion' = skipVersion
    BY <1>4 DEF PrepareHandover
  <2>3. CASE Len(worker.todo) > 1
    <3>1. Running' /\ worker'.todo = <<Last(worker.todo)>>
      BY <2>1, <2>3, TodoFacts DEF Running
    <3>w. PICK w : w = Last(worker.todo)
      OBVIOUS
    <3>2. /\ w \in notifier'.version .. latest'
          /\ skipVersion' # 0 => w <= skipVersion'
          /\ notifier'.version \in Nat
      BY <3>w, <1>0, <2>1, <2>2, TodoFacts, VersionTypes
    <3>3. skipVersion' # 0 => notifier'.version <= skipVersion'
      BY <1>0, <2>1, <2>2, TodoFacts, VersionTypes
    <3>4. notifier'.version <= latest' /\ latest' \in Nat
      <4>1. w \in Nat /\ notifier'.version <= w /\ w <= latest
        BY <3>w, <2>1, TodoFacts, VersionTypes
      <4>2. QED
        BY <1>0, <2>2, <3>2, <4>1
    <3>5. worker'.todo = <<w>>
      BY <3>w, <3>1
    <3>6. w <= w
      BY <3>w, <2>1, TodoFacts, VersionTypes
    <3>7. \E v, z \in notifier'.version .. latest' :
            /\ worker'.todo \in {<<z>>, <<v, z>>}
            /\ worker'.todo = <<z>> => v = z
            /\ v <= z
            /\ skipVersion' # 0 => z <= skipVersion'
      <4>1. worker'.todo \in {<<w>>, <<w, w>>}
        BY <3>5
      <4>2. QED
        BY <3>2, <3>6, <4>1
    <3>8. QED
      BY <1>0, <2>1, <2>2, <3>1, <3>3, <3>4, <3>7 DEF TodoInv
  <2>4. CASE ~(Len(worker.todo) > 1)
    <3>1. ~Running' /\ worker'.todo = <<>>
      BY <2>1, <2>4, TodoFacts DEF Running
    <3>2. QED
      BY <1>0, <2>1, <2>2, <2>4, <3>1, TodoFacts DEF TodoInv, Version
  <2>5. QED
    BY <2>3, <2>4
<1>5. CASE Signal
  BY <1>5, TodoFrame DEF Signal, notifierVars, Running, AtRest, TodoInv
<1>6. CASE ReadResults \/ AddCallback
  <2>1. /\ notifier' = Registered /\ worker' = worker /\ latest' = latest
        /\ skipVersion' = skipVersion
    BY <1>6 DEF ReadResults, AddCallback
  <2>2. CASE notifier.place = "none"
    BY <1>0, <2>1, <2>2, RegisteredEffect DEF TodoInv, Running
  <2>3. CASE notifier.place # "none"
    BY <2>1, <2>3, RegisteredEffect, TodoFrame DEF Running
  <2>4. QED
    BY <2>2, <2>3
<1>7. CASE Notify \/ PackageAndWait
  <2>1. CASE NotifyInVain
    BY <2>1, TodoFrame DEF NotifyInVain, notifierVars, Running
  <2>2. CASE ProcessAvailable \/ AdvanceToReady \/ PackageAndWait
    BY <2>2, PackageEffect, TodoFrame
       DEF ProcessAvailable, AdvanceToReady, PackageAndWait, Running
  <2>3. QED
    BY <1>7, <2>1, <2>2 DEF Notify
<1>8. CASE Deliver
  <2>1. /\ notifier'.version = notifier.version /\ notifier'.place = notifier.place
        /\ (notifier'.hasRun <=> notifier.hasRun)
    BY <1>8, VersionTypes DEF Deliver, Notifier
  <2>2. QED
    BY <1>8, <2>1, TodoFrame DEF Deliver, Running
<1>9. CASE CommitWrite
  <2>1. /\ worker' = worker /\ notifier' = notifier /\ latest' = latest + 1
        /\ skipVersion' = IF notifier.place = "main" THEN latest + 1 ELSE skipVersion
    BY <1>9 DEF CommitWrite, NewVersion, notifierVars
  <2>2. CASE Running
    <3>1. PICK v \in notifier.version .. latest, w \in notifier.version .. latest :
            /\ worker.todo \in {<<w>>, <<v, w>>}
            /\ worker.todo = <<w>> => v = w
            /\ v <= w
      BY <2>2 DEF TodoInv
    <3>2. /\ v \in notifier'.version .. latest' /\ w \in notifier'.version .. latest'
          /\ skipVersion' # 0 => w <= skipVersion'
      BY <1>0, <2>1, <2>2, <3>1
    <3>3. QED
      BY <1>0, <2>1, <2>2, <3>1, <3>2 DEF TodoInv, Running
  <2>3. CASE ~Running
    BY <1>0, <2>1, <2>3 DEF TodoInv, Running
  <2>4. QED
    BY <2>2, <2>3
<1>10. CASE OtherCommit
  BY <1>10, TodoFrame DEF OtherCommit, NewVersion, notifierVars, Running
<1>11. CASE \/ Refresh \/ BeginWrite \/ CancelWrite \/ FailToCommit \/ OtherWake
            \/ BeforeAdvance \/ Advance \/ AfterAdvance \/ Return
            \/ \E unwanted \in SUBSET DOMAIN callbacks : SuppressNext(unwanted)
            \/ \E i \in DOMAIN callbacks : RemoveCallback(i)
  <2>1. /\ worker' = worker /\ notifier' = notifier /\ latest' = latest
        /\ skipVersion' = skipVersion
    BY <1>11 DEF Refresh, BeginWrite, CancelWrite, FailToCommit, OtherWake,
                 BeforeAdvance, Advance, AfterAdvance, Return, SuppressNext,
                 RemoveCallback, notifierVars
  <2>2. QED
    BY <2>1, TodoFrame DEF Running
<1>12. QED
  BY <1>1, <1>2, <1>3, <1>4, <1>5, <1>6, <1>7, <1>8, <1>9, <1>10, <1>11, Zenon
     DEF Next, Common, Work, Notify, Send, Write

\* The notifier never goes back.
LEMMA NotifierForward ==
  ASSUME NotificationsInv, TodoInv, Next
  PROVE  notifier.hasRun => /\ notifier'.hasRun
                            /\ notifier.version <= notifier'.version
<1>0. /\ notifier.version \in Nat
      /\ notifier.hasRun => notifier.place # "none"
      /\ Running => notifier.version <= Head(worker.todo)
  BY VersionTypes, TodoFacts DEF Version, TodoInv
<1>1. CASE Start
  BY <1>0, <1>1, StartEffect
<1>2. CASE CalculateChanges
  BY <1>0, <1>2, CalculateEffect
<1>3. CASE PrepareHandover
  BY <1>0, <1>3, HandoverEffect
<1>4. CASE ReadResults \/ AddCallback
  BY <1>0, <1>4, RegisteredEffect DEF ReadResults, AddCallback
<1>5. CASE ProcessAvailable \/ AdvanceToReady \/ PackageAndWait
  BY <1>0, <1>5, PackageEffect DEF ProcessAvailable, AdvanceToReady, PackageAndWait
<1>6. CASE Deliver
  BY <1>0, <1>6, VersionTypes DEF Deliver, Notifier
<1>7. CASE \/ Refresh \/ BeginWrite \/ CancelWrite \/ FailToCommit \/ OtherWake
           \/ BeforeAdvance \/ Advance \/ AfterAdvance \/ Return \/ Signal
           \/ NotifyInVain \/ CommitWrite \/ OtherCommit
           \/ \E unwanted \in SUBSET DOMAIN callbacks : SuppressNext(unwanted)
           \/ \E i \in DOMAIN callbacks : RemoveCallback(i)
           \/ \E wanted \in BOOLEAN : NeedToRun(wanted)
  BY <1>0, <1>7 DEF Refresh, BeginWrite, CancelWrite, FailToCommit, OtherWake,
       BeforeAdvance, Advance, AfterAdvance, Return, SuppressNext, Signal,
       RemoveCallback, NeedToRun, NotifyInVain, CommitWrite, OtherCommit, notifierVars
<1>8. QED
  BY <1>1, <1>2, <1>3, <1>4, <1>5, <1>6, <1>7, Zenon
     DEF Next, Common, Work, Notify, Send, Write

\* Of the Realm's trip, the actions of its own thread.
LEMMA PackageAndWaitEffect ==
  ASSUME NotificationsInv, PackageAndWait
  PROVE  /\ main.pc = "wait" /\ Ready(main.to)
         /\ main'.goal = main.goal
         /\ main'.pc \in {"before", "advance"}
         /\ main'.packed <=> CanPackage /\ notifier.version >= main.to
         /\ main'.to = IF main'.packed THEN notifier.version ELSE latest
         /\ main'.pc = "before" <=>
              main'.packed /\ (main.goal = "read" \/ main'.to > realm.version)
<1> DEFINE packed == CanPackage /\ notifier.version >= main.to
           to == IF packed THEN notifier.version ELSE latest
           pc == IF packed /\ (main.goal = "read" \/ to > realm.version)
                   THEN "before" ELSE "advance"
<1>1. /\ main' = [main EXCEPT !.pc = pc, !.to = to, !.packed = packed]
      /\ main.pc = "wait" /\ Ready(main.to)
  BY DEF PackageAndWait
<1>2. packed \in BOOLEAN
  BY VersionTypes DEF CanPackage, Notifier
<1>3. main \in Main
  BY VersionTypes
<1>4. /\ main'.goal = main.goal /\ main'.pc = pc /\ main'.to = to
      /\ (main'.packed <=> packed)
  <2> HIDE DEF packed, to, pc
  <2>1. QED
    BY <1>1, <1>2, <1>3 DEF Main
<1>5. QED
  BY <1>1, <1>4

LEMMA TripStep ==
  ASSUME NotificationsInv, NotificationsInv', TodoInv, TripInv, Next
  PROVE  TripInv'
<1>0. /\ latest \in Nat /\ notifier.version \in Nat /\ realm.version \in Nat
      /\ main.to \in Nat /\ main.packed \in BOOLEAN /\ realm.writing \in BOOLEAN
      /\ notifier.version <= latest
      /\ main \in Main /\ realm \in [version : Version, writing : BOOLEAN]
  BY VersionTypes DEF Version, TodoInv
<1>1. /\ notifier.hasRun => /\ notifier'.hasRun
                            /\ notifier.version <= notifier'.version
      /\ notifier'.version \in Nat
  BY NotifierForward, VersionTypes DEF NotificationsInv, NotificationsTypeOK, Notifier, Version
<1>n. main.packed => main.to <= notifier'.version /\ notifier'.hasRun
  <2>1. main.packed => main.to <= notifier.version /\ notifier.hasRun
    BY DEF TripInv
  <2>2. CASE main.packed
    <3>1. notifier.version <= notifier'.version
      BY <1>1, <2>1, <2>2
    <3>2. QED
      BY <1>0, <1>1, <2>1, <2>2, <3>1
  <2>3. QED
    BY <2>2
<1>2. CASE UNCHANGED <<main, realm, latest>> /\ (call' = call \/ call' = NoCall)
  BY <1>2, <1>n DEF TripInv
<1>3. CASE BeginWrite \/ Refresh
  BY <1>0, <1>3 DEF BeginWrite, Refresh, TripInv, Free
<1>4. CASE PackageAndWait
  <2>1. realm' = realm /\ latest' = latest
    BY <1>4 DEF PackageAndWait
  <2>2. main.goal = "write" => main.to = latest
    BY <1>4 DEF TripInv, PackageAndWait
  <2>3. realm.version <= main.to /\ main.to <= latest /\ ~realm.writing
    BY <1>4 DEF TripInv, PackageAndWait
  <2>4. notifier'.version = notifier.version /\ (notifier'.hasRun <=> notifier.hasRun)
    BY <1>4, PackageEffect DEF PackageAndWait
  <2>5. call' = NoCall
    BY <1>4 DEF PackageAndWait, TripInv
  <2>6. QED
    BY <1>0, <1>4, <2>1, <2>2, <2>3, <2>4, <2>5, PackageAndWaitEffect
       DEF TripInv, CanPackage
<1>5. CASE ProcessAvailable \/ AdvanceToReady
  <2>1. notifier'.version = notifier.version /\ (notifier'.hasRun <=> notifier.hasRun)
    BY <1>5, PackageEffect DEF ProcessAvailable, AdvanceToReady
  <2>2. QED
    BY <1>0, <1>5, <2>1
       DEF ProcessAvailable, AdvanceToReady, TripInv, CanPackage, Idle, Free
<1>6. CASE BeforeAdvance
  <2>1. CASE main' = [main EXCEPT !.pc = "advance"]
    <3>1. /\ main'.pc = "advance" /\ main'.goal = main.goal
          /\ main'.to = main.to /\ main'.packed = main.packed
      BY <1>0, <2>1 DEF Main
    <3>2. /\ main.pc = "before" /\ realm' = realm /\ latest' = latest
          /\ call' = NoCall
      BY <1>6, <3>1 DEF BeforeAdvance
    <3>3. QED
      BY <1>n, <3>1, <3>2 DEF TripInv
  <2>2. CASE UNCHANGED <<main, realm, latest>>
    BY <1>6, <1>n, <2>2 DEF BeforeAdvance, TripInv
  <2>3. QED
    BY <1>6, <2>1, <2>2 DEF BeforeAdvance
<1>7. CASE Advance
  <2>1. /\ main.pc = "advance" /\ latest' = latest
        /\ realm'.version = main.to
        /\ realm'.writing <=> main.goal = "write"
    BY <1>7 DEF Advance
  <2>2. CASE main.packed
    <3>1. main' = [main EXCEPT !.pc = "deliver"]
      BY <1>7, <2>2 DEF Advance
    <3>2. /\ main'.pc = "deliver" /\ main'.goal = main.goal
          /\ main'.to = main.to /\ main'.packed = main.packed
      BY <1>0, <3>1 DEF Main
    <3>3. realm'.writing = (main.goal = "write")
      BY <1>7 DEF Advance
    <3>4. QED
      BY <1>0, <1>n, <2>1, <2>2, <3>2, <3>3 DEF TripInv
  <2>3. CASE ~main.packed
    BY <1>0, <1>7, <2>1, <2>3 DEF Advance, TripInv, Idle
  <2>4. QED
    BY <2>2, <2>3
<1>8. CASE Deliver
  <2>1. /\ main'.pc = "after" /\ main'.goal = main.goal
        /\ main'.to = main.to /\ main'.packed = main.packed
    BY <1>0, <1>8 DEF Deliver, Main
  <2>2. QED
    BY <1>8, <1>n, <2>1 DEF TripInv, Deliver
<1>9. CASE AfterAdvance
  <2>1. CASE main' = Idle
    BY <1>0, <1>9, <2>1 DEF AfterAdvance, TripInv, Idle
  <2>2. CASE UNCHANGED <<main, realm, latest>>
    BY <1>9, <1>n, <2>2 DEF AfterAdvance, TripInv
  <2>3. QED
    BY <1>9, <2>1, <2>2 DEF AfterAdvance
<1>10. ASSUME NEW unwanted \in SUBSET DOMAIN callbacks, SuppressNext(unwanted)
       PROVE  TripInv'
  BY <1>0, <1>10 DEF SuppressNext, TripInv, Idle, Free
<1>11. CASE CommitWrite
  BY <1>0, <1>11 DEF CommitWrite, NewVersion, TripInv, Idle
<1>12. CASE CancelWrite \/ FailToCommit
  <2>1. /\ realm'.version = realm.version /\ realm'.writing = FALSE
        /\ latest' = latest
    BY <1>0, <1>12 DEF CancelWrite, FailToCommit
  <2>2. /\ main'.pc = "idle"
        /\ main'.to <= main.to
        /\ ~main'.packed
    BY <1>0, <1>12 DEF CancelWrite, FailToCommit, Idle, Free, TripInv
  <2>3. main'.to \in Nat
    BY <1>0, <1>12 DEF CancelWrite, FailToCommit, Idle
  <2>4. QED
    BY <1>0, <2>1, <2>2, <2>3 DEF TripInv
<1>13. CASE OtherCommit
  BY <1>0, <1>n, <1>13 DEF OtherCommit, NewVersion, TripInv, Locked
<1>14. CASE \/ ReadResults \/ AddCallback \/ Work \/ NotifyInVain \/ OtherWake
            \/ Return \/ \E i \in DOMAIN callbacks : RemoveCallback(i)
  BY <1>2, <1>14 DEF ReadResults, AddCallback, Work, NotifyInVain, OtherWake, Return,
       RemoveCallback, Start, NeedToRun, CalculateChanges, PrepareHandover, Signal
<1>15. QED
  BY <1>3, <1>4, <1>5, <1>6, <1>7, <1>8, <1>9, <1>10, <1>11, <1>12, <1>13, <1>14, Zenon
     DEF Next, Common, Notify, Send, Write

LEMMA ViewStep ==
  ASSUME NotificationsInv, TodoInv, TripInv, ViewInv, Next
  PROVE  ViewInv'
<1>0. /\ main \in Main /\ notifier.version \in Nat
      /\ notifier.place = "none" => notifier.handover = NoView
      /\ notifier.hasRun => notifier.place # "none"
      /\ main.to \in Nat
  BY VersionTypes DEF TodoInv, ViewInv, Version
<1>1. ASSUME notifier'.version = notifier.version,
             notifier'.handover = notifier.handover,
             notifier'.place = "none" => notifier.place = "none",
             notifier'.toDeliver = notifier.toDeliver,
             main'.pc \in {"before", "advance", "deliver"} /\ main'.packed =>
               /\ main.pc \in {"before", "advance", "deliver"} /\ main.packed
               /\ main'.to = main.to
      PROVE  ViewInv'
  BY <1>1 DEF ViewInv
<1>2. CASE Start
  BY <1>1, <1>2, StartEffect DEF Start
<1>3. CASE CalculateChanges
  BY <1>1, <1>3, CalculateEffect DEF CalculateChanges
<1>4. CASE PrepareHandover
  BY <1>0, <1>4, HandoverEffect DEF ViewInv, TodoInv, PrepareHandover
<1>5. CASE ReadResults \/ AddCallback
  BY <1>0, <1>1, <1>5, RegisteredEffect DEF ReadResults, AddCallback, ViewInv
<1>6. CASE Package /\ (main'.packed => CanPackage /\ main'.to = notifier.version)
                   /\ (main.packed => ~CanPackage)
  BY <1>0, <1>6, PackageEffect DEF ViewInv, CanPackage
<1>7. CASE PackageAndWait
  BY <1>6, <1>7, PackageAndWaitEffect DEF PackageAndWait, TripInv
<1>8. CASE ProcessAvailable \/ AdvanceToReady
  BY <1>6, <1>8 DEF ProcessAvailable, AdvanceToReady, TripInv, Free, Idle
<1>9. CASE Deliver
  <2>1. /\ notifier'.version = notifier.version
        /\ notifier'.handover = notifier.handover
        /\ notifier'.place = notifier.place
    BY <1>9, VersionTypes DEF Deliver, Notifier
  <2>2. main'.pc = "after"
    BY <1>0, <1>9 DEF Deliver, Main
  <2>3. QED
    BY <2>1, <2>2 DEF ViewInv
<1>10. CASE BeforeAdvance \/ Advance \/ AfterAdvance
  <2>1. main'.pc \in {"before", "advance", "deliver"} /\ main'.packed =>
          /\ main.pc \in {"before", "advance", "deliver"} /\ main.packed
          /\ main'.to = main.to
    BY <1>0, <1>10 DEF BeforeAdvance, Advance, AfterAdvance, Main, Idle
  <2>2. QED
    BY <1>1, <1>10, <2>1 DEF BeforeAdvance, Advance, AfterAdvance, notifierVars
<1>11. CASE \/ Refresh \/ BeginWrite \/ CancelWrite \/ FailToCommit \/ OtherWake
            \/ Return \/ Signal \/ NotifyInVain \/ CommitWrite \/ OtherCommit
            \/ \E unwanted \in SUBSET DOMAIN callbacks : SuppressNext(unwanted)
            \/ \E i \in DOMAIN callbacks : RemoveCallback(i)
            \/ \E wanted \in BOOLEAN : NeedToRun(wanted)
  <2>1. notifier' = notifier
    BY <1>11 DEF Refresh, BeginWrite, CancelWrite, FailToCommit, OtherWake, Return,
         SuppressNext, Signal, RemoveCallback, NeedToRun, NotifyInVain, CommitWrite,
         OtherCommit, notifierVars
  <2>2. main' = main \/ main'.pc \in {"wait", "idle", "commit"}
    BY <1>11 DEF Refresh, BeginWrite, CancelWrite, FailToCommit, OtherWake, Return,
         SuppressNext, Signal, RemoveCallback, NeedToRun, NotifyInVain, CommitWrite,
         OtherCommit, Idle
  <2>3. QED
    BY <1>1, <2>1, <2>2
<1>12. QED
  BY <1>2, <1>3, <1>4, <1>5, <1>7, <1>8, <1>9, <1>10, <1>11, Zenon
     DEF Next, Common, Work, Notify, Send, Write

LEMMA WaitStep ==
  ASSUME NotificationsInv, NotificationsInv', TodoInv, TripInv, WaitIsAnswered, Next
  PROVE  WaitIsAnswered'
<1> SUFFICES ASSUME main'.pc = "wait", ~Ready(main.to)', ~wake'
             PROVE  Running' /\ Last(worker'.todo) >= main'.to
  BY DEF WaitIsAnswered
<1>0. /\ main \in Main /\ main.to \in Nat /\ latest \in Nat
      /\ main.to <= latest /\ haveCallbacks \in BOOLEAN
      /\ notifier.version \in Nat
  <2>1. /\ main \in Main /\ main.to \in Nat /\ latest \in Nat
        /\ notifier.version \in Nat
    BY VersionTypes DEF Version
  <2>2. main.to <= latest /\ haveCallbacks \in BOOLEAN
    BY DEF TripInv, NotificationsInv, NotificationsTypeOK
  <2>3. QED
    BY <2>1, <2>2
<1>1. /\ notifier'.place # "none" /\ haveCallbacks'
      /\ ~(notifier'.hasRun /\ notifier'.version >= main'.to)
  BY DEF Ready
<1>2. ASSUME main' = main, wake' = wake, Running' <=> Running,
             worker'.todo = worker.todo, notifier'.place = notifier.place,
             notifier'.version = notifier.version,
             notifier'.hasRun <=> notifier.hasRun,
             haveCallbacks
      PROVE  Running' /\ Last(worker'.todo) >= main'.to
  <2>1. ~Ready(main.to) /\ ~wake /\ main.pc = "wait"
    BY <1>1, <1>2 DEF Ready
  <2>2. QED
    BY <1>2, <2>1 DEF WaitIsAnswered
<1>3. CASE Start
  <2>1. notifier.place # "none" /\ main' = main
    BY <1>1, <1>3, StartEffect DEF Start
  <2>2. /\ worker'.todo = IF skipVersion = 0 THEN <<latest>>
                                             ELSE <<skipVersion, latest>>
        /\ Running'
    BY <1>3, <2>1, StartEffect DEF Running
  <2>3. Last(worker'.todo) = latest
    BY <2>2, One, Two
  <2>4. QED
    BY <1>0, <2>1, <2>2, <2>3
<1>4. ASSUME NEW wanted \in BOOLEAN, NeedToRun(wanted)
      PROVE  Running' /\ Last(worker'.todo) >= main'.to
  BY <1>1, <1>2, <1>4, NeedToRunEffect DEF NeedToRun, notifierVars
<1>5. CASE CalculateChanges
  BY <1>1, <1>2, <1>5, CalculateEffect DEF CalculateChanges
<1>6. CASE PrepareHandover
  <2>1. /\ main' = main /\ wake' = wake /\ haveCallbacks' = haveCallbacks
        /\ Running /\ notifier'.version = Head(worker.todo) /\ notifier'.hasRun
        /\ notifier'.place = notifier.place
        /\ worker'.todo = Tail(worker.todo)
        /\ worker'.pc = IF Len(worker.todo) > 1 THEN "run" ELSE "signal"
    BY <1>6, HandoverEffect DEF PrepareHandover
  <2>2. Last(worker.todo) >= main.to
    <3>1. notifier.hasRun => notifier.version <= notifier'.version
      BY NotifierForward
    <3>2. ~(notifier'.version >= main.to) /\ notifier'.version \in Nat
      BY <1>1, <2>1, TodoFacts DEF Version
    <3>3. ~Ready(main.to)
      BY <1>0, <1>1, <2>1, <3>1, <3>2 DEF Ready
    <3>4. QED
      BY <2>1, <3>3 DEF WaitIsAnswered
  <2>3. Len(worker.todo) > 1
    BY <1>0, <1>1, <2>1, <2>2, TodoFacts DEF Version
  <2>4. worker'.todo = <<Last(worker.todo)>> /\ Running'
    BY <2>1, <2>3, TodoFacts DEF Running
  <2>5. Last(worker'.todo) = Last(worker.todo)
    BY <2>4, One
  <2>6. QED
    BY <2>1, <2>2, <2>4, <2>5
<1>7. CASE Signal
  <2>1. ~Running /\ ~Running' /\ worker.todo = <<>> /\ worker'.todo = <<>>
    BY <1>7 DEF Signal, Running, AtRest, TodoInv
  <2>2. QED
    BY <1>1, <1>2, <1>7, <2>1 DEF Signal, notifierVars
<1>8. ~UserRuns \/ main' # main
  BY DEF UserRuns, TripInv
<1>9. CASE BeginWrite \/ Refresh
  <2>1. /\ main'.to = latest /\ notifier' = notifier
        /\ haveCallbacks' = haveCallbacks
    BY <1>9 DEF BeginWrite, Refresh, notifierVars
  <2>2. ~Ready(latest)
    BY <1>1, <2>1 DEF Ready
  <2>3. wake' = (wake \/ ~Ready(latest))
    BY <1>9 DEF BeginWrite, Refresh
  <2>4. QED
    BY <2>2, <2>3, Zenon
<1>10. ASSUME NEW i \in DOMAIN callbacks, RemoveCallback(i)
       PROVE  Running' /\ Last(worker'.todo) >= main'.to
  <2>1. haveCallbacks
    <3>1. callbacks # <<>> /\ haveCallbacks = (callbacks # <<>>)
      BY EmptySeq DEF NotificationsInv, CallbacksInv
    <3>2. QED
      BY <3>1, Zenon
  <2>2. QED
    BY <1>2, <1>10, <2>1 DEF RemoveCallback, Running
<1>11. CASE \/ Notify \/ Send \/ CommitWrite \/ CancelWrite \/ FailToCommit
            \/ \E unwanted \in SUBSET DOMAIN callbacks : SuppressNext(unwanted)
  <2>1. CASE BeforeAdvance
    BY <1>0, <2>1 DEF BeforeAdvance, Main
  <2>2. CASE Advance \/ Deliver
    BY <1>0, <2>2 DEF Advance, Deliver, Main, Idle
  <2>3. CASE AfterAdvance
    BY <1>0, <2>3 DEF AfterAdvance, Main, Idle
  <2>4. CASE PackageAndWait
    BY <2>4, PackageAndWaitEffect
  <2>5. CASE Notify
    BY <2>5 DEF Notify, NotifyInVain, ProcessAvailable, AdvanceToReady, Free, Idle
  <2>6. CASE \/ CommitWrite \/ CancelWrite \/ FailToCommit
             \/ \E unwanted \in SUBSET DOMAIN callbacks : SuppressNext(unwanted)
    BY <2>6 DEF CommitWrite, CancelWrite, FailToCommit, SuppressNext, Free, Idle
  <2>7. QED
    BY <1>11, <2>1, <2>2, <2>3, <2>4, <2>5, <2>6 DEF Send
<1>12. CASE OtherCommit \/ OtherWake
  BY <1>12 DEF OtherCommit, NewVersion, OtherWake
<1>13. CASE Return
  <2>1. call # NoCall /\ main' = main
    BY <1>13 DEF Return
  <2>2. QED
    BY <2>1 DEF TripInv
<1>14. CASE ReadResults \/ AddCallback
  BY <1>8, <1>14 DEF ReadResults, AddCallback
<1>15. QED
  BY <1>3, <1>4, <1>5, <1>6, <1>7, <1>9, <1>10, <1>11, <1>12, <1>13, <1>14, Zenon
     DEF Next, Common, Work, Write

LEMMA VersionsStart == Init => VersionsInv
<1> SUFFICES ASSUME Init
             PROVE  VersionsInv
  OBVIOUS
<1>1. NotificationsInv
  BY NotificationsStart
<1>2. /\ latest = 0 /\ skipVersion = 0 /\ ~Running /\ worker.todo = <<>>
      /\ realm.version = 0 /\ realm.writing = FALSE
      /\ main.pc = "idle" /\ main.goal = "read" /\ main.to = 0
      /\ main.packed = FALSE
      /\ notifier.place = "none" /\ notifier.hasRun = FALSE
      /\ notifier.version = 0 /\ notifier.handover = NoView
  BY DEF Init, Running, AtRest, Idle, Unregistered
<1>3. TodoInv
  BY <1>2 DEF TodoInv
<1>4. TripInv
  BY <1>2 DEF TripInv
<1>5. ViewInv
  BY <1>2 DEF ViewInv
<1>6. WaitIsAnswered
  BY <1>2 DEF WaitIsAnswered
<1>7. QED
  BY <1>1, <1>3, <1>4, <1>5, <1>6 DEF VersionsInv

LEMMA VersionsStep == VersionsInv /\ [Next]_vars => VersionsInv'
<1> SUFFICES ASSUME VersionsInv, [Next]_vars
             PROVE  VersionsInv'
  OBVIOUS
<1>1. CASE Next
  <2>1. NotificationsInv'
    BY <1>1, NotificationsStep DEF VersionsInv
  <2>2. QED
    BY <1>1, <2>1, TodoStep, TripStep, ViewStep, WaitStep, Zenon DEF VersionsInv
<1>2. CASE UNCHANGED vars
  <2>1. NotificationsInv'
    BY <1>2, NotificationsStep DEF VersionsInv
  <2>2. UNCHANGED <<latest, realm, main, call, wake, worker, skipVersion,
                    notifier, haveCallbacks>>
    BY <1>2 DEF vars, notifierVars
  <2>3. TodoInv' /\ TripInv' /\ ViewInv' /\ WaitIsAnswered'
    BY <2>2 DEF VersionsInv, TodoInv, TripInv, ViewInv, WaitIsAnswered, Running, Ready
  <2>4. QED
    BY <2>1, <2>3 DEF VersionsInv
<1>3. QED
  BY <1>1, <1>2

\* Each of the actions that move the Realm moves it forward.
LEMMA RealmForward ==
  ASSUME VersionsInv, Next
  PROVE  realm'.version >= realm.version
<1>1. /\ realm.version \in Nat /\ latest \in Nat /\ realm.version <= latest
      /\ main.pc = "advance" => realm.version <= main.to
      /\ main.to \in Nat
      /\ realm \in [version : Version, writing : BOOLEAN]
  BY VersionTypes DEF VersionsInv, TripInv, Version
<1>2. CASE Advance
  BY <1>1, <1>2 DEF Advance
<1>3. CASE CommitWrite
  BY <1>1, <1>3 DEF CommitWrite
<1>4. CASE CancelWrite \/ FailToCommit
  BY <1>1, <1>4 DEF CancelWrite, FailToCommit
<1>5. CASE UNCHANGED realm
  BY <1>1, <1>5
<1>6. Advance \/ CommitWrite \/ CancelWrite \/ FailToCommit \/ UNCHANGED realm
  BY DEF Next, Common, Work, Notify, Send, Write, ReadResults, Refresh, OtherCommit,
         OtherWake, Return, AddCallback, RemoveCallback, Start, NeedToRun,
         CalculateChanges, PrepareHandover, Signal, NotifyInVain, ProcessAvailable,
         AdvanceToReady, PackageAndWait, BeforeAdvance, Deliver, AfterAdvance,
         BeginWrite, SuppressNext
<1>7. QED
  BY <1>2, <1>3, <1>4, <1>5, <1>6

LEMMA Versions == Spec => []VersionsInv
BY VersionsStart, VersionsStep, PTL DEF Spec

-----------------------------------------------------------------------------
\* A TableView is handed to the Realm only at its own version: a package is of the
\* version that the notifier has at that time, whatever the worker hands over while
\* the Realm is on its way.
THEOREM HandoverFitsHolds == Spec => []HandoverFits
<1>1. VersionsInv => HandoverFits
  BY DEF VersionsInv, TripInv, ViewInv, HandoverFits
<1>2. QED
  BY <1>1, Versions, PTL

\* package_and_wait is answered: for any number of commits by whomever, whoever
\* takes the wake-up, and whatever is suppressed, the worker goes that far.
THEOREM WaitIsAnsweredHolds == Spec => []WaitIsAnswered
<1>1. VersionsInv => WaitIsAnswered
  BY DEF VersionsInv
<1>2. QED
  BY <1>1, Versions, PTL

\* What is packaged for a write is of the latest version: a write, which begins
\* at the version of its package, is on the latest one for as long as it lasts.
THEOREM WritesOnLatestHolds == Spec => []WritesOnLatest
<1>1. VersionsInv => WritesOnLatest
  BY DEF VersionsInv, TripInv, WritesOnLatest
<1>2. QED
  BY <1>1, Versions, PTL

\* The Realm goes forward only, whichever way it takes.
THEOREM NeverGoesBackHolds == Spec => NeverGoesBack
<1>1. VersionsInv /\ [Next]_vars => [realm'.version >= realm.version]_vars
  BY RealmForward
<1>2. QED
  BY <1>1, Versions, PTL DEF Spec, NeverGoesBack
=============================================================================
