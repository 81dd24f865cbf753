----------------------- MODULE MCNotificationsProofs -----------------------
(***************************************************************************)
(* The history of the change notifications for any number of commits and   *)
(* callbacks: no callback is told twice of a change, none is lost on its   *)
(* way to one, and when nothing is under way each has been told of all.    *)
(*                                                                         *)
(* ToldOnce is proved of every step that the code can take, the other two  *)
(* of the steps of CalmNext, which leaves out what the code does not       *)
(* handle.  The first part of the invariant, TellingInv, is that of every  *)
(* step; DeliveryInv and what follows is that of the calm ones.            *)
(***************************************************************************)
EXTENDS MCNotifications, RealmNotificationsProofs

HistoryTypeOK ==
  /\ seen \in [Token -> Version \cup {NotYet}]
  /\ told \in [Token -> Change]
  /\ unwanted \in SUBSET Token
  /\ suppressed \in [Token -> Change]

\* Tokens name callbacks, and those to come have no past.
TokensInv ==
  /\ \A i \in DOMAIN callbacks : callbacks[i].token < nextToken
  /\ \A i, j \in DOMAIN callbacks :
       callbacks[i].token = callbacks[j].token => i = j
  /\ \A t \in Token : t >= nextToken =>
       seen[t] = NotYet /\ told[t] = {} /\ suppressed[t] = {} /\ t \notin unwanted

\* The worker looks at no change twice: m_previous_rows is at the version that it
\* has looked at last, which is ahead of the notifier's only before a handover.
WorkerInv ==
  /\ notifier.place = "none" => notifier.seen = 0 /\ callbacks = <<>>
  /\ worker.pc # "handover" => notifier.seen <= notifier.version /\ worker.changes = {}
  /\ worker.pc = "handover" => notifier.seen <= Head(worker.todo)
  /\ \A v \in worker.changes : v <= notifier.seen
  /\ \A v \in changing : v <= latest

Delivered(i) == IF Delivering THEN callbacks[i].toDeliver ELSE {}

\* A change is at one place on its way to a callback: with the worker, accumulated,
\* in the delivery, or told.
OnceAt(i, v) ==
  LET c == callbacks[i]
      t == told[callbacks[i].token]
  IN /\ v \in t => v \notin Delivered(i) /\ v <= realm.version
     /\ v \in t \cup Delivered(i) => v \notin c.accumulated /\ v <= notifier.seen
     /\ v \in t \cup Delivered(i) \cup c.accumulated => v \notin worker.changes
     /\ v \in Delivered(i) => v <= main.to
     /\ v \in c.accumulated => v <= notifier.version /\ v <= notifier.seen
OnceInv == \A i \in DOMAIN callbacks : \A v \in 1 .. MaxVersion : OnceAt(i, v)

\* A callback has the flag initial from its first call on, and that comes with the
\* delivery of a notifier that has run.
CalledInv ==
  \A i \in DOMAIN callbacks :
    LET t == callbacks[i].token
    IN /\ callbacks[i].initial <=> seen[t] # NotYet
       /\ callbacks[i].initial => notifier.hasRun
       /\ ~callbacks[i].initial => told[t] = {}

TellingInv == HistoryTypeOK /\ TokensInv /\ WorkerInv /\ CalledInv /\ OnceInv

-----------------------------------------------------------------------------
\* The delivery that runs is to the callback at position i.
Counted(i) == Delivering /\ i <= count

\* A callback is owed changes from its first call on, and that is certain as soon
\* as a delivery counts it: it will have seen the version the delivery goes to.
Tracked(i) == callbacks[i].initial \/ Counted(i)
Base(i) == IF callbacks[i].initial THEN seen[callbacks[i].token] ELSE main.to
Owes(i, v) == /\ v \in changing \ suppressed[callbacks[i].token]
              /\ Base(i) < v

\* It has been told, or will be in this delivery.
Has(i, v) == \/ v \in told[callbacks[i].token]
             \/ Counted(i) /\ v \in callbacks[i].toDeliver

\* The callbacks that a delivery has behind it are done with, and those beyond its
\* count were added in it.
DeliveryInv ==
  /\ main.pc \notin {"before", "after"} => index = 0
  /\ Delivering =>
     /\ count <= Len(callbacks) /\ index <= count
     /\ \A i \in DOMAIN callbacks : i > count => ~callbacks[i].initial
  /\ main.pc = "after" =>
       \A i \in DOMAIN callbacks :
          i <= index => callbacks[i].initial /\ callbacks[i].toDeliver = {}

\* What the worker is about to hand over is all that changed since the notifier's
\* version: its run was not left out for want of callbacks.
RunInv ==
  worker.pc = "handover" /\ callbacks # <<>> /\ notifier.hasRun =>
     \A v \in changing :
        notifier.version < v /\ v <= Head(worker.todo) => v \in worker.changes

\* What is owed up to the notifier's version is told, in the delivery or accumulated;
\* and it is not just accumulated if a delivery has passed it, if nothing is left to
\* signal a delivery, if the Realm has gone on to write, or if it has overtaken the
\* notifier.
HeldAt(i, v) ==
  Tracked(i) /\ Owes(i, v) =>
    /\ v <= notifier.version => Has(i, v) \/ v \in callbacks[i].accumulated
    /\ Counted(i) /\ v <= main.to => Has(i, v)
    /\ ~signal /\ worker.pc = "idle" /\ v <= notifier.version => Has(i, v)
    /\ callbacks[i].initial /\ realm.writing /\ ~Delivering =>
         v \in told[callbacks[i].token]
    /\ callbacks[i].initial /\ notifier.version < realm.version /\ v <= notifier.version =>
         v \in told[callbacks[i].token]
HeldInv == \A i \in DOMAIN callbacks : \A v \in 1 .. MaxVersion : HeldAt(i, v)

\* Who writes, or has waited for the worker to write, has waited for the latest
\* version, unless there was nobody to wait for.
Writing == realm.writing \/ (main.goal = "write" /\ main.pc \notin {"idle", "wait"})
WriteInv ==
  /\ callbacks # <<>> /\ Writing => notifier.hasRun /\ notifier.version = latest
  /\ main.pc = "advance" /\ ~main.packed =>
       \A i \in DOMAIN callbacks : ~callbacks[i].initial

\* The Realm overtakes the notifier by its own commits only, one at a time: the
\* worker stops nowhere between the notifier's version and the Realm's.
Skips(v) == v <= notifier.version \/ v >= realm.version
OvertakenInv ==
  (\E i \in DOMAIN callbacks : callbacks[i].initial) /\ notifier.version < realm.version =>
    /\ skipVersion # 0 => Skips(skipVersion)
    /\ Running => Skips(Head(worker.todo)) /\ Skips(Last(worker.todo))

\* A skip_next that is set takes nothing from its callback but what was suppressed:
\* the run that will meet it ends at the suppressed commit.
NextRun == IF Running THEN Head(worker.todo) ELSE skipVersion
SkipInv == \A i \in DOMAIN callbacks : callbacks[i].skip =>
   IF main.pc = "commit" THEN callbacks[i].token \in unwanted
   ELSE /\ Running \/ skipVersion # 0
        /\ \A v \in changing \ suppressed[callbacks[i].token] :
              ~(notifier.version < v /\ v <= NextRun)

\* A worker that nobody has woken is at the latest version, or on its way there.
WakeInv == ~wake =>
  /\ ~Running /\ notifier.hasRun => notifier.version = latest
  /\ Running => Last(worker.todo) = latest

-----------------------------------------------------------------------------
(***************************************************************************)
(* Positions and types.                                                    *)
(***************************************************************************)

\* Removing an element moves the ones behind it.
LEMMA RemovedAt ==
  ASSUME NEW S, NEW s \in Seq(S), NEW k \in DOMAIN s,
         NEW i \in DOMAIN RemoveAt(s, k)
  PROVE  LET j == IF i < k THEN i ELSE i + 1
         IN j \in DOMAIN s /\ RemoveAt(s, k)[i] = s[j]
<1> DEFINE p == SubSeq(s, 1, k - 1)
           q == SubSeq(s, k + 1, Len(s))
<1>1. /\ Len(s) \in Nat /\ DOMAIN s = 1 .. Len(s) /\ k \in 1 .. Len(s)
  BY LenProperties
<1>2. /\ p \in Seq(S) /\ Len(p) = k - 1
      /\ \A n \in 1 .. k - 1 : p[n] = s[n]
  BY <1>1, SubSeqProperties
<1>3. /\ q \in Seq(S) /\ Len(q) = Len(s) - k
      /\ \A n \in 1 .. Len(s) - k : q[n] = s[k + n]
  BY <1>1, SubSeqProperties
<1>4. RemoveAt(s, k) = p \o q
  BY DEF RemoveAt
<1> HIDE DEF p, q
<1>5. /\ p \o q \in Seq(S) /\ Len(p \o q) = Len(p) + Len(q)
      /\ Len(p) + Len(q) = Len(s) - 1
  <2>1. p \o q \in Seq(S) /\ Len(p \o q) = Len(p) + Len(q)
    BY <1>2, <1>3, ConcatProperties
  <2>2. Len(p) + Len(q) = Len(s) - 1
    BY <1>1, <1>2, <1>3
  <2>3. QED
    BY <2>1, <2>2
<1>6. i \in 1 .. Len(p) + Len(q) /\ i \in 1 .. Len(s) - 1
  BY <1>4, <1>5, LenProperties
<1>7. (p \o q)[i] = IF i <= Len(p) THEN p[i] ELSE q[i - Len(p)]
  BY <1>2, <1>3, <1>6, ConcatProperties
<1>8. RemoveAt(s, k)[i] = IF i <= k - 1 THEN p[i] ELSE q[i - (k - 1)]
  BY <1>2, <1>4, <1>7
<1>9. CASE i < k
  <2>1. i \in 1 .. k - 1 /\ i <= k - 1 /\ i \in 1 .. Len(s)
    BY <1>1, <1>6, <1>9
  <2>2. RemoveAt(s, k)[i] = s[i]
    BY <1>2, <1>8, <2>1
  <2>3. QED
    BY <1>1, <1>9, <2>1, <2>2
<1>10. CASE ~(i < k)
  <2> DEFINE n == i - (k - 1)
  <2>1. /\ n \in 1 .. Len(s) - k /\ k + n = i + 1
        /\ ~(i <= k - 1) /\ i + 1 \in 1 .. Len(s)
    BY <1>1, <1>6, <1>10
  <2>2. RemoveAt(s, k)[i] = q[n]
    BY <1>8, <2>1
  <2> HIDE DEF n
  <2>3. q[n] = s[i + 1]
    BY <1>3, <2>1
  <2>4. QED
    BY <1>1, <1>10, <2>1, <2>2, <2>3
<1>11. QED
  BY <1>9, <1>10

\* Appending an element leaves the others where they are.
LEMMA Appended ==
  ASSUME NEW S, NEW s \in Seq(S), NEW e \in S, NEW i \in DOMAIN Append(s, e)
  PROVE  /\ i \in DOMAIN s => Append(s, e)[i] = s[i]
         /\ i \notin DOMAIN s => i = Len(s) + 1 /\ Append(s, e)[i] = e
BY AppendProperties, LenProperties

\* What the proofs below need to know of types.
LEMMA HistoryTypes ==
  ASSUME NotificationsInv
  PROVE  /\ MaxVersion \in Nat /\ MaxToken \in Nat /\ SizeMax \in Nat
         /\ Version = 0 .. MaxVersion /\ Token = 1 .. MaxToken
         /\ latest \in Nat /\ realm.version \in Nat /\ notifier.version \in Nat
         /\ notifier.seen \in Nat /\ main.to \in Nat /\ skipVersion \in Nat
         /\ index \in Nat /\ count \in Nat /\ nextToken \in Nat
         /\ callbacks \in Seq(Callback)
         /\ Len(callbacks) \in Nat /\ DOMAIN callbacks = 1 .. Len(callbacks)
         /\ index <= Len(callbacks)
         /\ callbacks = <<>> <=> DOMAIN callbacks = {}
         /\ worker.changes \in Change /\ changing \in Change
         /\ \A i \in DOMAIN callbacks :
              /\ callbacks[i] \in Callback
              /\ callbacks[i].token \in Token
              /\ callbacks[i].accumulated \in Change
              /\ callbacks[i].toDeliver \in Change
              /\ callbacks[i].initial \in BOOLEAN
              /\ callbacks[i].skip \in BOOLEAN
<1>1. /\ callbacks \in Seq(Callback) /\ index <= Len(callbacks)
  BY DEF NotificationsInv, CallbacksInv
<1>2. Len(callbacks) \in Nat /\ DOMAIN callbacks = 1 .. Len(callbacks)
  BY <1>1, LenProperties
<1>3. \A i \in DOMAIN callbacks : callbacks[i] \in Callback
  BY <1>1, <1>2, ElementOfSeq
<1>4. callbacks = <<>> <=> DOMAIN callbacks = {}
  <2>1. callbacks # <<>> => 1 \in DOMAIN callbacks
    BY <1>1, <1>2, EmptySeq
  <2>2. callbacks = <<>> => DOMAIN callbacks = {}
    OBVIOUS
  <2>3. QED
    BY <2>1, <2>2
<1>5. /\ MaxVersion \in Nat /\ MaxToken \in Nat /\ SizeMax \in Nat
      /\ Version = 0 .. MaxVersion /\ Token = 1 .. MaxToken
  BY MaxAssumption, SizeAssumption DEF Version, Token
<1>6. /\ latest \in Nat /\ realm.version \in Nat /\ notifier.version \in Nat
      /\ notifier.seen \in Nat /\ main.to \in Nat /\ skipVersion \in Nat
  BY VersionTypes
<1>7. /\ index \in Nat /\ count \in Nat /\ nextToken \in Nat
      /\ worker.changes \in Change /\ changing \in Change
  BY <1>5 DEF NotificationsInv, NotificationsTypeOK, Worker
<1>8. QED
  BY <1>1, <1>2, <1>3, <1>4, <1>5, <1>6, <1>7 DEF Callback

\* Only after_advance makes the calls that the history records.
LEMMA NoCalls ==
  ASSUME Next, ~AfterAdvance
  PROVE  ~Calls
<1>1. CASE BeforeAdvance
  BY <1>1 DEF BeforeAdvance, Calls, NoCall
<1>2. CASE Advance
  BY <1>2 DEF Advance, Calls, NoCall
<1>3. CASE Return
  BY <1>3 DEF Return, Calls
<1>4. ASSUME UNCHANGED call
      PROVE  ~Calls
  BY <1>4 DEF Calls, NoCall
<1>5. BeforeAdvance \/ Advance \/ Return \/ UNCHANGED call
  BY DEF Next, Common, Work, Notify, Send, Write, ReadResults, Refresh, OtherCommit,
         OtherWake, AddCallback, RemoveCallback, Start, NeedToRun,
         CalculateChanges, PrepareHandover, Signal, NotifyInVain, ProcessAvailable,
         AdvanceToReady, PackageAndWait, Deliver, BeginWrite, SuppressNext,
         CommitWrite, CancelWrite, FailToCommit
<1>6. QED
  BY <1>1, <1>2, <1>3, <1>4, <1>5, Zenon

\* Every other step leaves what was seen and told alone.
LEMMA RecordQuiet ==
  ASSUME Next, ~AfterAdvance, Record
  PROVE  seen' = seen /\ told' = told
BY NoCalls, Zenon DEF Record

\* Only a commit of the Realm itself is suppressed.
LEMMA RecordSuppressed ==
  ASSUME NotificationsInv, HistoryTypeOK, TripInv, Next, Record
  PROVE  /\ ~CommitWrite => suppressed' = suppressed
         /\ CommitWrite => suppressed' =
              [t \in Token |-> IF t \in unwanted
                 THEN suppressed[t] \cup {latest + 1} ELSE suppressed[t]]
<1>1. CASE CommitWrite
  <2>1. main.pc = "commit" /\ latest' = latest + 1 /\ latest' > latest
    BY <1>1, HistoryTypes DEF CommitWrite, NewVersion
  <2>2. QED
    BY <1>1, <2>1 DEF Record
<1>2. CASE OtherCommit
  <2>1. main.pc # "commit"
    BY <1>2 DEF OtherCommit, Locked, TripInv
  <2>2. ~CommitWrite
    BY <2>1 DEF CommitWrite
  <2>3. QED
    BY <2>1, <2>2 DEF Record
<1>3. CASE UNCHANGED latest
  <2>1. ~(latest' > latest) /\ ~CommitWrite
    BY <1>3, HistoryTypes DEF CommitWrite, NewVersion
  <2>2. QED
    BY <2>1 DEF Record
<1>4. CommitWrite \/ OtherCommit \/ UNCHANGED latest
  BY DEF Next, Common, Work, Notify, Send, Write, ReadResults, Refresh, Return,
         OtherWake, AddCallback, RemoveCallback, Start, NeedToRun,
         CalculateChanges, PrepareHandover, Signal, NotifyInVain, ProcessAvailable,
         AdvanceToReady, PackageAndWait, Deliver, BeginWrite, SuppressNext,
         CancelWrite, FailToCommit, BeforeAdvance, Advance, AfterAdvance
<1>5. QED
  BY <1>1, <1>2, <1>3, <1>4

\* A turn of after_advance that calls a callback, with what is recorded of it.
Visit(k) ==
  /\ k = index + 1 /\ k <= count /\ k \in DOMAIN callbacks
  /\ main' = main /\ index' = k
  /\ callbacks' = [callbacks EXCEPT ![k].initial = TRUE, ![k].toDeliver = {}]
  /\ call' = [token |-> callbacks[k].token, changes |-> callbacks[k].toDeliver,
              first |-> ~callbacks[k].initial, in |-> "after"]
  /\ seen' = IF callbacks[k].initial THEN seen
             ELSE [seen EXCEPT ![callbacks[k].token] = realm.version]
  /\ told' = IF callbacks[k].initial
               THEN [told EXCEPT ![callbacks[k].token] = @ \cup callbacks[k].toDeliver]
               ELSE told

\* One that has nothing to tell.
Pass(k) ==
  /\ k = index + 1 /\ k <= count /\ k \in DOMAIN callbacks
  /\ callbacks[k].initial /\ callbacks[k].toDeliver = {}
  /\ index' = k
  /\ UNCHANGED <<main, callbacks, call, seen, told>>

\* There is no callback left.
Finish ==
  /\ count <= index /\ index' = 0
  /\ main' = Idle
  /\ UNCHANGED <<callbacks, call, seen, told>>

\* A turn of the loop of after_advance visits the callback or passes it by, and
\* the last one is the end of the delivery.
LEMMA AfterEffect ==
  ASSUME NotificationsInv, HistoryTypeOK, AfterAdvance, Record
  PROVE  /\ main.pc = "after" /\ call = NoCall
         /\ UNCHANGED <<latest, changing, realm, signal, wake, worker, skipVersion,
                        notifier, haveCallbacks, count, nextToken>>
         /\ Visit(index + 1) \/ Pass(index + 1) \/ Finish
<1>1. /\ index \in Nat /\ count \in Nat
      /\ \A i \in DOMAIN callbacks : callbacks[i].initial \in BOOLEAN
  BY HistoryTypes
<1>2. /\ main.pc = "after" /\ call = NoCall
      /\ UNCHANGED <<latest, changing, realm, signal, wake, worker, skipVersion,
                     notifier, haveCallbacks, count, nextToken>>
  BY DEF AfterAdvance
<1>3. CASE /\ index < count /\ index + 1 \in DOMAIN callbacks
           /\ index' = index + 1 /\ main' = main
           /\ callbacks[index + 1].initial /\ callbacks[index + 1].toDeliver = {}
           /\ UNCHANGED <<callbacks, call>>
  <2>1. ~Calls
    BY <1>2, <1>3 DEF Calls, NoCall
  <2>2. seen' = seen /\ told' = told
    BY <2>1, Zenon DEF Record
  <2>3. QED
    BY <1>1, <1>2, <1>3, <2>2 DEF Pass
<1>4. CASE /\ index < count /\ index + 1 \in DOMAIN callbacks
           /\ index' = index + 1 /\ main' = main
           /\ callbacks' = [callbacks EXCEPT ![index + 1].initial = TRUE,
                                             ![index + 1].toDeliver = {}]
           /\ call' = [token |-> callbacks[index + 1].token,
                       changes |-> callbacks[index + 1].toDeliver,
                       first |-> ~callbacks[index + 1].initial, in |-> "after"]
  <2>1. /\ Calls /\ call'.token = callbacks[index + 1].token
        /\ call'.changes = callbacks[index + 1].toDeliver
        /\ call'.first <=> ~callbacks[index + 1].initial
    BY <1>1, <1>2, <1>4 DEF Calls
  <2>2. /\ seen' = IF callbacks[index + 1].initial THEN seen
             ELSE [seen EXCEPT ![callbacks[index + 1].token] = realm.version]
        /\ told' = IF callbacks[index + 1].initial
               THEN [told EXCEPT ![callbacks[index + 1].token] =
                                    @ \cup callbacks[index + 1].toDeliver]
               ELSE told
    BY <2>1 DEF Record
  <2>3. QED
    BY <1>1, <1>2, <1>4, <2>2 DEF Visit
<1>5. CASE index >= count /\ index' = 0 /\ main' = Idle /\ UNCHANGED <<callbacks, call>>
  <2>1. ~Calls
    BY <1>2, <1>5 DEF Calls, NoCall
  <2>2. seen' = seen /\ told' = told
    BY <2>1, Zenon DEF Record
  <2>3. QED
    BY <1>1, <1>2, <1>5, <2>2 DEF Finish
<1>6. QED
  <2>1. CASE callbacks[index + 1].initial /\ callbacks[index + 1].toDeliver = {}
    BY <1>3, <1>5, <2>1 DEF AfterAdvance
  <2>2. CASE ~(callbacks[index + 1].initial /\ callbacks[index + 1].toDeliver = {})
    BY <1>4, <1>5, <2>2 DEF AfterAdvance
  <2>3. QED
    BY <2>1, <2>2

\* What a call changes, seen from each position.
LEMMA VisitEffect ==
  ASSUME NotificationsInv, HistoryTypeOK, TokensInv, NEW k, Visit(k)
  PROVE  /\ DOMAIN callbacks' = DOMAIN callbacks
         /\ k \in DOMAIN callbacks
         /\ \A i \in DOMAIN callbacks :
              /\ callbacks'[i].token = callbacks[i].token
              /\ callbacks'[i].accumulated = callbacks[i].accumulated
              /\ callbacks'[i].skip = callbacks[i].skip
              /\ i # k => /\ callbacks'[i] = callbacks[i]
                          /\ seen'[callbacks[i].token] = seen[callbacks[i].token]
                          /\ told'[callbacks[i].token] = told[callbacks[i].token]
              /\ i = k => callbacks'[i].initial /\ callbacks'[i].toDeliver = {}
              /\ i = k /\ callbacks[i].initial =>
                   /\ seen'[callbacks[i].token] = seen[callbacks[i].token]
                   /\ told'[callbacks[i].token] =
                        told[callbacks[i].token] \cup callbacks[i].toDeliver
              /\ i = k /\ ~callbacks[i].initial =>
                   /\ seen'[callbacks[i].token] = realm.version
                   /\ told'[callbacks[i].token] = told[callbacks[i].token]
<1>0. k \in DOMAIN callbacks /\ DOMAIN callbacks' = DOMAIN callbacks
  BY DEF Visit
<1> SUFFICES ASSUME NEW i \in DOMAIN callbacks
             PROVE
              /\ callbacks'[i].token = callbacks[i].token
              /\ callbacks'[i].accumulated = callbacks[i].accumulated
              /\ callbacks'[i].skip = callbacks[i].skip
              /\ i # k => /\ callbacks'[i] = callbacks[i]
                          /\ seen'[callbacks[i].token] = seen[callbacks[i].token]
                          /\ told'[callbacks[i].token] = told[callbacks[i].token]
              /\ i = k => callbacks'[i].initial /\ callbacks'[i].toDeliver = {}
              /\ i = k /\ callbacks[i].initial =>
                   /\ seen'[callbacks[i].token] = seen[callbacks[i].token]
                   /\ told'[callbacks[i].token] =
                        told[callbacks[i].token] \cup callbacks[i].toDeliver
              /\ i = k /\ ~callbacks[i].initial =>
                   /\ seen'[callbacks[i].token] = realm.version
                   /\ told'[callbacks[i].token] = told[callbacks[i].token]
  BY <1>0, Zenon
<1>1. /\ k \in DOMAIN callbacks
      /\ callbacks[i] \in Callback /\ callbacks[k] \in Callback
      /\ callbacks[i].token \in Token /\ callbacks[k].token \in Token
  BY HistoryTypes DEF Visit
<1>2. /\ DOMAIN callbacks' = DOMAIN callbacks
      /\ callbacks'[i] = IF i = k THEN [callbacks[k] EXCEPT !.initial = TRUE, !.toDeliver = {}]
                                  ELSE callbacks[i]
  BY <1>1 DEF Visit
<1>3. /\ callbacks'[i].token = callbacks[i].token
      /\ callbacks'[i].accumulated = callbacks[i].accumulated
      /\ callbacks'[i].skip = callbacks[i].skip
      /\ i # k => callbacks'[i] = callbacks[i]
      /\ i = k => callbacks'[i].initial /\ callbacks'[i].toDeliver = {}
  BY <1>1, <1>2 DEF Callback
<1>4. i # k => callbacks[i].token # callbacks[k].token
  BY <1>1 DEF TokensInv
<1>5. seen'[callbacks[i].token] =
        IF i = k /\ ~callbacks[k].initial THEN realm.version ELSE seen[callbacks[i].token]
  BY <1>1, <1>4 DEF Visit, HistoryTypeOK
<1>6. told'[callbacks[i].token] =
        IF i = k /\ callbacks[k].initial
          THEN told[callbacks[i].token] \cup callbacks[i].toDeliver
          ELSE told[callbacks[i].token]
  BY <1>1, <1>4 DEF Visit, HistoryTypeOK
<1>7. QED
  BY <1>2, <1>3, <1>5, <1>6

\* The history keeps its types.
LEMMA HistoryTypeStep ==
  ASSUME NotificationsInv, NotificationsInv', HistoryTypeOK, Record
  PROVE  HistoryTypeOK'
<1>1. /\ realm.version \in Version /\ latest' \in Version /\ latest \in Version
      /\ Version = 0 .. MaxVersion
      /\ callbacks' \in Seq(Callback)
  BY VersionTypes DEF NotificationsInv, NotificationsTypeOK
<1>2. call' \in Call
  BY DEF NotificationsInv, NotificationsTypeOK
<1>3. seen' \in [Token -> Version \cup {NotYet}]
  BY <1>1 DEF Record, HistoryTypeOK
<1>4. told' \in [Token -> Change]
  <2>1. CASE Calls /\ ~call'.first
    <3>1. told' = [told EXCEPT ![call'.token] = @ \cup call'.changes]
      BY <2>1 DEF Record
    <3>2. call'.changes \in Change
      BY <1>2 DEF Call
    <3>3. QED
      BY <3>1, <3>2 DEF HistoryTypeOK, Change
  <2>2. CASE ~(Calls /\ ~call'.first)
    BY <2>2 DEF Record, HistoryTypeOK
  <2>3. QED
    BY <2>1, <2>2
<1>5. unwanted' \in SUBSET Token
  <2>0. \A i \in DOMAIN callbacks' : callbacks'[i] \in Callback
    BY <1>1, ElementOfSeq, LenProperties
  <2>1. \A i \in DOMAIN callbacks' : callbacks'[i].token \in Token
    BY <2>0 DEF Callback
  <2>2. {c.token : c \in {d \in Range(callbacks') : d.skip}} \in SUBSET Token
    BY <2>1 DEF Range
  <2>3. QED
    BY <2>2 DEF Record, HistoryTypeOK
<1>6. suppressed' \in [Token -> Change]
  <2>1. CASE main.pc = "commit" /\ latest' > latest
    <3>1. latest' \in 1 .. MaxVersion
      BY <1>1, <2>1
    <3>2. suppressed' = [t \in Token |-> IF t \in unwanted
                           THEN suppressed[t] \cup {latest'} ELSE suppressed[t]]
      BY <2>1 DEF Record
    <3>3. QED
      BY <3>1, <3>2 DEF HistoryTypeOK, Change
  <2>2. CASE ~(main.pc = "commit" /\ latest' > latest)
    BY <2>2 DEF Record, HistoryTypeOK
  <2>3. QED
    BY <2>1, <2>2
<1>7. QED
  BY <1>3, <1>4, <1>5, <1>6 DEF HistoryTypeOK

-----------------------------------------------------------------------------
(***************************************************************************)
(* What the actions do to the callbacks, and their tokens.                 *)
(***************************************************************************)

\* What the actions do to the callback at each position.
LEMMA HandoverEach ==
  ASSUME NotificationsInv, HistoryTypeOK, PrepareHandover
  PROVE  /\ DOMAIN callbacks' = DOMAIN callbacks
         /\ \A i \in DOMAIN callbacks :
              /\ callbacks'[i].token = callbacks[i].token
              /\ callbacks'[i].initial = callbacks[i].initial
              /\ callbacks'[i].toDeliver = callbacks[i].toDeliver
              /\ ~callbacks'[i].skip
              /\ callbacks'[i].accumulated =
                   IF callbacks[i].skip THEN callbacks[i].accumulated
                   ELSE callbacks[i].accumulated \cup worker.changes
<1>1. \A i \in DOMAIN callbacks : callbacks[i] \in Callback
  BY HistoryTypes
<1>2. /\ DOMAIN callbacks' = DOMAIN callbacks
      /\ \A i \in DOMAIN callbacks : callbacks'[i] =
           IF callbacks[i].skip THEN [callbacks[i] EXCEPT !.skip = FALSE]
           ELSE [callbacks[i] EXCEPT !.accumulated = @ \cup worker.changes]
  BY DEF PrepareHandover, AddChanges
<1>3. QED
  BY <1>1, <1>2 DEF Callback

LEMMA PackageEach ==
  ASSUME NotificationsInv, HistoryTypeOK, Package, CanPackage
  PROVE  /\ DOMAIN callbacks' = DOMAIN callbacks
         /\ \A i \in DOMAIN callbacks :
              /\ callbacks'[i].token = callbacks[i].token
              /\ callbacks'[i].initial = callbacks[i].initial
              /\ callbacks'[i].skip = callbacks[i].skip
              /\ callbacks'[i].toDeliver = callbacks[i].accumulated
              /\ callbacks'[i].accumulated = {}
<1>1. \A i \in DOMAIN callbacks : callbacks[i] \in Callback
  BY HistoryTypes
<1>2. /\ DOMAIN callbacks' = DOMAIN callbacks
      /\ \A i \in DOMAIN callbacks : callbacks'[i] =
           [callbacks[i] EXCEPT !.toDeliver = callbacks[i].accumulated,
                                !.accumulated = {}]
  BY DEF Package, CanPackage
<1>3. QED
  BY <1>1, <1>2 DEF Callback

LEMMA SuppressEach ==
  ASSUME NotificationsInv, HistoryTypeOK, NEW unwanteds, SuppressNext(unwanteds)
  PROVE  /\ DOMAIN callbacks' = DOMAIN callbacks
         /\ \A i \in DOMAIN callbacks :
              /\ callbacks'[i].token = callbacks[i].token
              /\ callbacks'[i].initial = callbacks[i].initial
              /\ callbacks'[i].toDeliver = callbacks[i].toDeliver
              /\ callbacks'[i].accumulated = callbacks[i].accumulated
<1>1. \A i \in DOMAIN callbacks : callbacks[i] \in Callback
  BY HistoryTypes
<1>2. /\ DOMAIN callbacks' = DOMAIN callbacks
      /\ \A i \in DOMAIN callbacks : callbacks'[i] =
           IF i \in unwanteds THEN [callbacks[i] EXCEPT !.skip = TRUE]
           ELSE callbacks[i]
  BY DEF SuppressNext
<1>3. QED
  BY <1>1, <1>2 DEF Callback

LEMMA AddEach ==
  ASSUME NotificationsInv, HistoryTypeOK, AddCallback, NEW i \in DOMAIN callbacks'
  PROVE  \/ /\ i \in DOMAIN callbacks /\ callbacks'[i] = callbacks[i]
            /\ i <= Len(callbacks)
         \/ /\ i = Len(callbacks) + 1
            /\ callbacks'[i].token = nextToken
            /\ callbacks'[i].initial = FALSE /\ callbacks'[i].skip = FALSE
            /\ callbacks'[i].toDeliver = {} /\ callbacks'[i].accumulated = {}
<1> DEFINE c == [token |-> nextToken, accumulated |-> {}, toDeliver |-> {},
                 initial |-> FALSE, skip |-> FALSE]
<1>1. callbacks \in Seq(Callback) /\ DOMAIN callbacks = 1 .. Len(callbacks)
  BY HistoryTypes
<1>2. nextToken \in Token
  BY HistoryTypes DEF AddCallback, NotificationsInv, NotificationsTypeOK
<1>3. c \in Callback
  BY <1>2 DEF Callback, Change
<1>4. callbacks' = Append(callbacks, c)
  BY DEF AddCallback
<1>5. /\ c.token = nextToken /\ c.initial = FALSE /\ c.skip = FALSE
      /\ c.toDeliver = {} /\ c.accumulated = {}
  OBVIOUS
<1> HIDE DEF c
<1>6. /\ i \in DOMAIN callbacks => callbacks'[i] = callbacks[i]
      /\ i \notin DOMAIN callbacks => i = Len(callbacks) + 1 /\ callbacks'[i] = c
  BY <1>1, <1>3, <1>4, Appended
<1>7. QED
  BY <1>1, <1>5, <1>6

LEMMA RemoveEach ==
  ASSUME NotificationsInv, HistoryTypeOK, NEW k \in DOMAIN callbacks, RemoveCallback(k),
         NEW i \in DOMAIN callbacks'
  PROVE  LET j == IF i < k THEN i ELSE i + 1
         IN j \in DOMAIN callbacks /\ callbacks'[i] = callbacks[j]
BY HistoryTypes, RemovedAt DEF RemoveCallback

\* The other actions leave them alone.
LEMMA CallbacksSame ==
  ASSUME Next,
         ~PrepareHandover, ~AddCallback, ~AfterAdvance,
         ~PackageAndWait, ~ProcessAvailable, ~AdvanceToReady,
         ~\E unwanteds \in SUBSET DOMAIN callbacks : SuppressNext(unwanteds),
         ~\E i \in DOMAIN callbacks : RemoveCallback(i)
  PROVE  callbacks' = callbacks /\ nextToken' = nextToken
BY DEF Next, Common, Work, Notify, Send, Write, ReadResults, Refresh, OtherCommit,
       OtherWake, Return, Start, NeedToRun, CalculateChanges, Signal, NotifyInVain,
       Deliver, BeginWrite, CommitWrite, CancelWrite, FailToCommit, BeforeAdvance,
       Advance, notifierVars

\* What keeps the callbacks at their positions keeps their tokens.
LEMMA TokensFrame ==
  ASSUME NotificationsInv, HistoryTypeOK, TokensInv, Next, Record,
         DOMAIN callbacks' = DOMAIN callbacks,
         \A i \in DOMAIN callbacks : callbacks'[i].token = callbacks[i].token,
         nextToken' = nextToken
  PROVE  /\ \A i \in DOMAIN callbacks' : callbacks'[i].token < nextToken'
         /\ \A i, j \in DOMAIN callbacks' :
              callbacks'[i].token = callbacks'[j].token => i = j
BY DEF TokensInv

\* m_next_token is never that of a callback that was ever added.
LEMMA TokensStep ==
  ASSUME NotificationsInv, NotificationsInv', HistoryTypeOK, TripInv, TokensInv, Next, Record
  PROVE  TokensInv'
<1>0. nextToken \in Nat /\ nextToken' \in Nat /\ nextToken <= nextToken'
  <2>1. nextToken \in Nat
    BY HistoryTypes
  <2>2. nextToken' = nextToken \/ nextToken' = nextToken + 1
    BY DEF Next, Common, Work, Notify, Send, Write, ReadResults, Refresh, OtherCommit,
       OtherWake, Return, Start, NeedToRun, CalculateChanges, Signal, NotifyInVain,
       Deliver, BeginWrite, CommitWrite, CancelWrite, FailToCommit, BeforeAdvance,
       Advance, notifierVars, PrepareHandover, AddCallback, RemoveCallback, AfterAdvance,
       PackageAndWait, ProcessAvailable, AdvanceToReady, SuppressNext
  <2>3. QED
    BY <2>1, <2>2
<1>1. /\ \A i \in DOMAIN callbacks' : callbacks'[i].token < nextToken'
      /\ \A i, j \in DOMAIN callbacks' :
           callbacks'[i].token = callbacks'[j].token => i = j
  <2>1. CASE AddCallback
    <3>1. \A i \in DOMAIN callbacks :
            callbacks[i].token < nextToken /\ callbacks[i].token \in Nat
      BY HistoryTypes DEF TokensInv
    <3>2. nextToken' = nextToken + 1
      BY <2>1 DEF AddCallback
    <3>3. \A i \in DOMAIN callbacks' :
            \/ i \in DOMAIN callbacks /\ callbacks'[i] = callbacks[i]
            \/ i = Len(callbacks) + 1 /\ callbacks'[i].token = nextToken
      BY <2>1, AddEach
    <3>4. QED
      BY <1>0, <3>1, <3>2, <3>3 DEF TokensInv
  <2>2. ASSUME NEW k \in DOMAIN callbacks, RemoveCallback(k)
        PROVE  /\ \A i \in DOMAIN callbacks' : callbacks'[i].token < nextToken'
               /\ \A i, j \in DOMAIN callbacks' :
                    callbacks'[i].token = callbacks'[j].token => i = j
    <3> DEFINE old(i) == IF i < k THEN i ELSE i + 1
    <3>1. \A i \in DOMAIN callbacks' :
            old(i) \in DOMAIN callbacks /\ callbacks'[i] = callbacks[old(i)]
      BY <2>2, RemoveEach
    <3>2. \A i \in DOMAIN callbacks' : i \in Nat
      BY LenProperties DEF NotificationsInv, CallbacksInv
    <3>3. \A i, j \in DOMAIN callbacks' : old(i) = old(j) => i = j
      BY <3>2, HistoryTypes
    <3>4. nextToken' = nextToken
      BY <2>2 DEF RemoveCallback
    <3> HIDE DEF old
    <3>5. QED
      BY <3>1, <3>3, <3>4 DEF TokensInv
  <2>3. CASE AfterAdvance
    <3>1. nextToken' = nextToken /\ (Visit(index + 1) \/ callbacks' = callbacks)
      BY <2>3, AfterEffect DEF Pass, Finish
    <3>2. CASE Visit(index + 1)
      BY <2>3, <3>1, <3>2, VisitEffect, TokensFrame
    <3>3. CASE callbacks' = callbacks
      BY <3>1, <3>3, TokensFrame
    <3>4. QED
      BY <3>1, <3>2, <3>3
  <2>4. CASE PrepareHandover
    BY <2>4, HandoverEach, TokensFrame DEF PrepareHandover
  <2>5. CASE PackageAndWait \/ ProcessAvailable \/ AdvanceToReady
    <3>1. Package /\ nextToken' = nextToken
      BY <2>5 DEF PackageAndWait, ProcessAvailable, AdvanceToReady
    <3>2. CASE CanPackage
      BY <3>1, <3>2, PackageEach, TokensFrame
    <3>3. CASE ~CanPackage
      BY <3>1, <3>3, TokensFrame DEF Package, CanPackage
    <3>4. QED
      BY <3>2, <3>3
  <2>6. ASSUME NEW k, SuppressNext(k)
        PROVE  /\ \A i \in DOMAIN callbacks' : callbacks'[i].token < nextToken'
               /\ \A i, j \in DOMAIN callbacks' :
                    callbacks'[i].token = callbacks'[j].token => i = j
    BY <2>6, SuppressEach, TokensFrame DEF SuppressNext
  <2>7. CASE callbacks' = callbacks /\ nextToken' = nextToken
    BY <2>7, TokensFrame
  <2>8. QED
    BY <2>1, <2>2, <2>3, <2>4, <2>5, <2>6, <2>7, CallbacksSame
<1>2. ASSUME NEW t \in Token, t >= nextToken'
      PROVE  seen'[t] = NotYet /\ told'[t] = {} /\ suppressed'[t] = {} /\ t \notin unwanted'
  <2>1. /\ t \in Nat /\ t >= nextToken
        /\ seen[t] = NotYet /\ told[t] = {} /\ suppressed[t] = {} /\ t \notin unwanted
    <3>1. t \in Nat /\ t >= nextToken
      BY <1>0, <1>2, MaxAssumption DEF Token
    <3>2. QED
      BY <3>1 DEF TokensInv
  <2>2. seen'[t] = NotYet /\ told'[t] = {}
    <3>1. CASE AfterAdvance /\ Visit(index + 1)
      <4>1. /\ index + 1 \in DOMAIN callbacks /\ callbacks[index + 1].token \in Nat
            /\ callbacks[index + 1].token < nextToken
        <5>1. index + 1 \in DOMAIN callbacks
          BY <3>1 DEF Visit
        <5>2. callbacks[index + 1].token \in Token /\ Token = 1 .. MaxToken
          BY <5>1, HistoryTypes
        <5>3. QED
          BY <5>1, <5>2, MaxAssumption DEF TokensInv
      <4>2. callbacks[index + 1].token # t
        BY <1>0, <2>1, <4>1
      <4>3. QED
        BY <2>1, <3>1, <4>2 DEF Visit, HistoryTypeOK
    <3>2. CASE AfterAdvance /\ ~Visit(index + 1)
      BY <2>1, <3>2, AfterEffect DEF Pass, Finish
    <3>3. CASE ~AfterAdvance
      BY <2>1, <3>3, RecordQuiet
    <3>4. QED
      BY <3>1, <3>2, <3>3
  <2>3. suppressed'[t] = {}
    BY <2>1, RecordSuppressed
  <2>4. t \notin unwanted'
    <3>1. \A i \in DOMAIN callbacks' : callbacks'[i].token # t
      BY <1>0, <1>1, <1>2, <2>1
    <3>2. t \notin {c.token : c \in {d \in Range(callbacks') : d.skip}}
      BY <3>1 DEF Range
    <3>3. QED
      BY <2>1, <3>2 DEF Record
  <2>5. QED
    BY <2>2, <2>3, <2>4
<1>3. QED
  BY <1>1, <1>2 DEF TokensInv

-----------------------------------------------------------------------------
(***************************************************************************)
(* The worker.                                                             *)
(***************************************************************************)

\* Only a new version is a new change.
LEMMA ChangingStep ==
  ASSUME NotificationsInv, \A v \in changing : v <= latest, Next
  PROVE  \A v \in changing' : v <= latest'
<1>1. latest \in Nat /\ changing \in Change
  BY HistoryTypes DEF NotificationsInv, NotificationsTypeOK
<1>2. CASE NewVersion
  BY <1>1, <1>2, MaxAssumption DEF NewVersion, Change
<1>3. NewVersion \/ UNCHANGED <<latest, changing>>
  BY DEF Next, Common, Work, Notify, Send, Write, ReadResults, Refresh, Return,
         OtherWake, AddCallback, RemoveCallback, Start, NeedToRun,
         CalculateChanges, PrepareHandover, Signal, NotifyInVain, ProcessAvailable,
         AdvanceToReady, PackageAndWait, Deliver, BeginWrite, SuppressNext,
         CancelWrite, FailToCommit, BeforeAdvance, Advance, AfterAdvance,
         CommitWrite, OtherCommit
<1>4. QED
  BY <1>2, <1>3

\* A step that leaves the worker and what it has looked at alone keeps WorkerInv.
LEMMA WorkerFrame ==
  ASSUME NotificationsInv, WorkerInv,
         worker' = worker, notifier'.seen = notifier.seen,
         notifier'.version = notifier.version, notifier'.place = notifier.place,
         callbacks = <<>> => callbacks' = <<>>,
         \A v \in changing' : v <= latest'
  PROVE  WorkerInv'
BY DEF WorkerInv

\* The versions that a worker runs to.
LEMMA TodoNat ==
  ASSUME NotificationsInv, TodoInv, Running
  PROVE  /\ Head(worker.todo) \in Nat /\ Last(worker.todo) \in Nat
         /\ Head(worker.todo) <= latest
         /\ notifier.version <= Head(worker.todo)
<1>1. /\ Head(worker.todo) \in Version /\ Last(worker.todo) \in Version
      /\ notifier.version <= Head(worker.todo)
      /\ Head(worker.todo) <= Last(worker.todo) /\ Last(worker.todo) <= latest
  BY TodoFacts
<1>2. latest \in Nat /\ \A v \in Version : v \in Nat
  BY VersionTypes
<1>3. Head(worker.todo) \in Nat /\ Last(worker.todo) \in Nat
  BY <1>1, <1>2
<1>4. \A u, v, w \in Nat : u <= v /\ v <= w => u <= w
  OBVIOUS
<1>5. QED
  BY <1>1, <1>2, <1>3, <1>4

\* A worker that runs has not looked beyond the version it runs to.
LEMMA SeenBehind ==
  ASSUME NotificationsInv, HistoryTypeOK, TodoInv, WorkerInv, Running
  PROVE  notifier.seen <= Head(worker.todo)
<1>1. /\ Head(worker.todo) \in Nat /\ notifier.version <= Head(worker.todo)
      /\ notifier.version \in Nat /\ notifier.seen \in Nat
  BY TodoNat, HistoryTypes
<1>2. \/ notifier.seen <= notifier.version
      \/ notifier.seen <= Head(worker.todo)
  BY DEF WorkerInv
<1>3. QED
  BY <1>1, <1>2

\* The versions that the worker runs to go up, and it looks at each change once.
LEMMA WorkerStep ==
  ASSUME NotificationsInv, NotificationsInv', HistoryTypeOK, TodoInv, TripInv, WorkerInv, Next
  PROVE  WorkerInv'
<1>0. /\ notifier.version \in Nat /\ notifier.seen \in Nat /\ realm.version \in Nat
      /\ notifier.hasRun => notifier.place # "none"
      /\ callbacks = <<>> <=> DOMAIN callbacks = {}
      /\ callbacks' = <<>> <=> DOMAIN callbacks' = {}
      /\ worker \in Worker
  <2>1. callbacks' = <<>> <=> DOMAIN callbacks' = {}
    <3>1. callbacks' \in Seq(Callback)
      BY DEF NotificationsInv, CallbacksInv
    <3>2. callbacks' # <<>> => 1 \in DOMAIN callbacks'
      BY <3>1, EmptySeq, LenProperties
    <3>3. QED
      BY <3>2
  <2>2. QED
    BY <2>1, HistoryTypes, VersionTypes DEF TodoInv
<1>1. \A v \in changing' : v <= latest'
  BY ChangingStep DEF WorkerInv
<1>2. CASE Start
  BY <1>0, <1>1, <1>2, StartEffect, SeenBehind DEF WorkerInv, Start
<1>3. ASSUME NEW wanted \in BOOLEAN, NeedToRun(wanted)
      PROVE  WorkerInv'
  <2>1. /\ notifier' = notifier /\ callbacks' = callbacks
        /\ worker.pc = "run"
    BY <1>3 DEF NeedToRun, notifierVars
  <2>2. QED
    BY <1>0, <1>1, <1>3, <2>1, NeedToRunEffect, SeenBehind DEF WorkerInv
<1>4. CASE CalculateChanges
  <2>1. /\ callbacks' = callbacks /\ worker.pc = "calculate"
        /\ Head(worker.todo) \in Nat /\ notifier.seen <= Head(worker.todo)
    BY <1>4, TodoFacts, SeenBehind, CalculateEffect DEF CalculateChanges, Version
  <2>2. \A v \in worker'.changes : v <= Head(worker.todo)
    BY <1>4, CalculateEffect DEF Since
  <2>3. notifier.place # "none"
    BY <1>4, CalculateEffect DEF TodoInv
  <2>4. QED
    BY <1>0, <1>1, <1>4, <2>1, <2>2, <2>3, CalculateEffect DEF WorkerInv
<1>5. CASE PrepareHandover
  <2>1. DOMAIN callbacks' = DOMAIN callbacks /\ worker.pc = "handover"
    BY <1>5, HandoverEach DEF PrepareHandover
  <2>2. worker'.pc # "handover"
    BY <1>5, HandoverEffect
  <2>3. QED
    BY <1>0, <1>1, <1>5, <2>1, <2>2, HandoverEffect DEF WorkerInv
<1>6. CASE Signal
  <2>1. worker.pc = "signal" /\ worker'.pc = "idle" /\ worker'.changes = {}
    BY <1>6 DEF Signal, AtRest
  <2>2. QED
    BY <1>1, <1>6, <2>1 DEF Signal, WorkerInv, notifierVars
<1>7. CASE ReadResults \/ AddCallback
  <2>1. worker' = worker /\ notifier' = Registered
    BY <1>7 DEF ReadResults, AddCallback
  <2>2. CASE notifier.place = "none"
    <3>1. ~Running
      BY <2>2 DEF TodoInv
    <3>2. /\ notifier'.seen = 0 /\ notifier'.version = realm.version
          /\ notifier'.place = "new" /\ worker'.changes = {} /\ worker'.pc # "handover"
      BY <2>1, <2>2, <3>1, RegisteredEffect DEF WorkerInv, Running
    <3>3. QED
      BY <1>0, <1>1, <3>2 DEF WorkerInv
  <2>3. CASE notifier.place # "none"
    BY <1>1, <2>1, <2>3, RegisteredEffect DEF WorkerInv
  <2>4. QED
    BY <2>2, <2>3
<1>8. CASE ProcessAvailable \/ AdvanceToReady \/ PackageAndWait
  <2>1. Package /\ worker' = worker
    BY <1>8 DEF ProcessAvailable, AdvanceToReady, PackageAndWait
  <2>2. callbacks = <<>> => callbacks' = <<>>
    <3>1. CASE CanPackage
      BY <1>0, <2>1, <3>1, PackageEach
    <3>2. CASE ~CanPackage
      BY <2>1, <3>2 DEF Package, CanPackage
    <3>3. QED
      BY <3>1, <3>2
  <2>3. QED
    BY <1>1, <2>1, <2>2, PackageEffect, WorkerFrame
<1>9. CASE AfterAdvance
  <2>1. worker' = worker /\ notifier' = notifier
    BY <1>9 DEF AfterAdvance
  <2>2. DOMAIN callbacks' = DOMAIN callbacks
    BY <1>9 DEF AfterAdvance
  <2>3. QED
    BY <1>0, <1>1, <2>1, <2>2, WorkerFrame
<1>10. ASSUME NEW k, SuppressNext(k)
       PROVE  WorkerInv'
  <2>1. worker' = worker /\ notifier' = notifier
    BY <1>10 DEF SuppressNext
  <2>2. QED
    BY <1>0, <1>1, <1>10, <2>1, SuppressEach, WorkerFrame
<1>11. ASSUME NEW k \in DOMAIN callbacks, RemoveCallback(k)
       PROVE  WorkerInv'
  BY <1>0, <1>1, <1>11, WorkerFrame DEF RemoveCallback
<1>12. CASE Deliver
  <2>1. /\ notifier'.seen = notifier.seen /\ notifier'.version = notifier.version
        /\ notifier'.place = notifier.place
    BY <1>12, VersionTypes DEF Deliver, Notifier
  <2>2. QED
    BY <1>1, <1>12, <2>1, WorkerFrame DEF Deliver
<1>13. CASE \/ Refresh \/ OtherCommit \/ OtherWake \/ Return \/ NotifyInVain
            \/ BeginWrite \/ CommitWrite \/ CancelWrite \/ FailToCommit
            \/ BeforeAdvance \/ Advance
  <2>1. worker' = worker /\ notifier' = notifier /\ callbacks' = callbacks
    BY <1>13 DEF Refresh, OtherCommit, OtherWake, Return, NotifyInVain, BeginWrite,
         CommitWrite, CancelWrite, FailToCommit, BeforeAdvance, Advance, notifierVars
  <2>2. QED
    BY <1>1, <2>1, WorkerFrame
<1>14. QED
  BY <1>2, <1>3, <1>4, <1>5, <1>6, <1>7, <1>8, <1>9, <1>10, <1>11, <1>12, <1>13, Zenon
     DEF Next, Common, Work, Notify, Send, Write

-----------------------------------------------------------------------------
(***************************************************************************)
(* Where a change is.                                                      *)
(***************************************************************************)

\* The actions that take up what the worker has accumulated.
Packages == PackageAndWait \/ ProcessAvailable \/ AdvanceToReady

\* What is at position i after a step was at position j before it.
Moved(i, j) ==
  /\ j \in DOMAIN callbacks
  /\ callbacks'[i].token = callbacks[j].token
  /\ callbacks'[i].accumulated = callbacks[j].accumulated
  /\ callbacks'[i].toDeliver = callbacks[j].toDeliver
  /\ callbacks'[i].initial <=> callbacks[j].initial

\* It has just been added.
Fresh(i) ==
  /\ AddCallback
  /\ i = Len(callbacks) + 1
  /\ callbacks'[i].token = nextToken
  /\ ~callbacks'[i].initial /\ ~callbacks'[i].skip
  /\ callbacks'[i].toDeliver = {} /\ callbacks'[i].accumulated = {}

\* Most actions leave what the callbacks hold alone, but not their positions.
LEMMA Stays ==
  ASSUME NotificationsInv, HistoryTypeOK, Next,
         ~PrepareHandover, ~AfterAdvance, ~Packages,
         NEW i \in DOMAIN callbacks'
  PROVE  \/ Fresh(i)
         \/ Moved(i, i) /\ count' = count
         \/ \E k \in DOMAIN callbacks :
              RemoveCallback(k) /\ Moved(i, IF i < k THEN i ELSE i + 1)
<1>1. CASE AddCallback
  <2>1. count' = count
    BY <1>1 DEF AddCallback
  <2>2. QED
    BY <1>1, <2>1, AddEach DEF Moved, Fresh
<1>2. ASSUME NEW k \in DOMAIN callbacks, RemoveCallback(k)
      PROVE  Moved(i, IF i < k THEN i ELSE i + 1)
  BY <1>2, RemoveEach DEF Moved
<1>3. ASSUME NEW unwanteds \in SUBSET DOMAIN callbacks, SuppressNext(unwanteds)
      PROVE  Moved(i, i) /\ count' = count
  <2>1. count' = count
    BY <1>3 DEF SuppressNext
  <2>2. QED
    BY <1>3, <2>1, SuppressEach DEF Moved
<1>4. CASE callbacks' = callbacks /\ ~\E k \in DOMAIN callbacks : RemoveCallback(k)
  <2>1. Moved(i, i)
    BY <1>4 DEF Moved
  <2>2. count' = count
    BY <1>4 DEF Next, Common, Work, Notify, Send, Write, Packages, ReadResults, Refresh,
       OtherCommit, OtherWake, Return, Start, NeedToRun, CalculateChanges, Signal,
       NotifyInVain, Deliver, BeginWrite, CommitWrite, CancelWrite, FailToCommit,
       BeforeAdvance, Advance, notifierVars, AddCallback, SuppressNext
  <2>3. QED
    BY <2>1, <2>2
<1>5. QED
  BY <1>1, <1>2, <1>3, <1>4, CallbacksSame DEF Packages

\* A delivery goes on as it began.
LEMMA DeliveryGoesOn ==
  ASSUME NotificationsInv, Next, ~Packages, Delivering'
  PROVE  Delivering /\ main'.to = main.to /\ main'.goal = main.goal
<1>1. main \in Main
  BY VersionTypes
<1>2. CASE UNCHANGED main
  BY <1>2 DEF Delivering
<1>3. CASE BeforeAdvance \/ Advance \/ Deliver \/ AfterAdvance
  BY <1>1, <1>3 DEF BeforeAdvance, Advance, Deliver, AfterAdvance, Main, Idle, Delivering
<1>4. CASE ~main'.packed
  BY <1>4 DEF Delivering
<1>5. \/ UNCHANGED main \/ BeforeAdvance \/ Advance \/ Deliver \/ AfterAdvance
      \/ ~main'.packed
  BY DEF Next, Common, Work, Notify, Send, Write, Packages, ReadResults, Refresh,
     OtherCommit, OtherWake, Return, Start, NeedToRun, CalculateChanges, Signal,
     NotifyInVain, BeginWrite, CommitWrite, CancelWrite, FailToCommit,
     AddCallback, RemoveCallback, SuppressNext, PrepareHandover, Idle
<1>6. QED
  BY <1>2, <1>3, <1>4, <1>5

\* The worker looks at ever later versions, once there is a callback.
LEMMA WorkerForward ==
  ASSUME VersionsInv, HistoryTypeOK, WorkerInv, Next, callbacks # <<>>
  PROVE  notifier.seen <= notifier'.seen /\ notifier.version <= notifier'.version
<1>0. /\ notifier.version \in Nat /\ notifier.seen \in Nat
      /\ notifier.place # "none"
      /\ Running => /\ notifier.version <= Head(worker.todo)
                    /\ notifier.seen <= Head(worker.todo)
  BY HistoryTypes, TodoFacts, SeenBehind DEF VersionsInv, WorkerInv
<1>1. CASE Start
  BY <1>0, <1>1, StartEffect DEF VersionsInv
<1>2. CASE CalculateChanges
  BY <1>0, <1>2, CalculateEffect DEF VersionsInv
<1>3. CASE PrepareHandover
  BY <1>0, <1>3, HandoverEffect DEF VersionsInv
<1>4. CASE ReadResults \/ AddCallback
  BY <1>0, <1>4, RegisteredEffect DEF ReadResults, AddCallback, VersionsInv
<1>5. CASE ProcessAvailable \/ AdvanceToReady \/ PackageAndWait
  BY <1>0, <1>5, PackageEffect DEF ProcessAvailable, AdvanceToReady, PackageAndWait,
     VersionsInv
<1>6. CASE Deliver
  BY <1>0, <1>6, VersionTypes DEF Deliver, Notifier, VersionsInv
<1>7. CASE UNCHANGED notifier
  BY <1>0, <1>7
<1>8. \/ Start \/ CalculateChanges \/ PrepareHandover \/ ReadResults \/ AddCallback
      \/ ProcessAvailable \/ AdvanceToReady \/ PackageAndWait \/ Deliver
      \/ UNCHANGED notifier
  BY DEF Next, Common, Work, Notify, Send, Write, Refresh,
     OtherCommit, OtherWake, Return, NeedToRun, Signal,
     NotifyInVain, BeginWrite, CommitWrite, CancelWrite, FailToCommit,
     RemoveCallback, SuppressNext, BeforeAdvance, Advance, AfterAdvance, notifierVars
<1>9. QED
  BY <1>1, <1>2, <1>3, <1>4, <1>5, <1>6, <1>7, <1>8

\* What the worker holds is what it has just calculated, until it hands it over.
LEMMA ChangesStay ==
  ASSUME NotificationsInv, TodoInv, Next, ~CalculateChanges
  PROVE  worker'.changes \subseteq worker.changes
<1>1. CASE Start
  BY <1>1, StartEffect
<1>2. ASSUME NEW wanted \in BOOLEAN, NeedToRun(wanted)
      PROVE  worker'.changes = worker.changes
  BY <1>2, NeedToRunEffect
<1>3. CASE PrepareHandover
  BY <1>3, HandoverEffect
<1>4. CASE Signal
  BY <1>4 DEF Signal, AtRest
<1>5. CASE UNCHANGED worker
  BY <1>5
<1>6. \/ Start \/ (\E wanted \in BOOLEAN : NeedToRun(wanted)) \/ PrepareHandover
      \/ Signal \/ UNCHANGED worker
  BY DEF Next, Common, Work, Notify, Send, Write, Refresh,
     OtherCommit, OtherWake, Return, ReadResults, AddCallback, Deliver,
     ProcessAvailable, AdvanceToReady, PackageAndWait,
     NotifyInVain, BeginWrite, CommitWrite, CancelWrite, FailToCommit,
     RemoveCallback, SuppressNext, BeforeAdvance, Advance, AfterAdvance, notifierVars
<1>7. QED
  BY <1>1, <1>2, <1>3, <1>4, <1>5, <1>6

\* The flag initial of a callback is set by its first call, and by nothing else.
LEMMA CalledStep ==
  ASSUME VersionsInv, NotificationsInv', HistoryTypeOK, TokensInv, CalledInv, Next, Record
  PROVE  CalledInv'
<1> SUFFICES ASSUME NEW i \in DOMAIN callbacks'
             PROVE
               /\ callbacks'[i].initial <=> seen'[callbacks'[i].token] # NotYet
               /\ callbacks'[i].initial => notifier'.hasRun
               /\ ~callbacks'[i].initial => told'[callbacks'[i].token] = {}
  BY DEF CalledInv
<1>0. /\ NotificationsInv /\ TripInv /\ TodoInv
      /\ notifier.hasRun => notifier'.hasRun
  BY NotifierForward DEF VersionsInv
<1>1. ASSUME NEW j \in DOMAIN callbacks,
             callbacks'[i].token = callbacks[j].token,
             callbacks'[i].initial <=> callbacks[j].initial,
             seen'[callbacks[j].token] = seen[callbacks[j].token],
             told'[callbacks[j].token] = told[callbacks[j].token]
      PROVE
               /\ callbacks'[i].initial <=> seen'[callbacks'[i].token] # NotYet
               /\ callbacks'[i].initial => notifier'.hasRun
               /\ ~callbacks'[i].initial => told'[callbacks'[i].token] = {}
  BY <1>0, <1>1 DEF CalledInv
<1>2. CASE AfterAdvance
  <2>1. main.pc = "after" /\ notifier.hasRun
    BY <1>0, <1>2, AfterEffect DEF TripInv
  <2>2. CASE Visit(index + 1)
    <3>1. CASE i # index + 1 \/ callbacks[i].initial
      <4>1. CASE i # index + 1
        BY <1>0, <1>1, <2>2, <4>1, VisitEffect
      <4>2. CASE i = index + 1 /\ callbacks[i].initial
        BY <1>0, <2>1, <2>2, <4>2, VisitEffect DEF CalledInv
      <4>3. QED
        BY <3>1, <4>1, <4>2
    <3>2. CASE i = index + 1 /\ ~callbacks[i].initial
      <4>1. realm.version # NotYet
        BY <1>0, HistoryTypes DEF NotYet
      <4>2. QED
        BY <1>0, <2>1, <2>2, <3>2, <4>1, VisitEffect
    <3>3. QED
      BY <3>1, <3>2
  <2>3. CASE callbacks' = callbacks /\ seen' = seen /\ told' = told
    BY <1>1, <2>3
  <2>4. QED
    BY <1>0, <1>2, <2>2, <2>3, AfterEffect DEF Pass, Finish
<1>3. ASSUME ~AfterAdvance
      PROVE  seen' = seen /\ told' = told
  BY <1>3, RecordQuiet
<1>4. CASE PrepareHandover /\ ~AfterAdvance
  BY <1>0, <1>1, <1>3, <1>4, HandoverEach
<1>5. CASE Packages /\ ~AfterAdvance
  <2>1. Package
    BY <1>5 DEF Packages, PackageAndWait, ProcessAvailable, AdvanceToReady
  <2>2. CASE CanPackage
    BY <1>0, <1>1, <1>3, <1>5, <2>1, <2>2, PackageEach
  <2>3. CASE ~CanPackage
    BY <1>1, <1>3, <1>5, <2>1, <2>3 DEF Package, CanPackage
  <2>4. QED
    BY <2>2, <2>3
<1>6. CASE ~PrepareHandover /\ ~AfterAdvance /\ ~Packages
  <2>1. ASSUME NEW j, Moved(i, j)
        PROVE
               /\ callbacks'[i].initial <=> seen'[callbacks'[i].token] # NotYet
               /\ callbacks'[i].initial => notifier'.hasRun
               /\ ~callbacks'[i].initial => told'[callbacks'[i].token] = {}
    BY <1>1, <1>3, <1>6, <2>1 DEF Moved
  <2>2. CASE Fresh(i)
    <3>1. nextToken \in Token /\ nextToken >= nextToken
      BY <1>0, <2>2, HistoryTypes DEF Fresh, AddCallback, NotificationsInv, NotificationsTypeOK
    <3>2. seen[nextToken] = NotYet /\ told[nextToken] = {}
      BY <3>1 DEF TokensInv
    <3>3. QED
      BY <1>3, <1>6, <2>2, <3>2 DEF Fresh
  <2>3. QED
    BY <1>0, <1>6, <2>1, <2>2, Stays
<1>7. QED
  BY <1>2, <1>4, <1>5, <1>6

\* Packaging is between deliveries, and touches the callbacks and the notifier only.
LEMMA PackagesEffect ==
  ASSUME NotificationsInv, TripInv, Packages
  PROVE  /\ Package /\ ~Delivering /\ ~realm.writing
         /\ UNCHANGED <<latest, changing, realm, call, wake, worker, skipVersion,
                        index, nextToken>>
         /\ Delivering' => CanPackage /\ main'.to = notifier.version
         /\ notifier'.version = notifier.version /\ notifier'.seen = notifier.seen
         /\ (notifier'.hasRun <=> notifier.hasRun)
<1>1. /\ Package
      /\ UNCHANGED <<latest, changing, realm, call, wake, worker, skipVersion,
                     index, nextToken>>
  BY DEF Packages, PackageAndWait, ProcessAvailable, AdvanceToReady
<1>2. ~Delivering /\ ~realm.writing
  BY DEF Packages, PackageAndWait, ProcessAvailable, AdvanceToReady, TripInv, Free,
         Delivering
<1>3. Delivering' => CanPackage /\ main'.to = notifier.version
  <2>1. CASE PackageAndWait
    BY <2>1, PackageAndWaitEffect DEF Delivering
  <2>2. CASE ProcessAvailable \/ AdvanceToReady
    BY <2>2 DEF ProcessAvailable, AdvanceToReady, Delivering, Idle
  <2>3. QED
    BY <2>1, <2>2 DEF Packages
<1>4. QED
  BY <1>1, <1>2, <1>3, PackageEffect

\* A change that only moves forward is still at one place.
LEMMA OnceFrame ==
  ASSUME VersionsInv, HistoryTypeOK, OnceInv,
         NEW i \in DOMAIN callbacks', NEW j \in DOMAIN callbacks,
         NEW v \in 1 .. MaxVersion,
         callbacks'[i].token = callbacks[j].token,
         callbacks'[i].accumulated = callbacks[j].accumulated,
         callbacks'[i].toDeliver = callbacks[j].toDeliver,
         Delivering' => Delivering /\ main'.to = main.to,
         told'[callbacks[j].token] = told[callbacks[j].token],
         v \in worker.changes \/ v \notin worker'.changes,
         realm.version <= realm'.version,
         notifier.seen <= notifier'.seen, notifier.version <= notifier'.version,
         NotificationsInv'
  PROVE  OnceAt(i, v)'
<1>1. /\ OnceAt(j, v) /\ v \in Nat /\ realm.version \in Nat
      /\ notifier.seen \in Nat /\ notifier.version \in Nat
  BY HistoryTypes DEF OnceInv, VersionsInv
<1>2. realm'.version \in Nat /\ notifier'.seen \in Nat /\ notifier'.version \in Nat
  BY MaxAssumption DEF NotificationsInv, NotificationsTypeOK, Notifier, Version
<1>3. v \in Delivered(i)' => v \in Delivered(j) /\ main'.to = main.to
  BY DEF Delivered
<1>4. OnceAt(i, v)' <=>
        LET t == told'[callbacks'[i].token]
        IN /\ v \in t => v \notin Delivered(i)' /\ v <= realm'.version
           /\ v \in t \cup Delivered(i)' => v \notin callbacks'[i].accumulated
                                            /\ v <= notifier'.seen
           /\ v \in t \cup Delivered(i)' \cup callbacks'[i].accumulated
                => v \notin worker'.changes
           /\ v \in Delivered(i)' => v <= main'.to
           /\ v \in callbacks'[i].accumulated =>
                v <= notifier'.version /\ v <= notifier'.seen
  BY Zenon DEF OnceAt
<1>5. /\ v <= realm.version => v <= realm'.version
      /\ v <= notifier.seen => v <= notifier'.seen
      /\ v <= notifier.version => v <= notifier'.version
  BY <1>1, <1>2
<1>6. QED
  BY <1>1, <1>3, <1>4, <1>5 DEF OnceAt

\* Handing over, packaging and calling take a change from one place to the next.
LEMMA OnceStep ==
  ASSUME VersionsInv, NotificationsInv', HistoryTypeOK, TokensInv, WorkerInv,
         CalledInv, OnceInv, Next, Record
  PROVE  OnceInv'
<1> SUFFICES ASSUME NEW i \in DOMAIN callbacks', NEW v \in 1 .. MaxVersion
             PROVE  OnceAt(i, v)'
  BY DEF OnceInv
<1>0. /\ NotificationsInv /\ TripInv /\ TodoInv
      /\ realm.version <= realm'.version
      /\ callbacks # <<>> => /\ notifier.seen <= notifier'.seen
                             /\ notifier.version <= notifier'.version
      /\ v \in Nat /\ realm.version \in Nat
      /\ notifier.seen \in Nat /\ notifier.version \in Nat
      /\ callbacks = <<>> <=> DOMAIN callbacks = {}
  <2>1. realm.version \in Nat /\ realm'.version \in Nat
    BY HistoryTypes, MaxAssumption
       DEF VersionsInv, NotificationsInv, NotificationsTypeOK, Version
  <2>2. QED
    BY <2>1, WorkerForward, RealmForward, HistoryTypes DEF VersionsInv
<1>t. ~AfterAdvance => told' = told
  BY RecordQuiet
<1>1. CASE AfterAdvance
  <2>1. /\ main.pc = "after" /\ UNCHANGED <<realm, worker, notifier>>
        /\ Delivering /\ main.to = realm.version
    BY <1>0, <1>1, AfterEffect DEF TripInv, Delivering
  <2>2. CASE Visit(index + 1)
    <3>1. /\ DOMAIN callbacks' = DOMAIN callbacks /\ main' = main
          /\ callbacks'[i].token = callbacks[i].token
          /\ callbacks'[i].accumulated = callbacks[i].accumulated
      BY <1>0, <2>2, VisitEffect DEF Visit
    <3>2. CASE i # index + 1
      <4>1. /\ callbacks'[i].toDeliver = callbacks[i].toDeliver
            /\ told'[callbacks[i].token] = told[callbacks[i].token]
        BY <1>0, <2>2, <3>1, <3>2, VisitEffect
      <4>2. Delivering' => Delivering
        BY <2>1
      <4>3. QED
        BY <1>0, <2>1, <3>1, <4>1, <4>2, OnceFrame
    <3>3. CASE i = index + 1
      <4>1. /\ callbacks'[i].toDeliver = {}
            /\ \/ told'[callbacks[i].token] = told[callbacks[i].token]
               \/ told'[callbacks[i].token] =
                        told[callbacks[i].token] \cup callbacks[i].toDeliver
        BY <1>0, <2>2, <3>1, <3>3, VisitEffect
      <4>2. Delivered(i)' = {}
        BY <4>1 DEF Delivered
      <4>3. OnceAt(i, v) /\ Delivered(i) = callbacks[i].toDeliver
        BY <2>1, <3>1 DEF OnceInv, Delivered
      <4>4. OnceAt(i, v)' <=>
        LET t == told'[callbacks'[i].token]
        IN /\ v \in t => v \notin Delivered(i)' /\ v <= realm'.version
           /\ v \in t \cup Delivered(i)' => v \notin callbacks'[i].accumulated
                                            /\ v <= notifier'.seen
           /\ v \in t \cup Delivered(i)' \cup callbacks'[i].accumulated
                => v \notin worker'.changes
           /\ v \in Delivered(i)' => v <= main'.to
           /\ v \in callbacks'[i].accumulated =>
                v <= notifier'.version /\ v <= notifier'.seen
        BY Zenon DEF OnceAt
      <4>5. QED
        BY <1>0, <2>1, <3>1, <4>1, <4>2, <4>3, <4>4 DEF OnceAt
    <3>4. QED
      BY <3>2, <3>3
  <2>3. CASE callbacks' = callbacks /\ told' = told /\ (main' = main \/ main' = Idle)
    <3>1. Delivering' => Delivering /\ main'.to = main.to
      BY <2>1, <2>3 DEF Delivering, Idle
    <3>2. QED
      BY <1>0, <2>1, <2>3, <3>1, OnceFrame
  <2>4. QED
    BY <1>0, <1>1, <2>2, <2>3, AfterEffect DEF Pass, Finish
<1>2. CASE Packages /\ ~AfterAdvance
  <2>1. /\ Package /\ ~Delivering /\ worker' = worker /\ realm' = realm
        /\ Delivering' => CanPackage /\ main'.to = notifier.version
        /\ notifier'.version = notifier.version /\ notifier'.seen = notifier.seen
    BY <1>0, <1>2, PackagesEffect
  <2>2. CASE CanPackage
    <3>1. /\ i \in DOMAIN callbacks
          /\ callbacks'[i].token = callbacks[i].token
          /\ callbacks'[i].toDeliver = callbacks[i].accumulated
          /\ callbacks'[i].accumulated = {}
      BY <1>0, <2>1, <2>2, PackageEach
    <3>2. OnceAt(i, v) /\ Delivered(i) = {}
      BY <2>1, <3>1 DEF OnceInv, Delivered
    <3>3. /\ Delivered(i)' \subseteq callbacks[i].accumulated
          /\ v \in Delivered(i)' => main'.to = notifier.version
      BY <2>1, <3>1 DEF Delivered
    <3>4. OnceAt(i, v)' <=>
        LET t == told'[callbacks'[i].token]
        IN /\ v \in t => v \notin Delivered(i)' /\ v <= realm'.version
           /\ v \in t \cup Delivered(i)' => v \notin callbacks'[i].accumulated
                                            /\ v <= notifier'.seen
           /\ v \in t \cup Delivered(i)' \cup callbacks'[i].accumulated
                => v \notin worker'.changes
           /\ v \in Delivered(i)' => v <= main'.to
           /\ v \in callbacks'[i].accumulated =>
                v <= notifier'.version /\ v <= notifier'.seen
      BY Zenon DEF OnceAt
    <3>5. QED
      BY <1>2, <1>t, <2>1, <3>1, <3>2, <3>3, <3>4 DEF OnceAt
  <2>3. CASE ~CanPackage
    <3>1. callbacks' = callbacks
      BY <2>1, <2>3 DEF Package, CanPackage
    <3>2. QED
      BY <1>0, <1>2, <1>t, <2>1, <2>3, <3>1, OnceFrame
  <2>4. QED
    BY <2>2, <2>3
<1>3. CASE ~Packages /\ ~AfterAdvance
  <2>1. Delivering' => Delivering /\ main'.to = main.to
    BY <1>0, <1>3, DeliveryGoesOn
  <2>2. CASE PrepareHandover
    <3>1. /\ i \in DOMAIN callbacks
          /\ callbacks'[i].token = callbacks[i].token
          /\ callbacks'[i].toDeliver = callbacks[i].toDeliver
          /\ callbacks'[i].accumulated \subseteq
               callbacks[i].accumulated \cup worker.changes
      BY <1>0, <2>2, HandoverEach
    <3>2. /\ worker'.changes = {} /\ notifier'.version = Head(worker.todo)
          /\ Head(worker.todo) \in Nat
          /\ notifier'.seen = notifier.seen
          /\ notifier.seen <= Head(worker.todo) /\ notifier.version <= Head(worker.todo)
      BY <1>0, <2>2, HandoverEffect, SeenBehind, TodoFacts DEF Version
    <3>3. OnceAt(i, v) /\ (v \in worker.changes => v <= notifier.seen)
      BY <3>1 DEF OnceInv, WorkerInv
    <3>4. Delivered(i)' \subseteq Delivered(i) /\ (v \in Delivered(i)' => main'.to = main.to)
      BY <2>1, <3>1 DEF Delivered
    <3>5. OnceAt(i, v)' <=>
        LET t == told'[callbacks'[i].token]
        IN /\ v \in t => v \notin Delivered(i)' /\ v <= realm'.version
           /\ v \in t \cup Delivered(i)' => v \notin callbacks'[i].accumulated
                                            /\ v <= notifier'.seen
           /\ v \in t \cup Delivered(i)' \cup callbacks'[i].accumulated
                => v \notin worker'.changes
           /\ v \in Delivered(i)' => v <= main'.to
           /\ v \in callbacks'[i].accumulated =>
                v <= notifier'.version /\ v <= notifier'.seen
      BY Zenon DEF OnceAt
    <3>6. realm' = realm
      BY <2>2 DEF PrepareHandover
    <3>7. v \in callbacks'[i].accumulated => v <= notifier'.version
      BY <1>0, <3>1, <3>2, <3>3 DEF OnceAt
    <3>8. QED
      BY <1>3, <1>t, <3>1, <3>2, <3>3, <3>4, <3>5, <3>6, <3>7 DEF OnceAt
  <2>3. CASE Fresh(i)
    <3>1. nextToken \in Token /\ nextToken >= nextToken
      <4>1. nextToken <= MaxToken /\ nextToken \in 1 .. MaxToken + 1
        BY <1>0, <2>3 DEF Fresh, AddCallback, NotificationsInv, NotificationsTypeOK
      <4>2. QED
        BY <4>1, MaxAssumption DEF Token
    <3>2. told[nextToken] = {}
      BY <3>1 DEF TokensInv
    <3>3. told'[callbacks'[i].token] = {} /\ callbacks'[i].accumulated = {}
      BY <1>3, <1>t, <2>3, <3>2 DEF Fresh
    <3>4. Delivered(i)' = {}
      BY <2>3 DEF Fresh, Delivered
    <3>5. QED
      BY <3>3, <3>4 DEF OnceAt
  <2>4. ASSUME NEW j \in DOMAIN callbacks, Moved(i, j), ~PrepareHandover
        PROVE  OnceAt(i, v)'
    <3>1. callbacks # <<>>
      BY <1>0
    <3>2. v \in worker.changes \/ v \notin worker'.changes \/ CalculateChanges
      BY <1>0, ChangesStay
    <3>3. CASE v \in worker.changes \/ v \notin worker'.changes
      BY <1>0, <1>3, <1>t, <2>1, <2>4, <3>1, <3>3, OnceFrame DEF Moved
    <3>4. CASE v \in worker'.changes /\ CalculateChanges
      <4>1. v > notifier.seen
        BY <1>0, <3>4, CalculateEffect DEF Since
      <4>2. OnceAt(j, v)
        BY <2>4 DEF OnceInv
      <4>3. /\ v \notin told[callbacks[j].token] /\ v \notin Delivered(j)
            /\ v \notin callbacks[j].accumulated
        BY <1>0, <4>1, <4>2 DEF OnceAt
      <4>4. v \notin Delivered(i)'
        BY <2>1, <2>4, <4>3 DEF Delivered, Moved
      <4>5. QED
        BY <1>3, <1>t, <2>4, <4>3, <4>4 DEF Moved, OnceAt
    <3>5. QED
      BY <3>2, <3>3, <3>4
  <2>5. QED
    <3>1. CASE ~PrepareHandover
      BY <1>0, <1>3, <2>3, <2>4, <3>1, Stays DEF Moved
    <3>2. QED
      BY <2>2, <3>1
<1>4. QED
  BY <1>1, <1>2, <1>3

-----------------------------------------------------------------------------
(***************************************************************************)
(* ToldOnce.                                                               *)
(***************************************************************************)

\* What holds whatever the code does.
FullInv == VersionsInv /\ TellingInv

\* What CalmNext allows, Next does.
LEMMA NextOf == CalmNext => Next
BY DEF CalmNext, Next

\* TellingInv and the invariant of the versions hold of a file that was just opened,
LEMMA FullStart == HistoryInit => FullInv
<1> SUFFICES ASSUME HistoryInit
             PROVE  FullInv
  OBVIOUS
<1>1. VersionsInv /\ NotificationsInv
  BY VersionsStart DEF HistoryInit, VersionsInv
<1>2. /\ DOMAIN callbacks = {} /\ callbacks = <<>>
      /\ notifier.seen = 0 /\ notifier.version = 0 /\ notifier.place = "none"
      /\ worker.pc # "handover" /\ worker.changes = {} /\ changing = {}
      /\ seen = [t \in Token |-> NotYet] /\ told = [t \in Token |-> {}]
      /\ unwanted = {} /\ suppressed = [t \in Token |-> {}]
  BY DEF HistoryInit, Init, Unregistered, AtRest
<1>3. HistoryTypeOK
  BY <1>2 DEF HistoryTypeOK, Change
<1>4. TokensInv
  BY <1>2 DEF TokensInv
<1>5. WorkerInv
  BY <1>2 DEF WorkerInv
<1>6. CalledInv /\ OnceInv
  BY <1>2 DEF CalledInv, OnceInv
<1>7. QED
  BY <1>1, <1>3, <1>4, <1>5, <1>6 DEF FullInv, TellingInv

\* and every step keeps them.
LEMMA FullStep ==
  FullInv /\ [Next /\ Record]_<<vars, historyVars>> => FullInv'
<1> SUFFICES ASSUME FullInv, [Next /\ Record]_<<vars, historyVars>>
             PROVE  FullInv'
  OBVIOUS
<1>1. CASE Next /\ Record
  <2>1. /\ VersionsInv /\ NotificationsInv /\ TodoInv /\ TripInv
        /\ HistoryTypeOK /\ TokensInv /\ WorkerInv /\ CalledInv /\ OnceInv
    BY DEF FullInv, TellingInv, VersionsInv
  <2>2. VersionsInv' /\ NotificationsInv'
    BY <1>1, <2>1, VersionsStep DEF VersionsInv
  <2>3. HistoryTypeOK'
    BY <1>1, <2>1, <2>2, HistoryTypeStep
  <2>4. TokensInv'
    BY <1>1, <2>1, <2>2, TokensStep
  <2>5. WorkerInv'
    BY <1>1, <2>1, <2>2, WorkerStep
  <2>6. CalledInv'
    BY <1>1, <2>1, <2>2, CalledStep
  <2>7. OnceInv'
    BY <1>1, <2>1, <2>2, OnceStep
  <2>8. QED
    BY <2>2, <2>3, <2>4, <2>5, <2>6, <2>7 DEF FullInv, TellingInv
<1>2. CASE UNCHANGED <<vars, historyVars>>
  <2>1. VersionsInv'
    BY <1>2, VersionsStep DEF FullInv
  <2>2. UNCHANGED <<latest, changing, realm, main, worker, notifier, callbacks,
                    nextToken, seen, told, unwanted, suppressed>>
    BY <1>2 DEF vars, notifierVars, historyVars
  <2>3. HistoryTypeOK' /\ TokensInv' /\ WorkerInv' /\ CalledInv'
    BY <2>2 DEF FullInv, TellingInv, HistoryTypeOK, TokensInv, WorkerInv, CalledInv
  <2>4. \A i \in DOMAIN callbacks : Delivered(i)' = Delivered(i)
    BY <2>2 DEF Delivered, Delivering
  <2>5. OnceInv'
    BY <2>2, <2>4 DEF FullInv, TellingInv, OnceInv, OnceAt
  <2>6. QED
    BY <2>1, <2>3, <2>5 DEF FullInv, TellingInv
<1>3. QED
  BY <1>1, <1>2

\* A call tells what is to be delivered, which nobody was told before.
LEMMA CallTells ==
  ASSUME FullInv, Next, Record, Calls, ~call'.first
  PROVE  call'.changes \subseteq (1 .. realm.version) \ told[call'.token]
<1>1. /\ NotificationsInv /\ TripInv /\ HistoryTypeOK /\ OnceInv
  BY DEF FullInv, TellingInv, VersionsInv
<1>2. AfterAdvance
  BY NoCalls
<1>3. Visit(index + 1) /\ main.pc = "after"
  <2>1. call' # call
    BY DEF Calls, NoCall
  <2>2. QED
    BY <1>1, <1>2, <2>1, AfterEffect DEF Pass, Finish
<1>4. PICK k \in DOMAIN callbacks :
        /\ call'.token = callbacks[k].token
        /\ call'.changes = callbacks[k].toDeliver
  BY <1>3 DEF Visit
<1>5. /\ callbacks[k].toDeliver \subseteq 1 .. MaxVersion
      /\ realm.version \in Nat /\ main.to = realm.version
      /\ Delivered(k) = callbacks[k].toDeliver
  BY <1>1, <1>3, HistoryTypes DEF TripInv, Delivered, Delivering, Change
<1>6. ASSUME NEW v \in callbacks[k].toDeliver
      PROVE  v \in 1 .. realm.version /\ v \notin told[callbacks[k].token]
  <2>1. OnceAt(k, v) /\ v \in 1 .. MaxVersion
    BY <1>1, <1>5, <1>6 DEF OnceInv
  <2>2. v <= realm.version /\ v \notin told[callbacks[k].token]
    BY <1>5, <1>6, <2>1 DEF OnceAt
  <2>3. QED
    BY <1>5, <2>1, <2>2
<1>7. QED
  BY <1>4, <1>6

\* FullInv is an invariant.
LEMMA Full == FullSpec => []FullInv
BY FullStart, FullStep, PTL DEF FullSpec

\* ToldOnce in every behaviour, the failed commits and the callbacks that are removed
\* in the delivery they were added in included: no call of after_advance tells a
\* callback of a change that another call told it, or that its Realm cannot see.
THEOREM ToldOnceHolds == FullSpec => ToldOnce
<1>1. FullInv /\ [Next /\ Record]_<<vars, historyVars>> =>
        [Calls /\ ~call'.first =>
           call'.changes \subseteq (1 .. realm.version) \ told[call'.token]]_vars
  BY CallTells
<1>2. QED
  BY <1>1, Full, PTL DEF FullSpec, ToldOnce

\* A calm behaviour is one of the full specification.
LEMMA CalmIsFull == CalmSpec => FullSpec
<1>1. [CalmNext /\ Record]_<<vars, historyVars>> => [Next /\ Record]_<<vars, historyVars>>
  BY NextOf
<1>2. QED
  BY <1>1, PTL DEF CalmSpec, FullSpec

\* ToldOnce of the specification that the run of MCNotifications checks it of.
THEOREM ToldOnceWhenCalm == CalmSpec => ToldOnce
BY CalmIsFull, ToldOnceHolds, PTL

-----------------------------------------------------------------------------
(***************************************************************************)
(* The calm steps: deliveries.                                             *)
(***************************************************************************)

\* 0 aside, size_t subtracts as the numbers do.
LEMMA CountDown ==
  ASSUME NEW n \in 1 .. SizeMax
  PROVE  (n + SizeMax) % (SizeMax + 1) = n - 1
<1>1. SizeMax \in Nat
  BY SizeAssumption
<1>2. n + SizeMax = (SizeMax + 1) + (n - 1)
  BY <1>1
<1>3. n - 1 \in 0 .. SizeMax
  BY <1>1
<1>4. QED
  BY <1>1, <1>2, <1>3

\* In a delivery, what is removed is among those that are delivered to.
LEMMA RemoveEffect ==
  ASSUME NotificationsInv, HistoryTypeOK, DeliveryInv, NEW k \in DOMAIN callbacks,
         RemoveCallback(k), Delivering => k <= count
  PROVE  /\ k \in 1 .. Len(callbacks)
         /\ Len(callbacks') = Len(callbacks) - 1 /\ DOMAIN callbacks' = 1 .. Len(callbacks')
         /\ Delivering => count' = count - 1
         /\ index' = IF index # 0 /\ index >= k THEN index - 1 ELSE index
         /\ UNCHANGED <<latest, changing, realm, main, call, signal, wake, worker,
                        skipVersion, notifier, nextToken>>
<1>1. /\ callbacks \in Seq(Callback) /\ count \in 0 .. SizeMax
  BY DEF NotificationsInv, CallbacksInv, NotificationsTypeOK
<1>2. /\ Len(callbacks') = Len(callbacks) - 1 /\ callbacks' \in Seq(Callback)
      /\ k \in 1 .. Len(callbacks)
  BY <1>1, RemoveOne DEF RemoveCallback
<1>3. DOMAIN callbacks' = 1 .. Len(callbacks')
  BY <1>2, LenProperties
<1>4. Delivering => count \in 1 .. SizeMax
  BY <1>1, <1>2, SizeAssumption, LenProperties
<1>5. Delivering => count' = count - 1
  BY <1>4, CountDown DEF RemoveCallback
<1>6. QED
  BY <1>2, <1>3, <1>5 DEF RemoveCallback

\* Only a package begins a delivery, and only after_advance ends one.
LEMMA DeliveryStays ==
  ASSUME NotificationsInv, TripInv, Next, ~Packages, ~AfterAdvance
  PROVE  /\ Delivering' <=> Delivering
         /\ Delivering => main'.to = main.to
<1>1. main \in Main
  BY VersionTypes
<1>2. CASE UNCHANGED main
  BY <1>2 DEF Delivering
<1>3. CASE BeforeAdvance \/ Advance \/ Deliver
  BY <1>1, <1>3 DEF BeforeAdvance, Advance, Deliver, Main, Idle, Delivering
<1>4. CASE ~main'.packed /\ main.pc \in {"idle", "commit"}
  BY <1>4 DEF Delivering, TripInv
<1>5. \/ UNCHANGED main \/ BeforeAdvance \/ Advance \/ Deliver
      \/ ~main'.packed /\ main.pc \in {"idle", "commit"}
  BY DEF Next, Common, Work, Notify, Send, Write, Packages, ReadResults, Refresh,
     OtherCommit, OtherWake, Return, Start, NeedToRun, CalculateChanges, Signal,
     NotifyInVain, BeginWrite, CommitWrite, CancelWrite, FailToCommit,
     AddCallback, RemoveCallback, SuppressNext, PrepareHandover, Idle, Free
<1>6. QED
  BY <1>2, <1>3, <1>4, <1>5

\* What is at position i after a step of another kind than a delivery's.
Steady(i, j) ==
  /\ j \in DOMAIN callbacks
  /\ callbacks'[i].token = callbacks[j].token
  /\ callbacks'[i].initial <=> callbacks[j].initial
  /\ callbacks'[i].toDeliver = callbacks[j].toDeliver
  /\ callbacks[j].accumulated \subseteq callbacks'[i].accumulated
  /\ callbacks'[i].skip =>
       callbacks[j].skip \/ (main.pc # "commit" /\ main'.pc = "commit")
  /\ Counted(i)' <=> Counted(j)

\* What does not touch the callbacks is steady.
LEMMA SteadySame ==
  ASSUME NotificationsInv, TripInv, Next, ~Packages, ~AfterAdvance,
         NEW i \in DOMAIN callbacks', callbacks' = callbacks, count' = count
  PROVE  Steady(i, i)
BY DeliveryStays DEF Steady, Counted

\* Between deliveries' calls and packages each callback is a new one or a steady one.
LEMMA CalmStays ==
  ASSUME NotificationsInv, NotificationsInv', TripInv, HistoryTypeOK, DeliveryInv, CalmNext,
         ~AfterAdvance, ~Packages, NEW i \in DOMAIN callbacks'
  PROVE  \/ Fresh(i) /\ ~Tracked(i)'
         \/ \E j \in DOMAIN callbacks : Steady(i, j)
<1>0. /\ Next /\ (Delivering' <=> Delivering) /\ i \in Nat
      /\ count \in Nat /\ Len(callbacks) \in Nat
  <2>1. callbacks' \in Seq(Callback)
    BY DEF NotificationsInv, CallbacksInv
  <2>2. i \in Nat
    BY <2>1, LenProperties
  <2>3. QED
    BY <2>2, NextOf, DeliveryStays, HistoryTypes
<1>1. CASE AddCallback
  <2>1. count' = count
    BY <1>1 DEF AddCallback
  <2>2. CASE i \in DOMAIN callbacks /\ callbacks'[i] = callbacks[i]
    BY <1>0, <2>1, <2>2 DEF Steady, Counted
  <2>3. CASE Fresh(i)
    <3>1. ~Counted(i)'
      BY <1>0, <2>1, <2>3 DEF Fresh, Counted, DeliveryInv
    <3>2. QED
      BY <2>3, <3>1 DEF Fresh, Tracked
  <2>4. QED
    BY <1>1, <2>2, <2>3, AddEach DEF Fresh
<1>2. ASSUME NEW k \in DOMAIN callbacks, RemoveCallback(k), Delivering => k <= count
      PROVE  \E j \in DOMAIN callbacks : Steady(i, j)
  <2>1. PICK j \in DOMAIN callbacks :
          j = (IF i < k THEN i ELSE i + 1) /\ callbacks'[i] = callbacks[j]
    BY <1>2, RemoveEach
  <2>2. Delivering => count' = count - 1 /\ k \in 1 .. Len(callbacks)
    BY <1>2, RemoveEffect
  <2>3. Delivering => (i <= count' <=> j <= count)
    BY <1>0, <1>2, <2>1, <2>2
  <2>4. Counted(i)' <=> Counted(j)
    BY <1>0, <2>3 DEF Counted
  <2>5. QED
    BY <2>1, <2>4 DEF Steady
<1>3. ASSUME NEW unwanteds \in SUBSET DOMAIN callbacks, SuppressNext(unwanteds)
      PROVE  Steady(i, i)
  <2>1. count' = count /\ main.pc = "idle" /\ main'.pc = "commit"
    BY <1>3 DEF SuppressNext, Free, Idle
  <2>2. QED
    BY <1>0, <1>3, <2>1, SuppressEach DEF Steady, Counted
<1>4. CASE PrepareHandover
  <2>1. count' = count
    BY <1>4 DEF PrepareHandover
  <2>2. QED
    BY <1>0, <1>4, <2>1, HandoverEach DEF Steady, Counted
<1>5. CASE Common /\ ~PrepareHandover
           /\ ~\E unwanteds \in SUBSET DOMAIN callbacks : SuppressNext(unwanteds)
  <2>1. callbacks' = callbacks /\ count' = count
    BY <1>5 DEF Common, Work, Notify, Send, Write, Packages, ReadResults, Refresh,
       OtherCommit, OtherWake, Return, Start, NeedToRun, CalculateChanges, Signal,
       NotifyInVain, Deliver, BeginWrite, CommitWrite, CancelWrite,
       BeforeAdvance, Advance, notifierVars
  <2>2. QED
    BY <1>0, <2>1, SteadySame
<1>6. QED
  BY <1>1, <1>2, <1>3, <1>4, <1>5, Zenon DEF CalmNext, Steady

-----------------------------------------------------------------------------
(***************************************************************************)
(* The calm steps: the worker and the wake-ups.                            *)
(***************************************************************************)

\* A step that the worker and its notifier take no part in keeps WakeInv.
LEMMA WakeFrame ==
  ASSUME WakeInv, latest' = latest, ~wake' => ~wake,
         worker'.todo = worker.todo, Running' <=> Running,
         notifier'.hasRun => notifier.hasRun,
         notifier.hasRun => notifier'.version = notifier.version
  PROVE  WakeInv'
BY DEF WakeInv

\* A worker that was woken runs to the latest version, and a commit wakes it again.
LEMMA WakeStep ==
  ASSUME NotificationsInv, TodoInv, WakeInv, Next
  PROVE  WakeInv'
<1>0. /\ Running \/ notifier.hasRun => notifier.place = "main"
      /\ worker.pc = "idle" => ~Running
  BY DEF TodoInv, Running
<1>1. CASE Start
  <2>1. CASE notifier.place = "none"
    <3>1. ~Running' /\ ~notifier'.hasRun
      BY <1>0, <1>1, <2>1, StartEffect DEF Running
    <3>2. QED
      BY <3>1 DEF WakeInv
  <2>2. CASE notifier.place # "none"
    <3>1. Running' /\ Last(worker'.todo) = latest /\ latest' = latest
      <4>1. /\ worker'.todo = IF skipVersion = 0 THEN <<latest>>
                                                  ELSE <<skipVersion, latest>>
            /\ Running'
        BY <1>1, <2>2, StartEffect DEF Running
      <4>2. Last(worker'.todo) = latest
        BY <4>1, One, Two
      <4>3. QED
        BY <1>1, <4>1, <4>2 DEF Start
    <3>2. QED
      BY <3>1 DEF WakeInv
  <2>3. QED
    BY <2>1, <2>2
<1>2. ASSUME NEW wanted \in BOOLEAN, NeedToRun(wanted)
      PROVE  WakeInv'
  BY <1>2, NeedToRunEffect, WakeFrame DEF NeedToRun, notifierVars
<1>3. CASE CalculateChanges
  <2>1. latest' = latest /\ wake' = wake
    BY <1>3 DEF CalculateChanges
  <2>2. Running' <=> Running
    BY <1>3, CalculateEffect, Zenon
  <2>3. QED
    BY <1>3, <2>1, <2>2, CalculateEffect, WakeFrame
<1>4. CASE PrepareHandover
  <2>1. latest' = latest /\ wake' = wake
    BY <1>4 DEF PrepareHandover
  <2>2. /\ Running /\ worker'.todo = Tail(worker.todo)
        /\ worker'.pc = IF Len(worker.todo) > 1 THEN "run" ELSE "signal"
        /\ notifier'.version = Head(worker.todo)
    BY <1>4, HandoverEffect
  <2>3. ~wake => Last(worker.todo) = latest
    BY <2>2 DEF WakeInv
  <2>4. CASE Len(worker.todo) > 1
    <3>1. Running' /\ worker'.todo = <<Last(worker.todo)>>
      BY <2>2, <2>4, TodoFacts DEF Running
    <3>2. Last(worker'.todo) = Last(worker.todo)
      BY <3>1, One
    <3>3. QED
      BY <2>1, <2>3, <3>1, <3>2 DEF WakeInv
  <2>5. CASE ~(Len(worker.todo) > 1)
    <3>1. ~Running' /\ notifier'.version = Last(worker.todo)
      BY <2>2, <2>5, TodoFacts DEF Running
    <3>2. QED
      BY <2>1, <2>3, <3>1 DEF WakeInv
  <2>6. QED
    BY <2>4, <2>5
<1>5. CASE Signal
  <2>1. ~Running /\ ~Running'
    BY <1>5 DEF Signal, Running, AtRest
  <2>2. QED
    BY <1>5, <2>1 DEF Signal, WakeInv, notifierVars
<1>6. CASE ReadResults \/ AddCallback
  <2>1. /\ notifier' = Registered /\ worker' = worker /\ latest' = latest
        /\ ~wake' => ~wake
    <3>1. CASE ReadResults
      BY <3>1 DEF ReadResults
    <3>2. CASE AddCallback
      <4>1. wake' = (wake \/ index = 0)
        BY <3>2 DEF AddCallback
      <4>2. ~wake' => ~wake
        BY <4>1, Zenon
      <4>3. QED
        BY <3>2, <4>2 DEF AddCallback
    <3>3. QED
      BY <1>6, <3>1, <3>2
  <2>2. QED
    BY <1>0, <2>1, RegisteredEffect, WakeFrame DEF Running
<1>7. CASE Packages
  BY <1>7, PackageEffect, WakeFrame
     DEF Packages, ProcessAvailable, AdvanceToReady, PackageAndWait, Running
<1>8. CASE Deliver
  <2>1. /\ notifier'.version = notifier.version
        /\ notifier'.hasRun = notifier.hasRun
    BY <1>8, VersionTypes DEF Deliver, Notifier
  <2>2. QED
    BY <1>8, <2>1, WakeFrame DEF Deliver, Running
<1>9. CASE OtherCommit \/ CommitWrite \/ OtherWake
  BY <1>9 DEF OtherCommit, CommitWrite, NewVersion, OtherWake, WakeInv
<1>10. CASE BeginWrite \/ Refresh
  <2>1. wake' = (wake \/ ~Ready(latest))
    BY <1>10 DEF BeginWrite, Refresh
  <2>2. ~wake' => ~wake
    BY <2>1, Zenon
  <2>3. QED
    BY <1>10, <2>2, WakeFrame DEF BeginWrite, Refresh, Running, notifierVars
<1>11. CASE \/ CancelWrite \/ FailToCommit \/ BeforeAdvance \/ Advance \/ AfterAdvance
            \/ Return \/ NotifyInVain
            \/ \E unwanteds \in SUBSET DOMAIN callbacks : SuppressNext(unwanteds)
            \/ \E i \in DOMAIN callbacks : RemoveCallback(i)
  <2>1. UNCHANGED <<latest, wake, worker, notifier>>
    BY <1>11 DEF CancelWrite, FailToCommit, BeforeAdvance, Advance, AfterAdvance, Return,
       NotifyInVain, SuppressNext, RemoveCallback, notifierVars
  <2>2. QED
    BY <2>1, WakeFrame DEF Running
<1>12. QED
  BY <1>1, <1>2, <1>3, <1>4, <1>5, <1>6, <1>7, <1>8, <1>9, <1>10, <1>11, Zenon
     DEF Next, Common, Work, Notify, Send, Write, Packages

\* What is calculated is all there is from the notifier's version on.
LEMMA RunStep ==
  ASSUME VersionsInv, NotificationsInv', HistoryTypeOK, WorkerInv, RunInv, CalmNext
  PROVE  RunInv'
<1> SUFFICES ASSUME worker'.pc = "handover", callbacks' # <<>>, notifier'.hasRun,
                    NEW v \in changing',
                    notifier'.version < v, v <= Head(worker'.todo)
             PROVE  v \in worker'.changes
  BY DEF RunInv
<1>0. /\ NotificationsInv /\ TodoInv /\ Next
      /\ notifier.version \in Nat /\ notifier.seen \in Nat /\ latest \in Nat
      /\ changing \in Change
      /\ callbacks = <<>> <=> DOMAIN callbacks = {}
      /\ callbacks # <<>> => haveCallbacks
      /\ Running => Head(worker.todo) \in Nat /\ Head(worker.todo) <= latest
  <2>1. NotificationsInv /\ TodoInv
    BY DEF VersionsInv
  <2>2. callbacks # <<>> => haveCallbacks
    BY <2>1 DEF NotificationsInv, CallbacksInv
  <2>3. Running => Head(worker.todo) \in Nat /\ Head(worker.todo) <= latest
    BY <2>1, TodoNat
  <2>4. QED
    BY <2>1, <2>2, <2>3, NextOf, HistoryTypes
<1>1. ASSUME NEW wanted \in BOOLEAN, NeedToRun(wanted)
      PROVE  FALSE
  <2>1. /\ worker.pc = "run" /\ callbacks # <<>> /\ haveCallbacks
        /\ v \in changing /\ notifier.version < v /\ v <= Head(worker.todo)
    BY <1>0, <1>1, NeedToRunEffect DEF NeedToRun, notifierVars
  <2>2. Since(Head(worker.todo)) = {}
    BY <1>0, <1>1, <2>1, NeedToRunEffect
  <2>3. notifier.seen <= notifier.version /\ v \in Nat
    BY <1>0, <2>1 DEF WorkerInv, Change
  <2>4. QED
    BY <1>0, <2>1, <2>2, <2>3 DEF Since
<1>2. CASE CalculateChanges
  <2>1. /\ worker.pc = "calculate" /\ callbacks # <<>> /\ haveCallbacks /\ v \in changing
    BY <1>0, <1>2 DEF CalculateChanges
  <2>2. notifier.seen <= notifier.version /\ v \in Nat
    BY <1>0, <2>1 DEF WorkerInv, Change
  <2>3. QED
    BY <1>0, <1>2, <2>1, <2>2, CalculateEffect DEF Since
<1>3. CASE Start \/ PrepareHandover \/ Signal
  <2>1. CASE Start
    BY <1>0, <2>1, StartEffect
  <2>2. CASE PrepareHandover
    BY <1>0, <2>2, HandoverEffect
  <2>3. CASE Signal
    BY <2>3 DEF Signal, AtRest
  <2>4. QED
    BY <1>3, <2>1, <2>2, <2>3
<1>4. ASSUME worker' = worker, callbacks # <<>>,
             notifier'.hasRun => notifier.hasRun,
             notifier'.version = notifier.version
      PROVE  v \in worker'.changes
  <2>1. Running /\ Running'
    BY <1>4 DEF Running
  <2>2. v \in changing
    <3>1. v \in changing \/ v = latest + 1
      BY <1>0 DEF Next, Common, Work, Notify, Send, Write, ReadResults, Refresh, Return,
         OtherWake, AddCallback, RemoveCallback, Start, NeedToRun,
         CalculateChanges, PrepareHandover, Signal, NotifyInVain, ProcessAvailable,
         AdvanceToReady, PackageAndWait, Deliver, BeginWrite, SuppressNext,
         CancelWrite, FailToCommit, BeforeAdvance, Advance, AfterAdvance,
         CommitWrite, OtherCommit, NewVersion
    <3>2. QED
      BY <1>0, <1>4, <2>1, <3>1
  <2>3. QED
    BY <1>4, <2>2 DEF RunInv
<1>5. CASE ReadResults
  <2>1. worker' = worker /\ callbacks' = callbacks /\ notifier' = Registered
    BY <1>5 DEF ReadResults
  <2>2. notifier.place = "none" => callbacks = <<>>
    BY DEF WorkerInv
  <2>3. QED
    BY <1>0, <1>4, <2>1, <2>2, RegisteredEffect
<1>6. CASE AddCallback /\ (callbacks = <<>> => ~Running)
  <2>1. worker' = worker /\ notifier' = Registered
    BY <1>6 DEF AddCallback
  <2>2. Running /\ callbacks # <<>> /\ notifier.place # "none"
    BY <1>0, <1>6, <2>1 DEF Running, TodoInv
  <2>3. QED
    BY <1>0, <1>4, <2>1, <2>2, RegisteredEffect
<1>7. CASE Packages
  <2>1. worker' = worker /\ Package
    BY <1>7 DEF Packages, PackageAndWait, ProcessAvailable, AdvanceToReady
  <2>2. callbacks # <<>>
    <3>1. CASE CanPackage
      <4>1. DOMAIN callbacks' = DOMAIN callbacks
        BY <1>0, <2>1, <3>1, PackageEach
      <4>2. callbacks' = <<>> <=> DOMAIN callbacks' = {}
        <5>1. callbacks' \in Seq(Callback)
          BY DEF NotificationsInv, CallbacksInv
        <5>2. callbacks' # <<>> => 1 \in DOMAIN callbacks'
          BY <5>1, EmptySeq, LenProperties
        <5>3. QED
          BY <5>2
      <4>3. QED
        BY <1>0, <4>1, <4>2
    <3>2. CASE ~CanPackage
      BY <2>1, <3>2 DEF Package, CanPackage
    <3>3. QED
      BY <3>1, <3>2
  <2>3. QED
    BY <1>0, <1>4, <2>1, <2>2, PackageEffect
<1>8. CASE Deliver
  <2>1. /\ notifier'.version = notifier.version
        /\ notifier'.hasRun = notifier.hasRun
    BY <1>0, <1>8, VersionTypes DEF Deliver, Notifier
  <2>2. QED
    BY <1>4, <1>8, <2>1 DEF Deliver
<1>9. CASE \E k \in DOMAIN callbacks : RemoveCallback(k)
  <2>1. callbacks # <<>>
    BY <1>0, <1>9
  <2>2. QED
    BY <1>4, <1>9, <2>1 DEF RemoveCallback
<1>10. CASE AfterAdvance \/ \E unwanteds \in SUBSET DOMAIN callbacks : SuppressNext(unwanteds)
  <2>1. worker' = worker /\ notifier' = notifier
    BY <1>10 DEF AfterAdvance, SuppressNext
  <2>2. callbacks # <<>>
    <3>1. CASE callbacks = <<>>
      <4>1. DOMAIN callbacks' = {}
        BY <1>0, <1>10, <3>1 DEF AfterAdvance, SuppressNext
      <4>2. 1 \in DOMAIN callbacks'
        BY EmptySeq, LenProperties DEF NotificationsInv, CallbacksInv
      <4>3. QED
        BY <4>1, <4>2
    <3>2. QED
      BY <3>1
  <2>3. QED
    BY <1>4, <2>1, <2>2
<1>11. CASE \/ Refresh \/ OtherCommit \/ OtherWake \/ Return \/ NotifyInVain
            \/ BeginWrite \/ CommitWrite \/ CancelWrite
            \/ BeforeAdvance \/ Advance
  <2>1. worker' = worker /\ notifier' = notifier /\ callbacks' = callbacks
    BY <1>11 DEF Refresh, OtherCommit, OtherWake, Return, NotifyInVain, BeginWrite,
         CommitWrite, CancelWrite, BeforeAdvance, Advance, notifierVars
  <2>2. QED
    BY <1>4, <2>1
<1>12. QED
  BY <1>1, <1>2, <1>3, <1>5, <1>6, <1>7, <1>8, <1>9, <1>10, <1>11, Zenon
     DEF CalmNext, Common, Work, Notify, Send, Write, Packages

-----------------------------------------------------------------------------
(***************************************************************************)
(* The calm steps: the position of a delivery.                             *)
(***************************************************************************)

\* The positions of the callbacks after a step.
LEMMA LengthNext ==
  ASSUME NotificationsInv, NotificationsInv'
  PROVE  /\ callbacks' \in Seq(Callback) /\ Len(callbacks') \in Nat
         /\ DOMAIN callbacks' = 1 .. Len(callbacks')
         /\ callbacks' = <<>> <=> DOMAIN callbacks' = {}
         /\ DOMAIN callbacks' = DOMAIN callbacks => Len(callbacks') = Len(callbacks)
<1>1. /\ callbacks' \in Seq(Callback) /\ Len(callbacks') \in Nat
      /\ DOMAIN callbacks' = 1 .. Len(callbacks')
  BY LenProperties DEF NotificationsInv, CallbacksInv
<1>2. callbacks' # <<>> => 1 \in DOMAIN callbacks'
  BY <1>1, EmptySeq
<1>3. \A m, n \in Nat : 1 .. m = 1 .. n => m = n
  <2> SUFFICES ASSUME NEW m \in Nat, NEW n \in Nat, 1 .. m = 1 .. n
               PROVE  m = n
    OBVIOUS
  <2>1. n > m => n \in 1 .. n /\ n \notin 1 .. m
    OBVIOUS
  <2>2. m > n => m \in 1 .. m /\ m \notin 1 .. n
    OBVIOUS
  <2>3. QED
    BY <2>1, <2>2
<1>4. Len(callbacks) \in Nat /\ DOMAIN callbacks = 1 .. Len(callbacks)
  BY HistoryTypes
<1>5. DOMAIN callbacks' = DOMAIN callbacks => Len(callbacks') = Len(callbacks)
  <2>1. DOMAIN callbacks' = DOMAIN callbacks => 1 .. Len(callbacks') = 1 .. Len(callbacks)
    BY <1>1, <1>4
  <2>2. QED
    BY <1>1, <1>3, <1>4, <2>1, Zenon
<1>6. callbacks' = <<>> <=> DOMAIN callbacks' = {}
  BY <1>2
<1>7. QED
  BY <1>1, <1>5, <1>6

\* A step that leaves the positions alone keeps DeliveryInv.
LEMMA DeliveryFrame ==
  ASSUME NotificationsInv, NotificationsInv', DeliveryInv,
         DOMAIN callbacks' = DOMAIN callbacks,
         \A i \in DOMAIN callbacks :
           /\ callbacks'[i].initial <=> callbacks[i].initial
           /\ callbacks'[i].toDeliver = callbacks[i].toDeliver,
         index' = index, count' = count,
         Delivering' => Delivering,
         main'.pc \notin {"before", "after"} => index = 0,
         main'.pc = "after" => main.pc = "after" \/ index = 0
  PROVE  DeliveryInv'
<1>1. Len(callbacks') = Len(callbacks)
  BY LengthNext
<1>2. \A i \in DOMAIN callbacks : i \in Nat /\ i > 0
  BY HistoryTypes
<1>3. main'.pc = "after" => \A i \in DOMAIN callbacks :
        i <= index => callbacks[i].initial /\ callbacks[i].toDeliver = {}
  BY <1>2 DEF DeliveryInv
<1>4. QED
  BY <1>1, <1>3 DEF DeliveryInv

\* remove_callback corrects the position and the count of a delivery that runs.
LEMMA DeliveryStep ==
  ASSUME VersionsInv, NotificationsInv', HistoryTypeOK, TokensInv, DeliveryInv,
         CalmNext, Record
  PROVE  DeliveryInv'
<1>0. /\ NotificationsInv /\ TripInv /\ Next
      /\ index \in Nat /\ count \in Nat /\ main \in Main
      /\ Len(callbacks) \in Nat /\ DOMAIN callbacks = 1 .. Len(callbacks)
  BY NextOf, HistoryTypes, VersionTypes DEF VersionsInv
<1>1. CASE AfterAdvance
  <2>1. /\ main.pc = "after" /\ Delivering /\ count' = count
        /\ count <= Len(callbacks) /\ index <= count
        /\ \A i \in DOMAIN callbacks : i > count => ~callbacks[i].initial
        /\ \A i \in DOMAIN callbacks :
             i <= index => callbacks[i].initial /\ callbacks[i].toDeliver = {}
    BY <1>0, <1>1, AfterEffect DEF DeliveryInv, TripInv, Delivering
  <2>2. CASE Visit(index + 1)
    <3>1. main' = main /\ index' = index + 1 /\ index + 1 <= count
      BY <2>2 DEF Visit
    <3>2. /\ DOMAIN callbacks' = DOMAIN callbacks
          /\ \A i \in DOMAIN callbacks :
               /\ i # index + 1 => callbacks'[i] = callbacks[i]
               /\ i = index + 1 => callbacks'[i].initial /\ callbacks'[i].toDeliver = {}
      BY <1>0, <2>2, VisitEffect
    <3>3. Len(callbacks') = Len(callbacks)
      BY <1>0, <3>2, LengthNext
    <3>4. \A i \in DOMAIN callbacks' : i > count => ~callbacks'[i].initial
      BY <1>0, <2>1, <3>1, <3>2
    <3>5. \A i \in DOMAIN callbacks' :
             i <= index + 1 => callbacks'[i].initial /\ callbacks'[i].toDeliver = {}
      BY <1>0, <2>1, <3>2
    <3>6. QED
      BY <2>1, <3>1, <3>3, <3>4, <3>5 DEF DeliveryInv
  <2>3. CASE Pass(index + 1)
    <3>1. /\ UNCHANGED <<main, callbacks>> /\ index' = index + 1 /\ index + 1 <= count
          /\ callbacks[index + 1].initial /\ callbacks[index + 1].toDeliver = {}
      BY <2>3 DEF Pass
    <3>2. \A i \in DOMAIN callbacks :
             i <= index + 1 => callbacks[i].initial /\ callbacks[i].toDeliver = {}
      BY <1>0, <2>1, <3>1
    <3>3. QED
      BY <2>1, <3>1, <3>2 DEF DeliveryInv
  <2>4. CASE Finish
    BY <2>4 DEF Finish, Idle, DeliveryInv, Delivering
  <2>5. QED
    BY <1>0, <1>1, <2>2, <2>3, <2>4, AfterEffect
<1>2. CASE BeforeAdvance
  <2>1. main.pc = "before" /\ Delivering /\ count' = count /\ callbacks' = callbacks
    BY <1>0, <1>2 DEF BeforeAdvance, TripInv, Delivering
  <2>2. CASE index' = index + 1 /\ index < count /\ main' = main
    BY <1>0, <2>1, <2>2 DEF DeliveryInv, Delivering
  <2>3. CASE index' = 0 /\ main' = [main EXCEPT !.pc = "advance"]
    <3>1. main'.pc = "advance" /\ main'.packed = main.packed
      BY <1>0, <2>3 DEF Main
    <3>2. QED
      BY <1>0, <2>1, <2>3, <3>1 DEF DeliveryInv, Delivering
  <2>4. QED
    BY <1>2, <2>2, <2>3 DEF BeforeAdvance
<1>3. CASE Packages
  <2>1. /\ Package /\ ~Delivering /\ index' = index
        /\ Delivering' => CanPackage
    BY <1>0, <1>3, PackagesEffect
  <2>2. main.pc \in {"idle", "wait"} /\ main'.pc # "after"
    <3>1. CASE PackageAndWait
      BY <1>0, <3>1, PackageAndWaitEffect
    <3>2. CASE ProcessAvailable \/ AdvanceToReady
      BY <3>2 DEF ProcessAvailable, AdvanceToReady, Free, Idle
    <3>3. QED
      BY <1>3, <3>1, <3>2 DEF Packages
  <2>3. index' = 0
    BY <2>1, <2>2 DEF DeliveryInv
  <2>4. CASE Delivering'
    <3>1. DOMAIN callbacks' = DOMAIN callbacks /\ count' = Len(callbacks)
      BY <1>0, <2>1, <2>4, PackageEach DEF Package, CanPackage
    <3>2. Len(callbacks') = Len(callbacks)
      BY <1>0, <3>1, LengthNext
    <3>3. QED
      BY <1>0, <2>2, <2>3, <3>1, <3>2 DEF DeliveryInv
  <2>5. CASE ~Delivering'
    BY <2>2, <2>3, <2>5 DEF DeliveryInv
  <2>6. QED
    BY <2>4, <2>5
<1>4. CASE AddCallback
  <2>1. UNCHANGED <<index, count, main>>
    BY <1>4 DEF AddCallback
  <2>2. \A i \in DOMAIN callbacks' :
          \/ i \in DOMAIN callbacks /\ callbacks'[i] = callbacks[i]
          \/ i = Len(callbacks) + 1 /\ callbacks'[i].initial = FALSE
    BY <1>0, <1>4, AddEach
  <2>3. Len(callbacks') = Len(callbacks) + 1
    <3>1. nextToken \in Token
      BY <1>0, <1>4, HistoryTypes
         DEF AddCallback, NotificationsInv, NotificationsTypeOK
    <3>2. [token |-> nextToken, accumulated |-> {}, toDeliver |-> {},
           initial |-> FALSE, skip |-> FALSE] \in Callback
      BY <3>1 DEF Callback, Change
    <3>3. QED
      BY <1>0, <1>4, <3>2, HistoryTypes, AppendProperties DEF AddCallback
  <2>4. Delivering' <=> Delivering
    BY <2>1 DEF Delivering
  <2>5. Delivering' =>
          /\ count' <= Len(callbacks') /\ index' <= count'
          /\ \A i \in DOMAIN callbacks' : i > count' => ~callbacks'[i].initial
    BY <1>0, <2>1, <2>2, <2>3, <2>4 DEF DeliveryInv
  <2>6. main'.pc = "after" =>
          \A i \in DOMAIN callbacks' : i <= index' =>
             callbacks'[i].initial /\ callbacks'[i].toDeliver = {}
    <3>1. index <= Len(callbacks)
      BY <1>0, HistoryTypes
    <3>2. QED
      BY <1>0, <2>1, <2>2, <3>1 DEF DeliveryInv
  <2>7. QED
    BY <2>1, <2>5, <2>6 DEF DeliveryInv
<1>5. ASSUME NEW k \in DOMAIN callbacks, RemoveCallback(k), Delivering => k <= count
      PROVE  DeliveryInv'
  <2>1. /\ Len(callbacks') = Len(callbacks) - 1
        /\ k \in 1 .. Len(callbacks)
        /\ Delivering => count' = count - 1
        /\ index' = IF index # 0 /\ index >= k THEN index - 1 ELSE index
        /\ main' = main
    BY <1>0, <1>5, RemoveEffect
  <2>2. \A i \in DOMAIN callbacks' :
          /\ i \in Nat
          /\ i < k => i \in DOMAIN callbacks /\ callbacks'[i] = callbacks[i]
          /\ ~(i < k) => i + 1 \in DOMAIN callbacks /\ callbacks'[i] = callbacks[i + 1]
    <3>1. \A i \in DOMAIN callbacks' : i \in Nat
      <4>1. DOMAIN callbacks' = 1 .. Len(callbacks') /\ Len(callbacks') \in Nat
        BY <1>0, LengthNext, Zenon
      <4>2. QED
        BY <4>1
    <3>2. \A i \in DOMAIN callbacks' :
            LET j == IF i < k THEN i ELSE i + 1
            IN j \in DOMAIN callbacks /\ callbacks'[i] = callbacks[j]
      BY <1>0, <1>5, RemoveEach
    <3>3. QED
      BY <3>1, <3>2
  <2>3. Delivering' <=> Delivering
    BY <2>1 DEF Delivering
  <2>4. Delivering' =>
          /\ count' <= Len(callbacks') /\ index' <= count'
          /\ \A i \in DOMAIN callbacks' : i > count' => ~callbacks'[i].initial
    <3> SUFFICES ASSUME Delivering
                 PROVE  /\ count' <= Len(callbacks') /\ index' <= count'
                        /\ \A i \in DOMAIN callbacks' : i > count' => ~callbacks'[i].initial
      BY <2>3
    <3>1. /\ count <= Len(callbacks) /\ index <= count
          /\ \A i \in DOMAIN callbacks : i > count => ~callbacks[i].initial
      BY DEF DeliveryInv
    <3>2. count' <= Len(callbacks') /\ index' <= count'
      BY <1>0, <1>5, <2>1, <3>1
    <3>3. \A i \in DOMAIN callbacks' : i > count' => ~callbacks'[i].initial
      BY <1>0, <1>5, <2>1, <2>2, <3>1
    <3>4. QED
      BY <3>2, <3>3
  <2>5. main'.pc = "after" =>
          \A i \in DOMAIN callbacks' : i <= index' =>
             callbacks'[i].initial /\ callbacks'[i].toDeliver = {}
    BY <1>0, <2>1, <2>2 DEF DeliveryInv
  <2>6. main'.pc \notin {"before", "after"} => index' = 0
    BY <2>1 DEF DeliveryInv
  <2>7. QED
    BY <2>4, <2>5, <2>6 DEF DeliveryInv
<1>6. CASE PrepareHandover
  <2>1. UNCHANGED <<main, index, count>>
    BY <1>6 DEF PrepareHandover
  <2>2. Delivering' => Delivering
    BY <2>1 DEF Delivering
  <2>3. main.pc \notin {"before", "after"} => index = 0
    BY DEF DeliveryInv
  <2>4. QED
    BY <1>0, <1>6, <2>1, <2>2, <2>3, HandoverEach, DeliveryFrame
<1>7. ASSUME NEW unwanteds, SuppressNext(unwanteds)
      PROVE  DeliveryInv'
  <2>1. /\ main.pc = "idle" /\ main'.pc = "commit" /\ ~main'.packed
        /\ index' = index /\ count' = count
    BY <1>7 DEF SuppressNext, Free, Idle
  <2>2. index = 0 /\ ~Delivering'
    BY <2>1 DEF DeliveryInv, Delivering
  <2>3. QED
    BY <1>0, <1>7, <2>1, <2>2, SuppressEach, DeliveryFrame
<1>8. CASE \/ Advance \/ Deliver \/ ReadResults \/ Refresh \/ OtherCommit \/ OtherWake
           \/ Start \/ (\E wanted \in BOOLEAN : NeedToRun(wanted)) \/ CalculateChanges
           \/ Signal \/ NotifyInVain \/ BeginWrite \/ CommitWrite \/ CancelWrite \/ Return
  <2>1. callbacks' = callbacks /\ index' = index /\ count' = count
    BY <1>8 DEF Advance, Deliver, ReadResults, Refresh, OtherCommit, OtherWake,
       Start, NeedToRun, CalculateChanges, Signal, NotifyInVain, BeginWrite, CommitWrite,
       CancelWrite, Return, notifierVars
  <2>2. Delivering' => Delivering
    BY <1>0, <1>8, DeliveryGoesOn DEF Delivering, Packages, Advance, Deliver, ReadResults,
       Refresh, OtherCommit, OtherWake,
       Start, NeedToRun, CalculateChanges, Signal, NotifyInVain, BeginWrite, CommitWrite,
       CancelWrite, Return, Main, Idle
  <2>3. main' = main \/ main.pc \notin {"before", "after"}
    BY <1>8 DEF Advance, Deliver, ReadResults, Refresh, OtherCommit, OtherWake,
       Start, NeedToRun, CalculateChanges, Signal, NotifyInVain, BeginWrite, CommitWrite,
       CancelWrite, Return, Free
  <2>4. main.pc \notin {"before", "after"} => index = 0
    BY DEF DeliveryInv
  <2>5. QED
    BY <1>0, <2>1, <2>2, <2>3, <2>4, DeliveryFrame
<1>9. QED
  BY <1>1, <1>2, <1>3, <1>4, <1>5, <1>6, <1>7, <1>8, Zenon
     DEF CalmNext, Common, Work, Notify, Send, Write, Packages

-----------------------------------------------------------------------------
(***************************************************************************)
(* The calm steps: writing.                                                *)
(***************************************************************************)

\* Where the callbacks come from.
LEMMA Origin ==
  ASSUME NotificationsInv, NotificationsInv', TripInv, HistoryTypeOK, TokensInv, DeliveryInv,
         CalmNext, Record, NEW i \in DOMAIN callbacks'
  PROVE  \/ Fresh(i)
         \/ \E j \in DOMAIN callbacks :
              /\ callbacks'[i].token = callbacks[j].token
              /\ callbacks'[i].skip =>
                   callbacks[j].skip \/ (main.pc # "commit" /\ main'.pc = "commit")
              /\ ~AfterAdvance => (callbacks'[i].initial <=> callbacks[j].initial)
<1>1. CASE AfterAdvance
  <2>1. CASE Visit(index + 1)
    <3>1. /\ i \in DOMAIN callbacks /\ callbacks'[i].token = callbacks[i].token
          /\ callbacks'[i].skip = callbacks[i].skip
      BY <2>1, VisitEffect
    <3>2. QED
      BY <1>1, <3>1
  <2>2. CASE callbacks' = callbacks
    BY <2>2
  <2>3. QED
    BY <1>1, <2>1, <2>2, AfterEffect DEF Pass, Finish
<1>2. CASE Packages
  <2>1. Package
    BY <1>2, PackagesEffect
  <2>2. CASE CanPackage
    <3>1. /\ i \in DOMAIN callbacks /\ callbacks'[i].token = callbacks[i].token
          /\ callbacks'[i].skip = callbacks[i].skip
          /\ callbacks'[i].initial = callbacks[i].initial
      BY <2>1, <2>2, PackageEach
    <3>2. QED
      BY <3>1
  <2>3. CASE ~CanPackage
    <3>1. callbacks' = callbacks
      BY <2>1, <2>3 DEF Package, CanPackage
    <3>2. QED
      BY <3>1
  <2>4. QED
    BY <2>2, <2>3
<1>3. CASE ~AfterAdvance /\ ~Packages
  <2>1. ASSUME NEW j \in DOMAIN callbacks, Steady(i, j)
        PROVE
              /\ callbacks'[i].token = callbacks[j].token
              /\ callbacks'[i].skip =>
                   callbacks[j].skip \/ (main.pc # "commit" /\ main'.pc = "commit")
              /\ ~AfterAdvance => (callbacks'[i].initial <=> callbacks[j].initial)
    BY <2>1 DEF Steady
  <2>2. QED
    BY <1>3, <2>1, CalmStays
<1>4. QED
  BY <1>1, <1>2, <1>3

\* Who comes to write has waited for the worker, and nobody else commits meanwhile.
LEMMA WritingBack ==
  ASSUME NotificationsInv, TripInv, Next, ~PackageAndWait, Writing'
  PROVE  Writing /\ latest' = latest
<1>1. main \in Main
  BY VersionTypes
<1>2. CASE UNCHANGED <<realm, main, latest>>
  BY <1>2 DEF Writing
<1>3. CASE BeginWrite \/ Refresh \/ ProcessAvailable \/ AdvanceToReady \/ OtherCommit
           \/ CommitWrite \/ CancelWrite \/ FailToCommit
  <2>1. ~realm'.writing
    <3>1. realm \in [version : Version, writing : BOOLEAN]
      BY VersionTypes
    <3>2. CASE CommitWrite \/ CancelWrite \/ FailToCommit
      BY <3>1, <3>2 DEF CommitWrite, CancelWrite, FailToCommit
    <3>3. CASE BeginWrite \/ Refresh \/ ProcessAvailable \/ AdvanceToReady \/ OtherCommit
      BY <3>3 DEF BeginWrite, Refresh, ProcessAvailable, AdvanceToReady, OtherCommit, Locked
    <3>4. QED
      BY <1>3, <3>2, <3>3
  <2>2. main'.goal # "write" \/ main'.pc \in {"idle", "wait"}
    BY <1>3 DEF BeginWrite, Refresh, ProcessAvailable, AdvanceToReady, OtherCommit, Locked,
       CommitWrite, CancelWrite, FailToCommit, Idle, Free
  <2>3. QED
    BY <2>1, <2>2 DEF Writing
<1>4. CASE BeforeAdvance \/ Advance \/ Deliver \/ AfterAdvance
  <2>1. main'.goal = "write" /\ main'.pc # "idle" =>
          main.goal = "write" /\ main.pc \notin {"idle", "wait"}
    BY <1>1, <1>4 DEF BeforeAdvance, Advance, Deliver, AfterAdvance, Main, Idle
  <2>2. CASE Advance
    <3>1. realm'.writing <=> main.goal = "write"
      BY <2>2 DEF Advance
    <3>2. QED
      BY <2>1, <2>2, <3>1 DEF Advance, Writing
  <2>3. CASE ~Advance
    BY <1>4, <2>1, <2>3 DEF BeforeAdvance, Deliver, AfterAdvance, Writing
  <2>4. QED
    BY <2>2, <2>3
<1>5. ASSUME NEW unwanteds, SuppressNext(unwanteds)
      PROVE  Writing /\ latest' = latest
  BY <1>5 DEF SuppressNext, Writing
<1>6. \/ UNCHANGED <<realm, main, latest>>
      \/ BeginWrite \/ Refresh \/ ProcessAvailable \/ AdvanceToReady \/ OtherCommit
      \/ CommitWrite \/ CancelWrite \/ FailToCommit
      \/ BeforeAdvance \/ Advance \/ Deliver \/ AfterAdvance
      \/ \E unwanteds : SuppressNext(unwanteds)
  BY DEF Next, Common, Work, Notify, Send, Write, ReadResults, OtherWake, Return, Start,
     NeedToRun, CalculateChanges, Signal, PrepareHandover,
     NotifyInVain, AddCallback, RemoveCallback, PackageAndWait
<1>7. QED
  BY <1>2, <1>3, <1>4, <1>5, <1>6, Zenon

\* begin_transaction is behind the worker if there are callbacks.
LEMMA WritingStep ==
  ASSUME VersionsInv, VersionsInv', HistoryTypeOK, TokensInv, WorkerInv, CalledInv,
         DeliveryInv, WriteInv, CalmNext, Record
  PROVE  WriteInv'
<1>0. /\ NotificationsInv /\ NotificationsInv' /\ TripInv /\ TodoInv /\ TodoInv' /\ Next
      /\ notifier.version \in Nat /\ notifier'.version \in Nat /\ latest \in Nat
      /\ main.to \in Nat
      /\ notifier.version <= latest
      /\ callbacks = <<>> <=> DOMAIN callbacks = {}
      /\ callbacks' = <<>> <=> DOMAIN callbacks' = {}
      /\ haveCallbacks = (callbacks # <<>>)
  <2>1. NotificationsInv /\ NotificationsInv' /\ TripInv /\ TodoInv /\ TodoInv' /\ Next
    BY NextOf DEF VersionsInv
  <2>2. haveCallbacks = (callbacks # <<>>) /\ notifier.version <= latest
    BY <2>1 DEF NotificationsInv, CallbacksInv, TodoInv
  <2>3. notifier'.version \in Nat
    BY <2>1, MaxAssumption DEF NotificationsInv, NotificationsTypeOK, Notifier, Version
  <2>4. callbacks' = <<>> <=> DOMAIN callbacks' = {}
    BY <2>1, LengthNext
  <2>5. QED
    BY <2>1, <2>2, <2>3, <2>4, HistoryTypes
\* A package is missing only if there is nobody to be told.
<1>1. ASSUME Packages, main'.pc = "advance", ~main'.packed,
             NEW i \in DOMAIN callbacks, callbacks[i].initial
      PROVE  FALSE
  <2>1. CanPackage /\ callbacks # <<>> /\ haveCallbacks /\ notifier.place # "none"
    <3>1. notifier.hasRun /\ notifier.place # "none" /\ callbacks # <<>>
      BY <1>0, <1>1 DEF CalledInv, TodoInv
    <3>2. haveCallbacks
      BY <1>0, <3>1, Zenon
    <3>3. QED
      BY <3>1, <3>2 DEF CanPackage
  <2>2. CASE PackageAndWait
    BY <1>0, <1>1, <2>1, <2>2, PackageAndWaitEffect DEF Ready
  <2>3. CASE ProcessAvailable \/ AdvanceToReady
    <3>1. CASE ProcessAvailable
      BY <1>1, <3>1 DEF ProcessAvailable
    <3>2. CASE AdvanceToReady
      <4>1. \/ main' = Idle
            \/ main'.packed = TRUE
        BY <2>1, <3>2 DEF AdvanceToReady
      <4>2. QED
        BY <1>1, <4>1 DEF Idle
    <3>3. QED
      BY <2>3, <3>1, <3>2
  <2>4. QED
    BY <1>1, <2>2, <2>3, Zenon DEF Packages
<1>2. ASSUME callbacks' # <<>>, Writing'
      PROVE  notifier'.hasRun /\ notifier'.version = latest'
  <2>1. CASE PackageAndWait
    <3>1. /\ main.pc = "wait" /\ Ready(main.to) /\ main'.goal = main.goal
          /\ latest' = latest /\ realm' = realm /\ Package
      BY <1>0, <2>1, PackageAndWaitEffect DEF PackageAndWait
    <3>2. main.goal = "write" /\ main.to = latest
      BY <1>0, <1>2, <3>1 DEF Writing, TripInv
    <3>3. callbacks # <<>>
      <4>1. CASE CanPackage
        BY <1>0, <1>2, <3>1, <4>1, PackageEach
      <4>2. CASE ~CanPackage
        BY <1>2, <3>1, <4>2 DEF Package, CanPackage
      <4>3. QED
        BY <4>1, <4>2
    <3>4. haveCallbacks
      BY <1>0, <3>3, Zenon
    <3>5. notifier.hasRun /\ notifier.version >= latest
      BY <3>1, <3>2, <3>3, <3>4 DEF Ready, WorkerInv
    <3>6. QED
      BY <1>0, <3>1, <3>5, PackageEffect
  <2>2. CASE ~PackageAndWait
    <3>1. Writing /\ latest' = latest
      BY <1>0, <1>2, <2>2, WritingBack
    <3>2. notifier.hasRun /\ notifier.version = latest
      <4>1. CASE callbacks # <<>>
        BY <3>1, <4>1 DEF WriteInv
      <4>2. CASE callbacks = <<>>
        <5>1. PICK i \in DOMAIN callbacks' : TRUE
          BY <1>0, <1>2
        <5>2. AddCallback
          BY <1>0, <4>2, <5>1, Origin DEF Fresh
        <5>3. main.goal = "write" /\ main.pc \notin {"idle", "wait"} /\ call # NoCall
              /\ ~realm.writing
          BY <3>1, <5>2 DEF Writing, AddCallback, UserRuns
        <5>4. main.pc = "before"
          BY <1>0, <5>3, VersionTypes DEF TripInv, Main
        <5>5. main.packed /\ main.to = latest
          BY <1>0, <5>3, <5>4 DEF TripInv
        <5>6. QED
          BY <1>0, <5>5 DEF TripInv
      <4>3. QED
        BY <4>1, <4>2
    <3>3. notifier'.hasRun /\ notifier.version <= notifier'.version
      BY <1>0, <3>2, NotifierForward
    <3>4. notifier'.version <= latest'
      BY <1>0 DEF TodoInv
    <3>5. QED
      BY <1>0, <3>1, <3>2, <3>3, <3>4
  <2>3. QED
    BY <2>1, <2>2
<1>3. ASSUME main'.pc = "advance", ~main'.packed, NEW i \in DOMAIN callbacks'
      PROVE  ~callbacks'[i].initial
  <2>1. CASE AfterAdvance
    BY <1>0, <1>3, <2>1 DEF AfterAdvance, Idle
  <2>2. CASE ~AfterAdvance
    <3>1. Fresh(i) \/ \E j \in DOMAIN callbacks : callbacks'[i].initial <=> callbacks[j].initial
      BY <1>0, <2>2, Origin
    <3>2. Fresh(i) => ~callbacks'[i].initial
      BY DEF Fresh
    <3>3. CASE main' = main
      BY <1>3, <3>1, <3>2, <3>3 DEF WriteInv
    <3>4. CASE Packages
      BY <1>1, <1>3, <3>1, <3>2, <3>4
    <3>5. CASE main' # main /\ ~Packages
      <4>1. BeforeAdvance
        BY <1>0, <1>3, <2>2, <3>5, VersionTypes DEF Next, Common, Work, Notify, Send, Write, Packages,
         ReadResults, Refresh,
         OtherCommit, OtherWake, Return, Start, NeedToRun, CalculateChanges, Signal,
         NotifyInVain, BeginWrite, CommitWrite, CancelWrite, FailToCommit, Advance, Deliver,
         AddCallback, RemoveCallback, SuppressNext, PrepareHandover, Idle, Main
      <4>2. QED
        BY <1>0, <1>3, <4>1, VersionTypes DEF BeforeAdvance, TripInv, Main
    <3>6. QED
      BY <3>3, <3>4, <3>5
  <2>3. QED
    BY <2>1, <2>2
<1>4. QED
  BY <1>2, <1>3 DEF WriteInv

\* A change that was not there is the version committed just now.
LEMMA ChangingGrows ==
  ASSUME NotificationsInv, Next, NEW v \in changing'
  PROVE  v \in changing \/ (v = latest + 1 /\ latest' = latest + 1)
BY DEF Next, Common, Work, Notify, Send, Write, ReadResults, Refresh, Return,
   OtherWake, AddCallback, RemoveCallback, Start, NeedToRun,
   CalculateChanges, PrepareHandover, Signal, NotifyInVain, ProcessAvailable,
   AdvanceToReady, PackageAndWait, Deliver, BeginWrite, SuppressNext,
   CancelWrite, FailToCommit, BeforeAdvance, Advance, AfterAdvance,
   CommitWrite, OtherCommit, NewVersion

\* Only prepare_handover takes the notifier on, once there are callbacks.
LEMMA NotifierSteady ==
  ASSUME VersionsInv, WorkerInv, Next, ~PrepareHandover, callbacks # <<>>
  PROVE  notifier'.version = notifier.version /\ (notifier'.hasRun <=> notifier.hasRun)
<1>0. NotificationsInv /\ notifier.place # "none"
  BY DEF VersionsInv, WorkerInv
<1>1. CASE Start
  BY <1>0, <1>1, StartEffect
<1>2. CASE CalculateChanges
  BY <1>0, <1>2, CalculateEffect
<1>3. CASE ReadResults \/ AddCallback
  BY <1>0, <1>3, RegisteredEffect DEF ReadResults, AddCallback
<1>4. CASE Packages
  BY <1>0, <1>4, PackageEffect
     DEF Packages, ProcessAvailable, AdvanceToReady, PackageAndWait
<1>5. CASE Deliver
  BY <1>0, <1>5, VersionTypes DEF Deliver, Notifier
<1>6. CASE UNCHANGED notifier
  BY <1>6
<1>7. \/ Start \/ CalculateChanges \/ ReadResults \/ AddCallback \/ Packages \/ Deliver
      \/ UNCHANGED notifier
  BY DEF Next, Common, Work, Notify, Send, Write, Refresh,
     OtherCommit, OtherWake, Return, NeedToRun, Signal, Packages,
     NotifyInVain, BeginWrite, CommitWrite, CancelWrite, FailToCommit,
     RemoveCallback, SuppressNext, BeforeAdvance, Advance, AfterAdvance, notifierVars
<1>8. QED
  BY <1>1, <1>2, <1>3, <1>4, <1>5, <1>6, <1>7

\* The worker goes where it was going.
LEMMA WorkerSteady ==
  ASSUME NotificationsInv, TodoInv, Next, ~PrepareHandover, ~Start
  PROVE  /\ worker'.todo = worker.todo /\ (Running' <=> Running)
         /\ ~CommitWrite => skipVersion' = skipVersion
<1>1. ~CommitWrite => skipVersion' = skipVersion
  BY DEF Next, Common, Work, Notify, Send, Write, Refresh, ReadResults, AddCallback,
     OtherCommit, OtherWake, Return, NeedToRun, CalculateChanges, Signal,
     PackageAndWait, ProcessAvailable, AdvanceToReady, Deliver,
     NotifyInVain, BeginWrite, CancelWrite, FailToCommit,
     RemoveCallback, SuppressNext, BeforeAdvance, Advance, AfterAdvance
<1>2. ASSUME NEW wanted \in BOOLEAN, NeedToRun(wanted)
      PROVE  worker'.todo = worker.todo /\ (Running' <=> Running)
  BY <1>2, NeedToRunEffect
<1>3. CASE CalculateChanges
  BY <1>1, <1>3, CalculateEffect, Zenon
<1>4. CASE Signal
  BY <1>1, <1>4 DEF Signal, AtRest, Running, TodoInv
<1>5. CASE UNCHANGED worker
  BY <1>1, <1>5 DEF Running
<1>6. \/ (\E wanted \in BOOLEAN : NeedToRun(wanted)) \/ CalculateChanges
      \/ Signal \/ UNCHANGED worker
  BY DEF Next, Common, Work, Notify, Send, Write, Refresh,
     OtherCommit, OtherWake, Return, ReadResults, AddCallback, Deliver,
     ProcessAvailable, AdvanceToReady, PackageAndWait,
     NotifyInVain, BeginWrite, CommitWrite, CancelWrite, FailToCommit,
     RemoveCallback, SuppressNext, BeforeAdvance, Advance, AfterAdvance, notifierVars
<1>7. QED
  BY <1>1, <1>2, <1>3, <1>4, <1>5, <1>6

\* The Realm is taken on by its trips and by its commits.
LEMMA RealmSteady ==
  ASSUME NotificationsInv, Next, ~Advance, ~CommitWrite
  PROVE  realm'.version = realm.version
<1>1. realm \in [version : Version, writing : BOOLEAN]
  BY VersionTypes
<1>2. realm' = realm \/ realm' = [realm EXCEPT !.writing = FALSE]
  BY DEF Next, Common, Work, Notify, Send, Write, ReadResults, Refresh, OtherCommit,
         OtherWake, Return, AddCallback, RemoveCallback, Start, NeedToRun,
         CalculateChanges, PrepareHandover, Signal, NotifyInVain, ProcessAvailable,
         AdvanceToReady, PackageAndWait, BeforeAdvance, Deliver, AfterAdvance,
         BeginWrite, SuppressNext, CancelWrite, FailToCommit
<1>3. QED
  BY <1>1, <1>2

\* What commit_write does.
LEMMA CommitFacts ==
  ASSUME VersionsInv, CommitWrite
  PROVE  /\ main.pc = "commit" /\ realm.writing /\ Writing
         /\ latest' = latest + 1 /\ realm'.version = latest + 1 /\ ~realm'.writing
         /\ skipVersion' = IF notifier.place = "main" THEN latest + 1 ELSE skipVersion
         /\ main' = Idle
         /\ UNCHANGED <<call, signal, worker, notifier, callbacks, haveCallbacks,
                        index, count, nextToken>>
BY DEF VersionsInv, TripInv, CommitWrite, NewVersion, notifierVars, Writing

\* A worker that is overtaken by a commit is on its way past it, or behind it.
LEMMA OvertakenStep ==
  ASSUME VersionsInv, VersionsInv', HistoryTypeOK, TokensInv, WorkerInv, CalledInv,
         DeliveryInv, WriteInv, OvertakenInv, CalmNext, Record
  PROVE  OvertakenInv'
<1> SUFFICES ASSUME NEW i \in DOMAIN callbacks', callbacks'[i].initial,
                    notifier'.version < realm'.version
             PROVE  /\ skipVersion' # 0 => Skips(skipVersion)'
                    /\ Running' => Skips(Head(worker.todo))' /\ Skips(Last(worker.todo))'
  BY DEF OvertakenInv
<1>0. /\ NotificationsInv /\ NotificationsInv' /\ TripInv /\ TodoInv /\ Next
      /\ notifier.version \in Nat /\ notifier'.version \in Nat /\ latest \in Nat
      /\ realm.version \in Nat /\ main.to \in Nat /\ realm.version <= latest
      /\ skipVersion \in Nat
  <2>1. NotificationsInv /\ NotificationsInv' /\ TripInv /\ TodoInv /\ Next
    BY NextOf DEF VersionsInv
  <2>2. notifier'.version \in Nat
    BY <2>1, MaxAssumption DEF NotificationsInv, NotificationsTypeOK, Notifier, Version
  <2>3. realm.version <= latest
    BY <2>1 DEF TripInv
  <2>4. QED
    BY <2>1, <2>2, <2>3, HistoryTypes
<1>1. CASE AfterAdvance
  <2>1. main.pc = "after" /\ realm' = realm /\ notifier' = notifier
    BY <1>0, <1>1, AfterEffect
  <2>2. realm.version <= notifier.version
    BY <1>0, <2>1 DEF TripInv
  <2>3. QED
    BY <1>0, <2>1, <2>2
<1>2. CASE ~AfterAdvance
  <2>1. PICK j \in DOMAIN callbacks : callbacks[j].initial
    BY <1>0, <1>2, Origin DEF Fresh
  <2>2. /\ notifier.hasRun /\ callbacks # <<>> /\ notifier.place = "main"
        /\ notifier.version <= notifier'.version
    BY <1>0, <2>1, NotifierForward, HistoryTypes DEF CalledInv, TodoInv
  <2>3. CASE Advance
    <3>1. /\ realm'.version = main.to /\ main.pc = "advance"
      BY <2>3 DEF Advance
    <3>2. main.packed
      BY <2>1, <3>1 DEF WriteInv
    <3>3. main.to <= notifier.version
      BY <1>0, <3>2 DEF TripInv
    <3>4. QED
      BY <1>0, <2>2, <3>1, <3>3
  <2>4. CASE CommitWrite
    <3>1. /\ skipVersion' = latest + 1 /\ realm'.version = latest + 1
          /\ notifier' = notifier /\ worker' = worker
          /\ notifier.version = latest
      BY <2>2, <2>4, CommitFacts DEF WriteInv
    <3>2. Running' => /\ Head(worker.todo) <= latest /\ Last(worker.todo) <= latest
                      /\ Head(worker.todo) \in Nat /\ Last(worker.todo) \in Nat
      BY <1>0, <3>1, TodoFacts, HistoryTypes DEF Running
    <3>3. QED
      BY <1>0, <3>1, <3>2 DEF Skips
  <2>5. CASE ~Advance /\ ~CommitWrite
    <3>1. realm'.version = realm.version
      BY <1>0, <2>5, RealmSteady
    <3>2. notifier.version < realm.version
      BY <1>0, <2>2, <3>1
    <3>3. /\ skipVersion # 0 => Skips(skipVersion)
          /\ Running => Skips(Head(worker.todo)) /\ Skips(Last(worker.todo))
      BY <2>1, <3>2 DEF OvertakenInv
    <3>4. ASSUME NEW v \in Nat, Skips(v)
          PROVE  Skips(v)'
      BY <1>0, <2>2, <3>1, <3>4 DEF Skips
    <3>5. CASE Start
      <4>1. /\ skipVersion' = 0 /\ notifier'.version = notifier.version
            /\ worker'.todo = IF skipVersion = 0 THEN <<latest>> ELSE <<skipVersion, latest>>
        BY <1>0, <2>2, <3>5, StartEffect
      <4>2. latest >= realm'.version
        BY <1>0, <3>1
      <4>3. /\ Last(worker'.todo) = latest
            /\ Head(worker'.todo) = IF skipVersion = 0 THEN latest ELSE skipVersion
        BY <4>1, One, Two
      <4>4. Last(worker'.todo) >= realm'.version
        BY <4>2, <4>3
      <4>5. \/ Head(worker'.todo) >= realm'.version
            \/ Head(worker'.todo) <= notifier'.version
        BY <3>1, <3>3, <4>1, <4>2, <4>3 DEF Skips
      <4>6. QED
        BY <4>1, <4>4, <4>5 DEF Skips
    <3>6. CASE PrepareHandover
      <4>1. /\ Running /\ worker'.todo = Tail(worker.todo)
            /\ worker'.pc = IF Len(worker.todo) > 1 THEN "run" ELSE "signal"
            /\ skipVersion' = skipVersion
        BY <1>0, <3>6, HandoverEffect DEF PrepareHandover
      <4>2. skipVersion' # 0 => Skips(skipVersion)'
        <5>1. skipVersion # 0 => notifier'.version < realm'.version /\ 
                (skipVersion <= notifier'.version \/ skipVersion >= realm'.version)
          BY <1>0, <2>2, <3>1, <3>3 DEF Skips
        <5>2. QED
          BY <4>1, <5>1 DEF Skips
      <4>3. CASE Len(worker.todo) > 1
        <5>1. worker'.todo = <<Last(worker.todo)>> /\ Last(worker.todo) \in Nat
          <6>1. Tail(worker.todo) = <<Last(worker.todo)>>
            BY <1>0, <4>1, <4>3, TodoFacts
          <6>2. QED
            BY <1>0, <4>1, <6>1, TodoNat
        <5>2. Last(worker'.todo) = Last(worker.todo) /\ Head(worker'.todo) = Last(worker.todo)
          BY <5>1, One
        <5>3. \/ Last(worker.todo) <= notifier'.version
              \/ Last(worker.todo) >= realm'.version
          BY <1>0, <2>2, <3>1, <3>3, <4>1, <5>1 DEF Skips
        <5>4. QED
          BY <4>2, <5>2, <5>3 DEF Skips
      <4>4. CASE ~(Len(worker.todo) > 1)
        BY <4>1, <4>2, <4>4 DEF Running
      <4>5. QED
        BY <4>3, <4>4
    <3>7. CASE ~Start /\ ~PrepareHandover
      <4>1. /\ worker'.todo = worker.todo /\ (Running' <=> Running)
            /\ skipVersion' = skipVersion /\ notifier'.version = notifier.version
        BY <1>0, <2>2, <2>5, <3>7, WorkerSteady, NotifierSteady
      <4>2. QED
        BY <3>1, <3>3, <4>1 DEF Skips
    <3>8. QED
      BY <3>5, <3>6, <3>7
  <2>6. QED
    BY <2>3, <2>4, <2>5
<1>3. QED
  BY <1>1, <1>2

\* A commit is prepared and then made: nothing else comes between of the Realm's thread.
LEMMA CommitPhase ==
  ASSUME NotificationsInv, CalmNext
  PROVE  /\ main.pc = "commit" => main'.pc = "commit" \/ CommitWrite
         /\ main.pc # "commit" /\ main'.pc = "commit" =>
              \E unwanteds \in SUBSET DOMAIN callbacks : SuppressNext(unwanteds)
<1>1. main \in Main
  BY VersionTypes
<1>2. CASE main' = main
  BY <1>2
<1>3. CASE Packages
  BY <1>3, PackageAndWaitEffect
     DEF Packages, ProcessAvailable, AdvanceToReady, Idle, Free
<1>4. CASE BeforeAdvance \/ Advance \/ Deliver \/ AfterAdvance \/ Refresh \/ BeginWrite
  BY <1>1, <1>4
     DEF BeforeAdvance, Advance, Deliver, AfterAdvance, Refresh, BeginWrite, Main, Idle, Free
<1>5. CASE CommitWrite
  BY <1>5 DEF CommitWrite, Idle
<1>6. CASE \E unwanteds \in SUBSET DOMAIN callbacks : SuppressNext(unwanteds)
  BY <1>6 DEF SuppressNext, Free, Idle
<1>7. \/ main' = main \/ Packages
      \/ BeforeAdvance \/ Advance \/ Deliver \/ AfterAdvance \/ Refresh \/ BeginWrite
      \/ CommitWrite \/ \E unwanteds \in SUBSET DOMAIN callbacks : SuppressNext(unwanteds)
  BY DEF CalmNext, Common, Work, Notify, Send, Write, ReadResults, OtherCommit,
         OtherWake, Return, AddCallback, RemoveCallback, Start, NeedToRun, Packages,
         CalculateChanges, PrepareHandover, Signal, NotifyInVain, CancelWrite
<1>8. QED
  BY <1>2, <1>3, <1>4, <1>5, <1>6, <1>7

\* The run that takes skip_next has nothing for the callback but what was suppressed.
LEMMA SkipStep ==
  ASSUME VersionsInv, VersionsInv', HistoryTypeOK, TokensInv, WorkerInv,
         DeliveryInv, WriteInv, SkipInv, CalmNext, Record
  PROVE  SkipInv'
<1> SUFFICES ASSUME NEW i \in DOMAIN callbacks', callbacks'[i].skip
             PROVE  IF main'.pc = "commit" THEN callbacks'[i].token \in unwanted'
                    ELSE /\ Running' \/ skipVersion' # 0
                         /\ \A v \in changing' \ suppressed'[callbacks'[i].token] :
                              ~(notifier'.version < v /\ v <= NextRun')
  BY DEF SkipInv
<1>0. /\ NotificationsInv /\ NotificationsInv' /\ TripInv /\ TodoInv /\ Next
      /\ notifier.version \in Nat /\ latest \in Nat /\ skipVersion \in Nat
      /\ skipVersion <= latest
      /\ Running => Head(worker.todo) \in Nat /\ Head(worker.todo) <= latest
  <2>1. NotificationsInv /\ NotificationsInv' /\ TripInv /\ TodoInv /\ Next
    BY NextOf DEF VersionsInv
  <2>2. Running => Head(worker.todo) \in Nat /\ Head(worker.todo) <= latest
    BY <2>1, TodoFacts, HistoryTypes
  <2>3. QED
    BY <2>1, <2>2, HistoryTypes DEF TodoInv
<1>1. CASE main'.pc = "commit"
  <2>1. CASE main.pc = "commit"
    <3>1. PICK j \in DOMAIN callbacks :
            callbacks'[i].token = callbacks[j].token /\ callbacks[j].skip
      BY <1>0, <2>1, Origin DEF Fresh
    <3>2. callbacks[j].token \in unwanted
      BY <2>1, <3>1 DEF SkipInv
    <3>3. unwanted' = unwanted
      BY <1>1, <2>1 DEF Record
    <3>4. QED
      BY <1>1, <3>1, <3>2, <3>3
  <2>2. CASE main.pc # "commit"
    <3>1. unwanted' = {c.token : c \in {d \in Range(callbacks') : d.skip}}
      BY <1>1, <2>2 DEF Record
    <3>2. callbacks'[i] \in {d \in Range(callbacks') : d.skip}
      BY DEF Range
    <3>3. QED
      BY <1>1, <3>1, <3>2
  <2>3. QED
    BY <2>1, <2>2
<1>2. CASE main'.pc # "commit"
  <2>1. PICK j \in DOMAIN callbacks :
          callbacks'[i].token = callbacks[j].token /\ callbacks[j].skip
    BY <1>0, <1>2, Origin DEF Fresh
  <2>2. callbacks # <<>> /\ notifier.place # "none" /\ ~PrepareHandover
    BY <1>0, <2>1, HistoryTypes, HandoverEach DEF WorkerInv
  <2>n. notifier'.version = notifier.version
    BY <2>2, <1>0, NotifierSteady
  <2>3. CASE main.pc = "commit"
    <3>1. CommitWrite /\ callbacks[j].token \in unwanted
      BY <1>0, <1>2, <2>1, <2>3, CommitPhase DEF SkipInv
    <3>2. notifier.hasRun /\ notifier.version = latest
      BY <2>2, <3>1, CommitFacts DEF WriteInv
    <3>3. /\ skipVersion' = latest + 1 /\ worker' = worker
      BY <1>0, <3>1, <3>2, CommitFacts DEF TodoInv
    <3>4. NextRun' <= latest + 1
      BY <1>0, <3>3 DEF NextRun, Running
    <3>5. latest + 1 \in suppressed'[callbacks[j].token]
      <4>1. callbacks[j].token \in Token
        BY <1>0, HistoryTypes
      <4>2. suppressed'[callbacks[j].token] = suppressed[callbacks[j].token] \cup {latest + 1}
        BY <1>0, <3>1, <4>1, RecordSuppressed
      <4>3. QED
        BY <4>2
    <3>6. ASSUME NEW v \in changing', v \notin suppressed'[callbacks[j].token]
          PROVE  ~(notifier'.version < v /\ v <= NextRun')
      <4>1. v \in changing
        BY <1>0, <3>5, <3>6, ChangingGrows
      <4>2. v <= latest
        BY <4>1 DEF WorkerInv
      <4>3. v \in Nat
        BY <1>0, <4>1, HistoryTypes DEF Change
      <4>4. QED
        BY <1>0, <2>n, <3>2, <4>2, <4>3
    <3>7. QED
      BY <1>0, <1>2, <2>1, <3>3, <3>6
  <2>4. CASE main.pc # "commit"
    <3>1. suppressed' = suppressed /\ ~CommitWrite
      BY <1>0, <2>4, RecordSuppressed DEF CommitWrite
    <3>2. /\ Running \/ skipVersion # 0
          /\ \A v \in changing \ suppressed[callbacks[j].token] :
               ~(notifier.version < v /\ v <= NextRun)
      BY <2>1, <2>4 DEF SkipInv
    <3>3. (Running' \/ skipVersion' # 0) /\ NextRun' = NextRun
      <4>1. CASE Start
        <5>1. ~Running /\ skipVersion # 0
          BY <3>2, <4>1 DEF Start, Running
        <5>2. worker'.todo = <<skipVersion, latest>> /\ Running'
          BY <1>0, <2>2, <4>1, <5>1, StartEffect DEF Running
        <5>3. Head(worker'.todo) = skipVersion
          BY <5>2, Two
        <5>4. QED
          BY <5>1, <5>2, <5>3 DEF NextRun
      <4>2. CASE ~Start
        BY <1>0, <2>2, <3>1, <3>2, <4>2, WorkerSteady DEF NextRun
      <4>3. QED
        BY <4>1, <4>2
    <3>4. NextRun <= latest
      BY <1>0 DEF NextRun
    <3>5. ASSUME NEW v \in changing', v \notin suppressed'[callbacks[j].token]
          PROVE  ~(notifier'.version < v /\ v <= NextRun')
      <4>1. CASE v \in changing
        BY <2>n, <3>1, <3>2, <3>3, <3>5, <4>1
      <4>2. CASE v = latest + 1
        <5>1. NextRun \in Nat
          BY <1>0 DEF NextRun
        <5>2. QED
          BY <1>0, <3>3, <3>4, <4>2, <5>1
      <4>3. QED
        BY <1>0, <3>5, <4>1, <4>2, ChangingGrows
    <3>6. QED
      BY <1>2, <2>1, <3>3, <3>5
  <2>5. QED
    BY <2>3, <2>4
<1>3. QED
  BY <1>1, <1>2

-----------------------------------------------------------------------------
(***************************************************************************)
(* The calm steps: what is owed.                                           *)
(***************************************************************************)

\* A signal is taken up, or the worker sets to work, with what is accumulated.
LEMMA SignalSteady ==
  ASSUME NotificationsInv, TodoInv, Next, ~Packages, ~NotifyInVain,
         ~signal', worker'.pc = "idle"
  PROVE  ~signal /\ worker.pc = "idle"
<1>1. CASE Start
  BY <1>1, StartEffect
<1>2. ASSUME NEW wanted \in BOOLEAN, NeedToRun(wanted)
      PROVE  FALSE
  BY <1>2, NeedToRunEffect
<1>3. CASE CalculateChanges
  BY <1>3, CalculateEffect
<1>4. CASE PrepareHandover
  BY <1>4, HandoverEffect
<1>5. CASE Signal
  BY <1>5 DEF Signal
<1>6. CASE UNCHANGED <<worker, signal>>
  BY <1>6
<1>7. \/ Start \/ (\E wanted \in BOOLEAN : NeedToRun(wanted)) \/ CalculateChanges
      \/ PrepareHandover \/ Signal \/ UNCHANGED <<worker, signal>>
  BY DEF Next, Common, Work, Notify, Send, Write, Refresh, Packages,
     OtherCommit, OtherWake, Return, ReadResults, AddCallback, Deliver,
     BeginWrite, CommitWrite, CancelWrite, FailToCommit,
     RemoveCallback, SuppressNext, BeforeAdvance, Advance, AfterAdvance, notifierVars
<1>8. QED
  BY <1>1, <1>2, <1>3, <1>4, <1>5, <1>6, <1>7

\* Only promote_to_write begins to write.
LEMMA WritingSteady ==
  ASSUME NotificationsInv, Next, ~Advance, realm'.writing
  PROVE  realm.writing
<1>1. realm \in [version : Version, writing : BOOLEAN]
  BY VersionTypes
<1>2. \/ realm' = realm \/ realm' = [realm EXCEPT !.writing = FALSE]
      \/ realm' = [version |-> latest + 1, writing |-> FALSE]
  BY DEF Next, Common, Work, Notify, Send, Write, ReadResults, Refresh, OtherCommit,
         OtherWake, Return, AddCallback, RemoveCallback, Start, NeedToRun,
         CalculateChanges, PrepareHandover, Signal, NotifyInVain, ProcessAvailable,
         AdvanceToReady, PackageAndWait, BeforeAdvance, Deliver, AfterAdvance,
         BeginWrite, SuppressNext, CancelWrite, FailToCommit, CommitWrite
<1>3. QED
  BY <1>1, <1>2

\* What is owed to a callback after a steady step was owed to it before.
LEMMA SteadyOwes ==
  ASSUME NEW i \in DOMAIN callbacks', NEW j \in DOMAIN callbacks, Steady(i, j),
         NEW v \in changing,
         seen' = seen, told' = told,
         suppressed[callbacks[j].token] \subseteq suppressed'[callbacks[j].token],
         Counted(j) => main'.to = main.to
  PROVE  /\ Tracked(i)' /\ Owes(i, v)' => Tracked(j) /\ Owes(j, v)
         /\ Has(j, v) => Has(i, v)'
<1>1. Tracked(i)' => Tracked(j)
  BY DEF Steady, Tracked
<1>2. Has(j, v) => Has(i, v)'
  BY DEF Steady, Has
<1>3. Tracked(i)' => Base(i)' = Base(j)
  BY DEF Steady, Tracked, Base
<1>4. Tracked(i)' /\ Owes(i, v)' => Owes(j, v)
  BY <1>3 DEF Owes, Steady
<1>5. QED
  BY <1>1, <1>2, <1>4

\* A steady step keeps HeldAt, unless it takes the notifier or the Realm on, or lets
\* the signal or the worker rest.
LEMMA HeldFrame ==
  ASSUME NEW i \in DOMAIN callbacks', NEW j \in DOMAIN callbacks, Steady(i, j),
         NEW v \in 1 .. MaxVersion, v \in changing, HeldInv,
         seen' = seen, told' = told,
         suppressed[callbacks[j].token] \subseteq suppressed'[callbacks[j].token],
         Counted(j) => main'.to = main.to,
         notifier'.version = notifier.version,
         ~signal' /\ worker'.pc = "idle" => ~signal /\ worker.pc = "idle",
         realm'.writing /\ ~Delivering' => realm.writing /\ ~Delivering,
         notifier'.version < realm'.version => notifier.version < realm.version
  PROVE  HeldAt(i, v)'
<1>1. HeldAt(j, v)
  BY DEF HeldInv
<1>2. /\ Tracked(i)' /\ Owes(i, v)' => Tracked(j) /\ Owes(j, v)
      /\ Has(j, v) => Has(i, v)'
  BY SteadyOwes
<1>3. /\ callbacks'[i].token = callbacks[j].token
      /\ callbacks'[i].initial <=> callbacks[j].initial
      /\ v \in callbacks[j].accumulated => v \in callbacks'[i].accumulated
      /\ Counted(i)' <=> Counted(j)
  BY DEF Steady
<1>4. SUFFICES ASSUME Tracked(i)', Owes(i, v)'
               PROVE
    /\ v <= notifier'.version => Has(i, v)' \/ v \in callbacks'[i].accumulated
    /\ Counted(i)' /\ v <= main'.to => Has(i, v)'
    /\ ~signal' /\ worker'.pc = "idle" /\ v <= notifier'.version => Has(i, v)'
    /\ callbacks'[i].initial /\ realm'.writing /\ ~Delivering' =>
         v \in told'[callbacks'[i].token]
    /\ callbacks'[i].initial /\ notifier'.version < realm'.version /\ v <= notifier'.version =>
         v \in told'[callbacks'[i].token]
  BY DEF HeldAt
<1>5. /\ v <= notifier.version => Has(j, v) \/ v \in callbacks[j].accumulated
      /\ Counted(j) /\ v <= main.to => Has(j, v)
      /\ ~signal /\ worker.pc = "idle" /\ v <= notifier.version => Has(j, v)
      /\ callbacks[j].initial /\ realm.writing /\ ~Delivering =>
           v \in told[callbacks[j].token]
      /\ callbacks[j].initial /\ notifier.version < realm.version /\ v <= notifier.version =>
           v \in told[callbacks[j].token]
  BY <1>1, <1>2, <1>4 DEF HeldAt
<1>6. QED
  BY <1>2, <1>3, <1>5

\* Nobody can have been told of a new version.
LEMMA HeldNew ==
  ASSUME VersionsInv, NEW i \in DOMAIN callbacks', NEW v,
         v = latest + 1, OtherCommit \/ CommitWrite
  PROVE  HeldAt(i, v)'
<1>1. /\ notifier' = notifier /\ ~realm'.writing /\ (main' = main \/ ~Delivering')
      /\ notifier.version <= latest /\ main.to <= latest
      /\ latest \in Nat /\ notifier.version \in Nat /\ main.to \in Nat
  <2>1. CASE OtherCommit
    BY <2>1, VersionTypes
       DEF OtherCommit, Locked, VersionsInv, TodoInv, TripInv, notifierVars, Version
  <2>2. CASE CommitWrite
    BY <2>2, VersionTypes, CommitFacts
       DEF VersionsInv, TodoInv, TripInv, Version, Delivering, Idle
  <2>3. QED
    BY <2>1, <2>2
<1>2. ~(v <= notifier'.version)
  BY <1>1
<1>3. ~(Counted(i)' /\ v <= main'.to)
  BY <1>1 DEF Counted
<1>4. QED
  BY <1>1, <1>2, <1>3 DEF HeldAt

\* What holds as long as it is not asked for what it does not handle.
CalmInv == /\ FullInv
           /\ DeliveryInv /\ RunInv /\ HeldInv /\ WriteInv /\ OvertakenInv /\ SkipInv /\ WakeInv

\* The parts of CalmInv, and the types that its use needs.
LEMMA CalmParts ==
  ASSUME CalmInv
  PROVE  /\ VersionsInv /\ NotificationsInv /\ TodoInv /\ TripInv
         /\ HistoryTypeOK /\ TokensInv /\ WorkerInv /\ CalledInv /\ OnceInv
         /\ DeliveryInv /\ RunInv /\ HeldInv /\ WriteInv /\ OvertakenInv /\ SkipInv /\ WakeInv
         /\ notifier.version \in Nat /\ realm.version \in Nat /\ latest \in Nat
         /\ main.to \in Nat /\ notifier.version <= latest /\ realm.version <= latest
         /\ callbacks = <<>> <=> DOMAIN callbacks = {}
<1>1. /\ VersionsInv /\ NotificationsInv /\ TodoInv /\ TripInv
      /\ HistoryTypeOK /\ TokensInv /\ WorkerInv /\ CalledInv /\ OnceInv
  BY DEF CalmInv, FullInv, TellingInv, VersionsInv
<1>2. notifier.version <= latest /\ realm.version <= latest
  BY <1>1 DEF TodoInv, TripInv
<1>3. QED
  BY <1>1, <1>2, HistoryTypes DEF CalmInv

\* Whoever is tracked has been called or is being called for the first time.
LEMMA TrackedRuns ==
  ASSUME CalmInv, NEW i \in DOMAIN callbacks, Tracked(i)
  PROVE  notifier.hasRun /\ notifier.place = "main" /\ callbacks # <<>>
<1>1. callbacks[i].initial => notifier.hasRun
  BY CalmParts DEF CalledInv
<1>2. Counted(i) => notifier.hasRun
  BY CalmParts DEF Counted, Delivering, TripInv
<1>3. QED
  BY <1>1, <1>2, CalmParts DEF Tracked, TodoInv

\* The worker hands over what changed, unless it was not to be told.
LEMMA HeldHandover ==
  ASSUME CalmInv, PrepareHandover, NEW i \in DOMAIN callbacks', i \in DOMAIN callbacks,
         Steady(i, i),
         NEW v \in 1 .. MaxVersion, v \in changing,
         seen' = seen, told' = told, suppressed' = suppressed
  PROVE  HeldAt(i, v)'
<1>1. /\ Running /\ notifier'.version = Head(worker.todo) /\ worker'.pc # "idle"
      /\ notifier.version <= Head(worker.todo) /\ Head(worker.todo) \in Nat
      /\ UNCHANGED <<main, realm, signal>>
  BY CalmParts, HandoverEffect, TodoFacts, HistoryTypes DEF PrepareHandover
<1>2. Delivering' <=> Delivering
  BY <1>1 DEF Delivering
<1>3. /\ Tracked(i)' /\ Owes(i, v)' => Tracked(i) /\ Owes(i, v)
      /\ Has(i, v) => Has(i, v)'
  BY <1>1, SteadyOwes
<1>4. /\ callbacks'[i].token = callbacks[i].token
      /\ callbacks'[i].initial <=> callbacks[i].initial
      /\ callbacks[i].accumulated \subseteq callbacks'[i].accumulated
      /\ Counted(i)' <=> Counted(i)
      /\ ~callbacks[i].skip => callbacks'[i].accumulated =
                                 callbacks[i].accumulated \cup worker.changes
  BY CalmParts, HandoverEach DEF Steady
<1>5. SUFFICES ASSUME Tracked(i)', Owes(i, v)'
               PROVE
    /\ v <= notifier'.version => Has(i, v)' \/ v \in callbacks'[i].accumulated
    /\ Counted(i)' /\ v <= main'.to => Has(i, v)'
    /\ ~signal' /\ worker'.pc = "idle" /\ v <= notifier'.version => Has(i, v)'
    /\ callbacks'[i].initial /\ realm'.writing /\ ~Delivering' =>
         v \in told'[callbacks'[i].token]
    /\ callbacks'[i].initial /\ notifier'.version < realm'.version /\ v <= notifier'.version =>
         v \in told'[callbacks'[i].token]
  BY DEF HeldAt
<1>6. /\ v <= notifier.version => Has(i, v) \/ v \in callbacks[i].accumulated
      /\ Counted(i) /\ v <= main.to => Has(i, v)
      /\ callbacks[i].initial /\ realm.writing /\ ~Delivering =>
           v \in told[callbacks[i].token]
      /\ callbacks[i].initial /\ notifier.version < realm.version /\ v <= notifier.version =>
           v \in told[callbacks[i].token]
      /\ Tracked(i) /\ v \notin suppressed[callbacks[i].token]
  BY <1>3, <1>5, CalmParts DEF HeldInv, HeldAt, Owes
<1>7. ASSUME notifier.version < v, v <= notifier'.version
      PROVE  v \in callbacks'[i].accumulated
  <2>1. notifier.hasRun /\ callbacks # <<>>
    BY <1>6, TrackedRuns
  <2>2. v \in worker.changes
    BY <1>1, <1>7, <2>1, CalmParts DEF RunInv, PrepareHandover
  <2>3. ~callbacks[i].skip
    <3> SUFFICES ASSUME callbacks[i].skip
                 PROVE  FALSE
      OBVIOUS
    <3>1. CASE main.pc = "commit"
      <4>1. notifier.version = latest
        BY <2>1, <3>1, CalmParts DEF WriteInv, Writing, TripInv
      <4>2. v <= latest
        BY CalmParts DEF WorkerInv
      <4>3. QED
        BY <1>7, <4>1, <4>2, CalmParts
    <3>2. CASE main.pc # "commit"
      BY <1>1, <1>6, <1>7, <3>2, CalmParts DEF SkipInv, NextRun
    <3>3. QED
      BY <3>1, <3>2
  <2>4. QED
    BY <1>4, <2>2, <2>3
<1>8. v <= notifier.version \/ notifier.version < v
  BY CalmParts
<1>9. ASSUME callbacks'[i].initial, notifier'.version < realm'.version, v <= notifier'.version
      PROVE  v \in told'[callbacks'[i].token]
  <2>1. notifier.version < realm.version /\ callbacks[i].initial
    BY <1>1, <1>4, <1>9, CalmParts
  <2>2. Skips(Head(worker.todo))
    BY <1>1, <2>1, CalmParts DEF OvertakenInv
  <2>3. v <= notifier.version
    BY <1>1, <1>9, <2>2, CalmParts DEF Skips
  <2>4. QED
    BY <1>4, <1>6, <2>1, <2>3
<1>10. QED
  BY <1>1, <1>2, <1>3, <1>4, <1>5, <1>6, <1>7, <1>8, <1>9

\* A run loop source that finds nothing to do leaves nothing behind.
LEMMA NothingInVain ==
  ASSUME CalmInv, NotifyInVain, NEW j \in DOMAIN callbacks, NEW v \in 1 .. MaxVersion,
         Tracked(j), Owes(j, v), v <= notifier.version
  PROVE  v \in told[callbacks[j].token]
<1>1. main.pc = "idle" /\ ~Delivering
  BY DEF NotifyInVain, Free, Delivering
<1>2. callbacks[j].initial /\ CanPackage
  BY <1>1, TrackedRuns DEF Tracked, Counted, CanPackage
<1>3. HeldAt(j, v)
  BY CalmParts DEF HeldInv
<1>4. CASE realm.writing
  BY <1>1, <1>2, <1>3, <1>4 DEF HeldAt
<1>5. CASE latest = realm.version /\ notifier.version # realm.version
  <2>1. notifier.version < realm.version
    BY <1>5, CalmParts
  <2>2. QED
    BY <1>2, <1>3, <2>1 DEF HeldAt
<1>6. QED
  BY <1>2, <1>4, <1>5 DEF NotifyInVain

\* A step of another kind than a delivery's.
LEMMA HeldSteady ==
  ASSUME CalmInv, NotificationsInv', CalmNext, Record, ~AfterAdvance, ~Packages,
         NEW i \in DOMAIN callbacks', NEW j \in DOMAIN callbacks, Steady(i, j),
         NEW v \in 1 .. MaxVersion, v \in changing'
  PROVE  HeldAt(i, v)' \/ PrepareHandover
<1> SUFFICES ASSUME ~PrepareHandover
             PROVE  HeldAt(i, v)'
  OBVIOUS
<1>0. /\ Next /\ seen' = seen /\ told' = told /\ callbacks # <<>>
      /\ notifier'.version = notifier.version
      /\ (Delivering' <=> Delivering)
      /\ Delivering => main'.to = main.to
  <2>1. Next /\ seen' = seen /\ told' = told /\ callbacks # <<>>
    BY NextOf, RecordQuiet, CalmParts
  <2>2. notifier'.version = notifier.version
    BY <2>1, CalmParts, NotifierSteady
  <2>3. (Delivering' <=> Delivering) /\ (Delivering => main'.to = main.to)
    BY <2>1, CalmParts, DeliveryStays
  <2>4. QED
    BY <2>1, <2>2, <2>3
<1>s. suppressed[callbacks[j].token] \subseteq suppressed'[callbacks[j].token]
  <2>1. callbacks[j].token \in Token
    BY CalmParts, HistoryTypes
  <2>2. QED
    BY <1>0, <2>1, CalmParts, RecordSuppressed
<1>c. Counted(j) => main'.to = main.to
  BY <1>0 DEF Counted
<1>1. CASE v \notin changing
  <2>1. v = latest + 1 /\ (OtherCommit \/ CommitWrite)
    <3>1. v = latest + 1 /\ latest' = latest + 1
      BY <1>0, <1>1, CalmParts, ChangingGrows
    <3>2. latest' # latest
      BY <3>1, CalmParts
    <3>3. OtherCommit \/ CommitWrite
      BY <3>2, <1>0 DEF Next, Common, Work, Notify, Send, Write, ReadResults, Refresh, Return,
         OtherWake, AddCallback, RemoveCallback, Start, NeedToRun,
         CalculateChanges, PrepareHandover, Signal, NotifyInVain, ProcessAvailable,
         AdvanceToReady, PackageAndWait, Deliver, BeginWrite, SuppressNext,
         CancelWrite, FailToCommit, BeforeAdvance, Advance, AfterAdvance
    <3>4. QED
      BY <3>1, <3>3
  <2>2. QED
    BY <2>1, CalmParts, HeldNew
<1>2. CASE v \in changing
  <2>0. /\ Tracked(i)' /\ Owes(i, v)' => Tracked(j) /\ Owes(j, v)
        /\ Has(j, v) => Has(i, v)'
    BY <1>0, <1>2, <1>s, <1>c, SteadyOwes
  <2>j. HeldAt(j, v)
    BY CalmParts DEF HeldInv
  <2>f. /\ callbacks'[i].token = callbacks[j].token
        /\ callbacks'[i].initial <=> callbacks[j].initial
        /\ callbacks[j].accumulated \subseteq callbacks'[i].accumulated
        /\ Counted(i)' <=> Counted(j)
    BY DEF Steady
  <2>t. notifier.version < v \/ v <= notifier.version
    BY CalmParts
  <2>1. CASE NotifyInVain
    <3>1. UNCHANGED <<realm, main, worker, notifier>>
      BY <2>1 DEF NotifyInVain, notifierVars
    <3>2. ASSUME Tracked(j), Owes(j, v), v <= notifier.version
          PROVE  v \in told[callbacks[j].token]
      BY <2>1, <3>2, NothingInVain
    <3>3. Tracked(i)' /\ Owes(i, v)' /\ v <= notifier'.version =>
            v \in told'[callbacks'[i].token]
      BY <1>0, <2>0, <2>f, <3>2
    <3>4. ~Counted(i)'
      BY <1>0, <2>1 DEF NotifyInVain, Free, Counted, Delivering
    <3>5. Tracked(i)' /\ Owes(i, v)' /\ callbacks'[i].initial /\ realm'.writing
            /\ ~Delivering' => v \in told'[callbacks'[i].token]
      BY <1>0, <2>0, <2>j, <2>f, <3>1 DEF HeldAt
    <3>6. v \in told'[callbacks'[i].token] => Has(i, v)'
      BY DEF Has
    <3>7. QED
      BY <3>3, <3>4, <3>5, <3>6 DEF HeldAt
  <2>2. CASE Advance
    <3>1. /\ main.pc = "advance" /\ realm'.version = main.to
          /\ UNCHANGED <<worker, signal, notifier>>
      BY <2>2 DEF Advance, notifierVars
    <3>2. CASE main.packed
      <4>1. Delivering /\ realm'.version <= notifier.version
        BY <3>1, <3>2, CalmParts DEF Delivering, TripInv
      <4>2. ~(notifier'.version < realm'.version)
        BY <1>0, <3>1, <4>1, CalmParts
      <4>3. QED
        BY <1>0, <1>2, <1>s, <1>c, <3>1, <4>1, <4>2, CalmParts, HeldFrame
    <3>3. CASE ~main.packed
      <4>1. ~Tracked(i)'
        BY <2>f, <3>1, <3>3, CalmParts DEF WriteInv, Tracked, Counted, Delivering
      <4>2. QED
        BY <4>1 DEF HeldAt
    <3>4. QED
      BY <3>2, <3>3
  <2>3. CASE CommitWrite
    <3>1. /\ realm.writing /\ ~realm'.writing /\ ~Delivering /\ ~Delivering'
          /\ UNCHANGED <<worker, signal>>
      BY <2>3, CalmParts, CommitFacts DEF TripInv, Idle, Delivering
    <3>2. ASSUME Tracked(i)', Owes(i, v)'
          PROVE  v \in told'[callbacks'[i].token]
      <4>1. callbacks[j].initial
        BY <2>0, <3>1, <3>2 DEF Tracked, Counted
      <4>2. QED
        BY <1>0, <2>0, <2>j, <2>f, <3>1, <3>2, <4>1 DEF HeldAt
    <3>3. v \in told'[callbacks'[i].token] => Has(i, v)'
      BY DEF Has
    <3>4. QED
      BY <3>2, <3>3 DEF HeldAt
  <2>4. CASE ~NotifyInVain /\ ~Advance /\ ~CommitWrite
    <3>1. realm'.version = realm.version /\ (realm'.writing => realm.writing)
      BY <1>0, <2>4, CalmParts, RealmSteady, WritingSteady
    <3>2. ~signal' /\ worker'.pc = "idle" => ~signal /\ worker.pc = "idle"
      BY <1>0, <2>4, CalmParts, SignalSteady
    <3>3. QED
      BY <1>0, <1>2, <1>s, <1>c, <3>1, <3>2, CalmParts, HeldFrame
  <2>5. QED
    BY <2>1, <2>2, <2>3, <2>4
<1>3. QED
  BY <1>1, <1>2

\* What is accumulated becomes what is delivered, or is nobody's.
LEMMA HeldPackages ==
  ASSUME CalmInv, NotificationsInv', CalmNext, Record, Packages,
         NEW i \in DOMAIN callbacks', NEW v \in 1 .. MaxVersion, v \in changing'
  PROVE  HeldAt(i, v)'
<1>0. /\ Package /\ ~Delivering /\ ~realm.writing
      /\ UNCHANGED <<latest, changing, realm, worker>>
      /\ Delivering' => CanPackage /\ main'.to = notifier.version
      /\ notifier'.version = notifier.version
  BY CalmParts, PackagesEffect
<1>1. seen' = seen /\ told' = told /\ suppressed' = suppressed
  <2>1. ~AfterAdvance /\ ~CommitWrite
    BY CalmParts DEF Packages, PackageAndWait, ProcessAvailable, AdvanceToReady, Free,
       AfterAdvance, CommitWrite
  <2>2. QED
    BY <2>1, CalmParts, NextOf, RecordQuiet, RecordSuppressed
<1>2. CASE ~CanPackage
  <2>1. i \in DOMAIN callbacks /\ callbacks'[i] = callbacks[i]
    BY <1>0, <1>2 DEF Package, CanPackage
  <2>2. ~callbacks[i].initial
    BY <1>2, <2>1, CalmParts DEF CalledInv, TodoInv, CanPackage
  <2>3. ~Tracked(i)'
    BY <1>0, <1>2, <2>1, <2>2 DEF Tracked, Counted
  <2>4. QED
    BY <2>3 DEF HeldAt
<1>3. CASE CanPackage
  <2>1. /\ i \in DOMAIN callbacks
        /\ callbacks'[i].token = callbacks[i].token
        /\ callbacks'[i].initial = callbacks[i].initial
        /\ callbacks'[i].toDeliver = callbacks[i].accumulated
    BY <1>0, <1>3, CalmParts, PackageEach
  <2>2. HeldAt(i, v)
    BY <2>1, CalmParts DEF HeldInv
  <2>3. CASE Delivering'
    <3>1. Counted(i)'
      <4>1. count' = Len(callbacks) /\ i <= Len(callbacks)
        <5>1. count' = Len(callbacks)
          BY <1>0, <1>3 DEF Package, CanPackage
        <5>2. DOMAIN callbacks = 1 .. Len(callbacks)
          BY CalmParts, HistoryTypes
        <5>3. QED
          BY <2>1, <5>1, <5>2
      <4>2. QED
        BY <2>3, <4>1 DEF Counted
    <3>2. CASE ~callbacks[i].initial
      <4>1. Base(i)' = notifier'.version /\ main'.to = notifier'.version
        BY <1>0, <2>1, <2>3, <3>2 DEF Base
      <4>2. Owes(i, v)' => ~(v <= notifier'.version)
        <5>1. notifier'.version \in Nat /\ v \in Nat
          BY <1>0, CalmParts
        <5>2. QED
          BY <4>1, <5>1 DEF Owes
      <4>3. QED
        BY <2>1, <3>2, <4>1, <4>2 DEF HeldAt
    <3>3. CASE callbacks[i].initial
      <4>1. Owes(i, v)' <=> Owes(i, v)
        BY <1>0, <1>1, <2>1, <3>3 DEF Owes, Base
      <4>2. Tracked(i) /\ (Has(i, v) <=> v \in told[callbacks[i].token])
        BY <1>0, <3>3 DEF Tracked, Has, Counted
      <4>3. Has(i, v)' <=> v \in told[callbacks[i].token]
                             \/ v \in callbacks[i].accumulated
        BY <1>1, <2>1, <3>1 DEF Has
      <4>4. QED
        BY <1>0, <1>1, <2>1, <2>2, <2>3, <4>1, <4>2, <4>3 DEF HeldAt
    <3>4. QED
      BY <3>2, <3>3
  <2>4. CASE ~Delivering'
    <3>1. AdvanceToReady /\ notifier.version < realm.version
      <4>1. CASE PackageAndWait
        <5>1. callbacks # <<>> /\ ~main'.packed /\ Ready(main.to)
          BY <2>1, <2>4, <4>1, CalmParts, PackageAndWaitEffect DEF Delivering
        <5>2. haveCallbacks
          BY <5>1, CalmParts, Zenon DEF NotificationsInv, CallbacksInv
        <5>3. notifier.version >= main.to
          BY <1>3, <5>1, <5>2 DEF Ready, CanPackage
        <5>4. main'.packed
          BY <1>3, <4>1, <5>3, CalmParts, PackageAndWaitEffect
        <5>5. QED
          BY <5>1, <5>4
      <4>2. CASE ProcessAvailable
        BY <2>4, <4>2 DEF ProcessAvailable, Delivering
      <4>3. CASE AdvanceToReady
        <5>1. ~(notifier.version < realm.version) => main'.packed = TRUE /\ main'.pc # "idle"
          BY <1>3, <4>3 DEF AdvanceToReady
        <5>2. QED
          BY <2>4, <4>3, <5>1 DEF Delivering
      <4>4. QED
        BY <4>1, <4>2, <4>3 DEF Packages
    <3>2. ~Counted(i)' /\ (Tracked(i)' => callbacks[i].initial /\ Tracked(i))
      BY <2>1, <2>4 DEF Counted, Tracked
    <3>3. Tracked(i)' => (Owes(i, v)' <=> Owes(i, v))
      BY <1>0, <1>1, <2>1, <3>2 DEF Owes, Base
    <3>4. Tracked(i)' /\ Owes(i, v)' /\ v <= notifier'.version =>
            v \in told'[callbacks'[i].token]
      BY <1>0, <1>1, <2>1, <2>2, <3>1, <3>2, <3>3 DEF HeldAt
    <3>5. v \in told'[callbacks'[i].token] => Has(i, v)'
      BY DEF Has
    <3>6. QED
      BY <1>0, <3>2, <3>4, <3>5 DEF HeldAt
  <2>5. QED
    BY <2>3, <2>4
<1>4. QED
  BY <1>2, <1>3

\* A turn of the loop that calls, or its end.
LEMMA HeldVisit ==
  ASSUME CalmInv, NotificationsInv', CalmNext, Record, AfterAdvance,
         NEW i \in DOMAIN callbacks', NEW v \in 1 .. MaxVersion, v \in changing'
  PROVE  HeldAt(i, v)'
<1>0. /\ main.pc = "after" /\ Delivering
      /\ UNCHANGED <<latest, changing, realm, signal, worker, notifier, count, suppressed>>
      /\ Visit(index + 1) \/ Pass(index + 1) \/ Finish
  <2>1. /\ main.pc = "after"
        /\ UNCHANGED <<latest, changing, realm, signal, worker, notifier, count>>
        /\ Visit(index + 1) \/ Pass(index + 1) \/ Finish
    BY CalmParts, AfterEffect
  <2>2. Delivering
    BY <2>1, CalmParts DEF Delivering, TripInv
  <2>3. suppressed' = suppressed
    <3>1. ~CommitWrite
      BY <2>1 DEF CommitWrite
    <3>2. QED
      BY <3>1, CalmParts, NextOf, RecordSuppressed
  <2>4. QED
    BY <2>1, <2>2, <2>3
<1>1. /\ main.to = realm.version /\ main.to <= notifier.version
      /\ main.to \in Nat /\ notifier.version \in Nat /\ v \in Nat
      /\ ~(notifier'.version < realm'.version)
  BY <1>0, CalmParts DEF TripInv, Delivering
<1>2. CASE Visit(index + 1)
  <2> DEFINE k == index + 1
  <2>1. /\ i \in DOMAIN callbacks /\ k \in DOMAIN callbacks /\ k <= count
        /\ main' = main
        /\ callbacks'[i].token = callbacks[i].token
        /\ callbacks'[i].accumulated = callbacks[i].accumulated
        /\ i # k => /\ callbacks'[i] = callbacks[i]
                    /\ seen'[callbacks[i].token] = seen[callbacks[i].token]
                    /\ told'[callbacks[i].token] = told[callbacks[i].token]
        /\ i = k => callbacks'[i].initial /\ callbacks'[i].toDeliver = {}
        /\ i = k /\ callbacks[i].initial =>
             /\ seen'[callbacks[i].token] = seen[callbacks[i].token]
             /\ told'[callbacks[i].token] =
                  told[callbacks[i].token] \cup callbacks[i].toDeliver
        /\ i = k /\ ~callbacks[i].initial =>
             /\ seen'[callbacks[i].token] = realm.version
             /\ told'[callbacks[i].token] = told[callbacks[i].token]
    BY <1>2, CalmParts, VisitEffect DEF Visit
  <2>2. HeldAt(i, v)
    BY <2>1, CalmParts DEF HeldInv
  <2>3. Delivering' /\ (i <= count' <=> i <= count)
    BY <1>0, <2>1 DEF Delivering
  <2>4. CASE i # k
    <3>1. /\ Tracked(i)' <=> Tracked(i)
          /\ Counted(i)' <=> Counted(i)
          /\ Owes(i, v)' <=> Owes(i, v)
          /\ Has(i, v)' <=> Has(i, v)
      BY <1>0, <2>1, <2>3, <2>4 DEF Tracked, Counted, Owes, Base, Has
    <3>2. QED
      BY <1>0, <1>1, <2>1, <2>2, <2>3, <2>4, <3>1 DEF HeldAt
  <2>5. CASE i = k /\ callbacks[i].initial
    <3>1. Counted(i) /\ Counted(i)' /\ Tracked(i)
      BY <1>0, <2>1, <2>3, <2>5 DEF Counted, Tracked
    <3>2. Owes(i, v)' <=> Owes(i, v)
      BY <1>0, <2>1, <2>5 DEF Owes, Base
    <3>3. Has(i, v)' <=> Has(i, v)
      BY <2>1, <2>5, <3>1 DEF Has
    <3>4. QED
      BY <1>0, <1>1, <2>1, <2>2, <2>3, <3>1, <3>2, <3>3 DEF HeldAt
  <2>6. CASE i = k /\ ~callbacks[i].initial
    <3>1. Counted(i) /\ Tracked(i)
      BY <1>0, <2>1, <2>6 DEF Counted, Tracked
    <3>2. Owes(i, v)' => Owes(i, v) /\ ~(v <= main.to)
      BY <1>0, <1>1, <2>1, <2>6 DEF Owes, Base
    <3>3. ~(v <= main.to) => ~Has(i, v)
      <4>1. OnceAt(i, v) /\ told[callbacks[i].token] = {}
        BY <2>1, <2>6, CalmParts DEF OnceInv, CalledInv
      <4>2. v \in callbacks[i].toDeliver => v <= main.to
        BY <1>0, <4>1 DEF OnceAt, Delivered
      <4>3. QED
        BY <4>1, <4>2 DEF Has
    <3>4. QED
      BY <1>0, <1>1, <2>1, <2>2, <2>3, <3>1, <3>2, <3>3 DEF HeldAt
  <2>7. QED
    BY <2>4, <2>5, <2>6
<1>3. CASE Pass(index + 1)
  <2>1. UNCHANGED <<main, callbacks, seen, told>>
    BY <1>3 DEF Pass
  <2>2. i \in DOMAIN callbacks /\ HeldAt(i, v)
    BY <2>1, CalmParts DEF HeldInv
  <2>3. /\ Delivering' <=> Delivering
        /\ Tracked(i)' <=> Tracked(i)
        /\ Counted(i)' <=> Counted(i)
        /\ Owes(i, v)' <=> Owes(i, v)
        /\ Has(i, v)' <=> Has(i, v)
    BY <1>0, <2>1 DEF Delivering, Tracked, Counted, Owes, Base, Has
  <2>4. QED
    BY <1>0, <1>1, <2>1, <2>2, <2>3 DEF HeldAt
<1>4. CASE Finish
  <2>1. count <= index /\ main' = Idle /\ UNCHANGED <<callbacks, seen, told>>
    BY <1>4 DEF Finish
  <2>2. i \in DOMAIN callbacks /\ HeldAt(i, v) /\ i \in Nat
    BY <2>1, CalmParts, HistoryTypes DEF HeldInv
  <2>3. ~Delivering' /\ ~Counted(i)'
    BY <2>1 DEF Delivering, Counted, Idle
  <2>4. SUFFICES ASSUME callbacks[i].initial
                 PROVE  HeldAt(i, v)'
    BY <2>1, <2>3 DEF HeldAt, Tracked
  <2>5. Counted(i) /\ Tracked(i) /\ callbacks[i].toDeliver = {}
    <3>1. index \in Nat /\ count \in Nat
      BY CalmParts, HistoryTypes
    <3>2. i <= count
      BY <1>0, <2>2, <2>4, <3>1, CalmParts DEF DeliveryInv
    <3>3. i <= index
      BY <2>1, <2>2, <3>1, <3>2
    <3>4. callbacks[i].toDeliver = {}
      BY <1>0, <2>2, <3>3, CalmParts DEF DeliveryInv
    <3>5. QED
      BY <1>0, <2>4, <3>2, <3>4 DEF Counted, Tracked
  <2>6. Owes(i, v)' <=> Owes(i, v)
    BY <1>0, <2>1, <2>4 DEF Owes, Base
  <2>7. /\ Has(i, v) <=> v \in told[callbacks[i].token]
        /\ Has(i, v)' <=> v \in told[callbacks[i].token]
    BY <2>1, <2>3, <2>5 DEF Has
  <2>8. realm.writing => v <= main.to
    BY <1>0, <1>1, CalmParts DEF TripInv, WorkerInv
  <2>9. QED
    BY <1>0, <1>1, <2>1, <2>2, <2>3, <2>5, <2>6, <2>7, <2>8 DEF HeldAt
<1>5. QED
  BY <1>0, <1>2, <1>3, <1>4

\* What is owed to a callback is held for it after every step.
LEMMA HeldStep ==
  ASSUME CalmInv, NotificationsInv', CalmNext, Record
  PROVE  HeldInv'
<1> SUFFICES ASSUME NEW i \in DOMAIN callbacks', NEW v \in 1 .. MaxVersion'
             PROVE  HeldAt(i, v)'
  BY DEF HeldInv
<1>0. v \in 1 .. MaxVersion
  OBVIOUS
<1>1. CASE v \notin changing'
  BY <1>1 DEF HeldAt, Owes
<1>2. CASE v \in changing' /\ AfterAdvance
  BY <1>0, <1>2, HeldVisit
<1>3. CASE v \in changing' /\ Packages
  BY <1>0, <1>3, HeldPackages
<1>4. CASE v \in changing' /\ PrepareHandover
  <2>1. /\ i \in DOMAIN callbacks
        /\ callbacks'[i].token = callbacks[i].token
        /\ callbacks'[i].initial = callbacks[i].initial
        /\ callbacks'[i].toDeliver = callbacks[i].toDeliver
        /\ ~callbacks'[i].skip
        /\ callbacks[i].accumulated \subseteq callbacks'[i].accumulated
    BY <1>4, CalmParts, HandoverEach
  <2>2. UNCHANGED <<main, count, changing>>
    BY <1>4 DEF PrepareHandover
  <2>3. Steady(i, i)
    BY <2>1, <2>2 DEF Steady, Counted, Delivering
  <2>4. ~AfterAdvance /\ ~CommitWrite
    BY <1>4 DEF PrepareHandover, AfterAdvance, CommitWrite, NewVersion
  <2>5. seen' = seen /\ told' = told /\ suppressed' = suppressed
    BY <2>4, CalmParts, NextOf, RecordQuiet, RecordSuppressed
  <2>6. QED
    BY <1>0, <1>4, <2>1, <2>2, <2>3, <2>5, HeldHandover
<1>5. CASE v \in changing' /\ ~AfterAdvance /\ ~Packages /\ ~PrepareHandover
  <2>1. \/ Fresh(i) /\ ~Tracked(i)'
        \/ \E j \in DOMAIN callbacks : Steady(i, j)
    BY <1>5, CalmParts, CalmStays
  <2>2. CASE ~Tracked(i)'
    BY <2>2 DEF HeldAt
  <2>3. ASSUME NEW j \in DOMAIN callbacks, Steady(i, j)
        PROVE  HeldAt(i, v)'
    BY <1>0, <1>5, <2>3, HeldSteady
  <2>4. QED
    BY <2>1, <2>2, <2>3
<1>6. QED
  BY <1>1, <1>2, <1>3, <1>4, <1>5

-----------------------------------------------------------------------------
(***************************************************************************)
(* NothingLost and ToldWhenQuiet.                                          *)
(***************************************************************************)

\* The invariants hold of a file that was just opened,
LEMMA CalmStart == HistoryInit => CalmInv
<1> SUFFICES ASSUME HistoryInit
             PROVE  CalmInv
  OBVIOUS
<1>1. FullInv
  BY FullStart
<1>2. /\ DOMAIN callbacks = {} /\ callbacks = <<>>
      /\ ~Running /\ worker.pc = "idle" /\ ~Delivering
      /\ ~notifier.hasRun /\ notifier.version = 0 /\ realm.version = 0 /\ latest = 0
      /\ index = 0 /\ main = Idle /\ main.pc = "idle"
  BY DEF HistoryInit, Init, Unregistered, AtRest, Running, Idle, Delivering
<1>3. DeliveryInv /\ RunInv /\ HeldInv
  BY <1>2 DEF DeliveryInv, RunInv, HeldInv
<1>4. WriteInv /\ OvertakenInv /\ SkipInv /\ WakeInv
  BY <1>2 DEF WriteInv, OvertakenInv, SkipInv, WakeInv
<1>5. QED
  BY <1>1, <1>3, <1>4 DEF CalmInv

\* and every calm step keeps them.
LEMMA CalmStep ==
  CalmInv /\ [CalmNext /\ Record]_<<vars, historyVars>> => CalmInv'
<1> SUFFICES ASSUME CalmInv, [CalmNext /\ Record]_<<vars, historyVars>>
             PROVE  CalmInv'
  OBVIOUS
<1>1. FullInv'
  <2>1. [Next /\ Record]_<<vars, historyVars>>
    BY NextOf
  <2>2. QED
    BY <2>1, FullStep DEF CalmInv
<1>2. CASE CalmNext /\ Record
  <2>0. VersionsInv' /\ NotificationsInv' /\ Next
    BY <1>1, <1>2, NextOf DEF FullInv, VersionsInv
  <2>1. DeliveryInv' /\ RunInv' /\ WakeInv'
    BY <1>2, <2>0, CalmParts, DeliveryStep, RunStep, WakeStep
  <2>2. HeldInv'
    BY <1>2, <2>0, HeldStep
  <2>3. WriteInv' /\ OvertakenInv' /\ SkipInv'
    BY <1>2, <2>0, CalmParts, WritingStep, OvertakenStep, SkipStep
  <2>4. QED
    BY <1>1, <2>1, <2>2, <2>3 DEF CalmInv
<1>3. CASE UNCHANGED <<vars, historyVars>>
  <2>1. UNCHANGED <<latest, changing, realm, main, call, signal, wake, worker, skipVersion,
                    notifier, callbacks, haveCallbacks, index, count, nextToken,
                    seen, told, unwanted, suppressed>>
    BY <1>3 DEF vars, notifierVars, historyVars
  <2>2. DeliveryInv' /\ RunInv' /\ WriteInv'
    BY <2>1 DEF CalmInv, DeliveryInv, RunInv, WriteInv, Writing, Delivering
  <2>3. OvertakenInv' /\ SkipInv' /\ WakeInv'
    BY <2>1 DEF CalmInv, OvertakenInv, SkipInv, WakeInv, Skips, NextRun, Running
  <2>4. ASSUME NEW i \in DOMAIN callbacks, NEW v \in 1 .. MaxVersion
        PROVE  HeldAt(i, v)'
    <3>1. /\ Delivering' <=> Delivering
          /\ Counted(i)' <=> Counted(i)
          /\ Tracked(i)' <=> Tracked(i)
          /\ Owes(i, v)' <=> Owes(i, v)
          /\ Has(i, v)' <=> Has(i, v)
      BY <2>1 DEF Delivering, Counted, Tracked, Owes, Base, Has
    <3>2. HeldAt(i, v)
      BY DEF CalmInv, HeldInv
    <3>3. QED
      BY <2>1, <3>1, <3>2 DEF HeldAt
  <2>5. HeldInv'
    BY <2>1, <2>4 DEF HeldInv
  <2>6. QED
    BY <1>1, <2>2, <2>3, <2>5 DEF CalmInv
<1>4. QED
  BY <1>2, <1>3

\* CalmInv is an invariant.
LEMMA Calm == CalmSpec => []CalmInv
BY CalmStart, CalmStep, PTL DEF CalmSpec

\* A callback that has been called is due what it is owed.
LEMMA DueOwed ==
  ASSUME CalmInv, NEW i \in DOMAIN callbacks, NEW v \in Due(callbacks[i].token)
  PROVE  /\ v \in 1 .. MaxVersion /\ v \in changing
         /\ callbacks[i].initial /\ Tracked(i) /\ Owes(i, v)
         /\ v <= latest /\ v \in Nat
<1>1. v \in changing /\ v \notin suppressed[callbacks[i].token]
  BY DEF Due
<1>2. seen[callbacks[i].token] # NotYet /\ seen[callbacks[i].token] < v
  BY DEF Due, NotYet
<1>3. v \in 1 .. MaxVersion /\ v <= latest /\ v \in Nat
  BY <1>1, CalmParts, HistoryTypes DEF WorkerInv, Change
<1>4. callbacks[i].initial
  BY <1>2, CalmParts DEF CalledInv
<1>5. QED
  BY <1>1, <1>2, <1>3, <1>4 DEF Tracked, Owes, Base

\* HeldInv up to the notifier's version, and RunInv beyond it, are NothingLost.
LEMMA LostToNobody == CalmInv => NothingLost
<1> SUFFICES ASSUME CalmInv, NEW c \in Range(callbacks),
                    NEW v \in Due(c.token), v <= notifier.seen
             PROVE  v \in told[c.token] \cup c.accumulated \cup worker.changes
                            \cup (IF Delivering THEN c.toDeliver ELSE {})
  BY DEF NothingLost
<1>1. PICK i \in DOMAIN callbacks : c = callbacks[i]
  BY DEF Range
<1>2. /\ HeldAt(i, v) /\ Tracked(i) /\ Owes(i, v)
      /\ v \in changing /\ v \in Nat /\ callbacks[i].initial
  BY <1>1, DueOwed, CalmParts DEF HeldInv
<1>3. CASE v <= notifier.version
  <2>1. Has(i, v) \/ v \in callbacks[i].accumulated
    BY <1>2, <1>3 DEF HeldAt
  <2>2. QED
    BY <1>1, <2>1 DEF Has, Counted
<1>4. CASE notifier.version < v
  <2>1. notifier.seen \in Nat /\ notifier.version \in Nat
    BY CalmParts, HistoryTypes
  <2>2. worker.pc = "handover"
    BY <1>4, <2>1, <1>2, CalmParts DEF WorkerInv
  <2>3. v <= Head(worker.todo)
    <3>1. notifier.seen <= Head(worker.todo) /\ Head(worker.todo) \in Nat
      BY <2>2, CalmParts, TodoFacts, HistoryTypes DEF WorkerInv, Running
    <3>2. QED
      BY <1>2, <2>1, <3>1
  <2>4. notifier.hasRun /\ callbacks # <<>>
    BY <1>2, TrackedRuns
  <2>5. QED
    BY <1>2, <1>4, <2>2, <2>3, <2>4, CalmParts DEF RunInv
<1>5. QED
  BY <1>2, <1>3, <1>4, CalmParts

\* NothingLost: whatever was calculated for a callback and not suppressed is in what it
\* was told, in what is delivered to it, or in what it has accumulated.
THEOREM NothingLostHolds == CalmSpec => []NothingLost
BY Calm, LostToNobody, PTL

\* When nothing is under way WakeInv has the notifier at the latest version, and
\* HeldInv has everything up to it told.
LEMMA QuietIsTold == CalmInv => ToldWhenQuiet
<1> SUFFICES ASSUME CalmInv, Quiet, NEW c \in Range(callbacks), NEW v \in Due(c.token)
             PROVE  v \in told[c.token]
  BY DEF ToldWhenQuiet
<1>1. PICK i \in DOMAIN callbacks : c = callbacks[i]
  BY DEF Range
<1>2. /\ HeldAt(i, v) /\ Tracked(i) /\ Owes(i, v) /\ v <= latest
      /\ callbacks[i].initial
  BY <1>1, DueOwed, CalmParts DEF HeldInv
<1>3. ~signal /\ ~wake /\ worker.pc = "idle" /\ ~Running /\ ~Delivering
  BY DEF Quiet, Free, Running, Delivering
<1>4. notifier.version = latest
  BY <1>2, <1>3, TrackedRuns, CalmParts DEF WakeInv
<1>5. Has(i, v)
  BY <1>2, <1>3, <1>4 DEF HeldAt
<1>6. QED
  BY <1>1, <1>3, <1>5 DEF Has, Counted

\* ToldWhenQuiet: when no signal and no wake-up is left and the worker rests, every
\* callback has been told of every change since its first call but those suppressed.
THEOREM ToldWhenQuietHolds == CalmSpec => []ToldWhenQuiet
BY Calm, QuietIsTold, PTL
=============================================================================
