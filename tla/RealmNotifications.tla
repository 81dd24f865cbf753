------------------------- MODULE RealmNotifications -------------------------
(***************************************************************************)
(* Change notifications of Realm's object store: one query's Results of one*)
(* Realm instance, the callbacks that observe it, the worker thread that   *)
(* runs the query behind it, and another instance that writes.             *)
(*                                                                         *)
(* Three threads take steps: the thread of the Realm (main), the worker,   *)
(* and the other writer.  A step is what runs under one lock, or between   *)
(* two calls of the user's code; m_callback_mutex is not held in the calls.*)
(* A version is a number, and a set of changes is the set of the versions  *)
(* that made them; changing holds those that change the query's rows.      *)
(***************************************************************************)
EXTENDS Integers, SequencesExt

CONSTANTS
  MaxVersion,  \* bound: commits
  MaxToken,    \* bound: callbacks that are ever added
  SizeMax      \* the greatest size_t, which npos is and 0 - 1 wraps to

ASSUME MaxAssumption == MaxVersion \in Nat /\ MaxToken \in Nat
ASSUME SizeAssumption == SizeMax \in Nat /\ SizeMax > 2 * MaxToken

VARIABLES
  latest,        \* the latest snapshot in the file
  changing,      \* the versions that changed the rows of the query
  realm,         \* the Realm: the version it reads, and whether it writes
  main,          \* what its thread does
  call,          \* the user's code that it has called
  signal,        \* its run loop source is signalled
  wake,          \* the pipe of the worker has data
  worker,        \* what the worker does
  skipVersion,   \* m_notifier_skip_version, 0 for none
  notifier,      \* the ResultsNotifier
  callbacks,     \* m_callbacks
  haveCallbacks, \* m_have_callbacks
  index,         \* m_callback_index + 1: npos is 0
  count,         \* m_callback_count
  nextToken      \* m_next_token

notifierVars == <<notifier, callbacks, haveCallbacks, index, count, nextToken>>
vars == <<latest, changing, realm, main, call, signal, wake, worker,
          skipVersion, notifierVars>>

Version == 0 .. MaxVersion
Token == 1 .. MaxToken
Change == SUBSET (1 .. MaxVersion)
NoView == -1  \* no TableView to hand over

Callback == [token : Token, accumulated : Change, toDeliver : Change,
             initial : BOOLEAN, skip : BOOLEAN]

NoCall == [token |-> 0, changes |-> {}, first |-> FALSE, in |-> "none"]
Call == [token : Token \cup {0}, changes : Change, first : BOOLEAN,
         in : {"none", "before", "did_change", "after"}]

Idle == [pc |-> "idle", goal |-> "read", to |-> 0, packed |-> FALSE]
Main == [pc : {"idle", "wait", "before", "advance", "deliver", "after",
               "commit"},
         goal : {"read", "write"}, to : Version, packed : BOOLEAN]

AtRest == [pc |-> "idle", todo |-> <<>>, ran |-> FALSE, changes |-> {}]
Worker == [pc : {"idle", "run", "calculate", "handover", "signal"}, todo : Seq(Version),
           ran : BOOLEAN, changes : Change]

\* seen is the version of m_previous_rows and m_last_seen_version.
Unregistered == [place |-> "none", hasRun |-> FALSE, version |-> 0, seen |-> 0,
                 handover |-> NoView, toDeliver |-> NoView]
Notifier == [place : {"none", "new", "main"}, hasRun : BOOLEAN,
             version : Version, seen : Version,
             handover : Version \cup {NoView}, toDeliver : Version \cup {NoView}]

NotificationsTypeOK ==
  /\ latest \in Version /\ changing \in Change
  /\ realm \in [version : Version, writing : BOOLEAN]
  /\ main \in Main /\ call \in Call
  /\ signal \in BOOLEAN /\ wake \in BOOLEAN
  /\ worker \in Worker
  /\ skipVersion \in Version
  /\ notifier \in Notifier
  /\ callbacks \in Seq(Callback)
  /\ haveCallbacks \in BOOLEAN
  /\ index \in 0 .. MaxToken
  /\ count \in 0 .. SizeMax
  /\ nextToken \in 1 .. MaxToken + 1

\* A file that was just opened.
Init ==
  /\ latest = 0 /\ changing = {}
  /\ realm = [version |-> 0, writing |-> FALSE]
  /\ main = Idle /\ call = NoCall
  /\ signal = FALSE /\ wake = FALSE
  /\ worker = AtRest
  /\ skipVersion = 0
  /\ notifier = Unregistered
  /\ callbacks = <<>> /\ haveCallbacks = FALSE
  /\ index = 0 /\ count = SizeMax /\ nextToken = 1

\* The thread of the Realm is not sending notifications.
Free == main.pc = "idle" /\ call = NoCall

\* The user's code runs on that thread: its own, or what was called.
UserRuns == main.pc = "idle" \/ call # NoCall

\* The write lock of the file is taken.
Locked == realm.writing \/ (main.pc # "idle" /\ main.goal = "write")

-----------------------------------------------------------------------------
(***************************************************************************)
(* Adding and removing callbacks.                                          *)
(***************************************************************************)

\* prepare_async: the first use of the Results registers its notifier.
Registered ==
  IF notifier.place = "none"
    THEN [notifier EXCEPT !.place = "new", !.version = realm.version]
    ELSE notifier

\* The Results are read, and from then on are kept up to date behind it.
ReadResults ==
  /\ UserRuns
  /\ ~realm.writing
  /\ notifier.place = "none"
  /\ notifier' = Registered
  /\ UNCHANGED <<latest, changing, realm, main, call, signal, wake, worker,
                 skipVersion, callbacks, haveCallbacks, index, count, nextToken>>

\* A worker that is being waited for by a delivery need not be woken.
AddCallback ==
  /\ UserRuns
  /\ ~realm.writing
  /\ nextToken <= MaxToken
  /\ notifier' = Registered
  /\ callbacks' = Append(callbacks,
       [token |-> nextToken, accumulated |-> {}, toDeliver |-> {},
        initial |-> FALSE, skip |-> FALSE])
  /\ nextToken' = nextToken + 1
  /\ haveCallbacks' = (haveCallbacks \/ index = 0)
  /\ wake' = (wake \/ index = 0)
  /\ UNCHANGED <<latest, changing, realm, main, call, signal, worker,
                 skipVersion, index, count>>

\* Mutant: the position of a delivery that runs is not corrected.
RemoveCallbackOnly(i) ==
  /\ callbacks' = RemoveAt(callbacks, i)
  /\ haveCallbacks' = (Len(callbacks) > 1)
  /\ count' = (count + SizeMax) % (SizeMax + 1)
  /\ UNCHANGED <<latest, changing, realm, main, call, signal, wake, worker,
                 skipVersion, notifier, index, nextToken>>

\* Mutant: the count of a delivery goes below zero.
RemoveCallbackBelowZero(i) ==
  /\ callbacks' = RemoveAt(callbacks, i)
  /\ haveCallbacks' = (Len(callbacks) > 1)
  /\ index' = IF index # 0 /\ index >= i THEN index - 1 ELSE index
  /\ count' = count - 1
  /\ UNCHANGED <<latest, changing, realm, main, call, signal, wake, worker,
                 skipVersion, notifier, nextToken>>

\* remove_callback, from any thread, in a delivery too.
RemoveCallback(i) ==
  /\ callbacks' = RemoveAt(callbacks, i)
  /\ haveCallbacks' = (Len(callbacks) > 1)
  /\ index' = IF index # 0 /\ index >= i THEN index - 1 ELSE index
  /\ count' = (count + SizeMax) % (SizeMax + 1)
  /\ UNCHANGED <<latest, changing, realm, main, call, signal, wake, worker,
                 skipVersion, notifier, nextToken>>

-----------------------------------------------------------------------------
(***************************************************************************)
(* The worker: on_change and run_async_notifiers.                          *)
(***************************************************************************)

\* Mutant: the worker stops at the version that is to be skipped.
StartToSkipped ==
  /\ worker.pc = "idle"
  /\ wake
  /\ wake' = FALSE
  /\ IF notifier.place = "none"
       THEN /\ worker' = [worker EXCEPT !.pc = "signal"]
            /\ UNCHANGED <<skipVersion, notifier>>
       ELSE /\ worker' = [worker EXCEPT
                 !.pc = "run",
                 !.todo = IF skipVersion = 0 THEN <<latest>>
                                             ELSE <<skipVersion>>]
            /\ skipVersion' = 0
            /\ notifier' = [notifier EXCEPT !.place = "main"]
  /\ UNCHANGED <<latest, changing, realm, main, call, signal,
                 callbacks, haveCallbacks, index, count, nextToken>>

\* The versions to run to are chosen under the lock: the one to be skipped by
\* some callbacks, when the Realm has committed one, and the latest.
Start ==
  /\ worker.pc = "idle"
  /\ wake
  /\ wake' = FALSE
  /\ IF notifier.place = "none"
       THEN /\ worker' = [worker EXCEPT !.pc = "signal"]
            /\ UNCHANGED <<skipVersion, notifier>>
       ELSE /\ worker' = [worker EXCEPT
                 !.pc = "run",
                 !.todo = IF skipVersion = 0 THEN <<latest>>
                                             ELSE <<skipVersion, latest>>]
            /\ skipVersion' = 0
            /\ notifier' = [notifier EXCEPT !.place = "main"]
  /\ UNCHANGED <<latest, changing, realm, main, call, signal,
                 callbacks, haveCallbacks, index, count, nextToken>>

\* What happened to the query's rows since its last run, up to version v.
Since(v) == {c \in changing : notifier.seen < c /\ c <= v}

\* need_to_run.  Without callbacks the query is run the first time, and then
\* only if the Results have been read since they were last delivered (wanted).
NeedToRun(wanted) ==
  /\ worker.pc = "run"
  /\ worker' = [worker EXCEPT
       !.pc = IF \/ ~notifier.hasRun
                 \/ (haveCallbacks \/ wanted) /\ Since(Head(worker.todo)) # {}
                THEN "calculate" ELSE "handover"]
  /\ UNCHANGED <<latest, changing, realm, main, call, signal, wake,
                 skipVersion, notifierVars>>

\* The rest of run: changes are calculated if there are callbacks by now.
CalculateChanges ==
  /\ worker.pc = "calculate"
  /\ LET v == Head(worker.todo)
     IN /\ worker' = [worker EXCEPT
             !.pc = "handover",
             !.ran = TRUE,
             !.changes = IF notifier.hasRun /\ haveCallbacks
                           THEN Since(v) ELSE {}]
        /\ notifier' = [notifier EXCEPT !.seen = v]
  /\ UNCHANGED <<latest, changing, realm, main, call, signal, wake,
                 skipVersion, callbacks, haveCallbacks, index, count, nextToken>>

\* Mutant: the changes of a run take the place of those not delivered yet.
AddChangesAfresh(changes) ==
  callbacks' = [i \in DOMAIN callbacks |->
    IF callbacks[i].skip
      THEN [callbacks[i] EXCEPT !.skip = FALSE]
      ELSE [callbacks[i] EXCEPT !.accumulated = changes]]

\* The first run after a suppressed commit is not added to the callback.
AddChanges(changes) ==
  callbacks' = [i \in DOMAIN callbacks |->
    IF callbacks[i].skip
      THEN [callbacks[i] EXCEPT !.skip = FALSE]
      ELSE [callbacks[i] EXCEPT !.accumulated = @ \cup changes]]

\* Mutant: a TableView that is handed over again keeps its version.
PrepareHandoverAsItWas ==
  /\ worker.pc = "handover"
  /\ LET v == Head(worker.todo)
     IN notifier' = [notifier EXCEPT
          !.version = v,
          !.hasRun = TRUE,
          !.handover = IF worker.ran THEN v ELSE @]
  /\ AddChanges(worker.changes)
  /\ worker' = [pc |-> IF Len(worker.todo) > 1 THEN "run" ELSE "signal",
                todo |-> Tail(worker.todo), ran |-> FALSE, changes |-> {}]
  /\ UNCHANGED <<latest, changing, realm, main, call, signal, wake,
                 skipVersion, haveCallbacks, index, count, nextToken>>

\* prepare_handover, and the wake-up of who waits for it.
PrepareHandover ==
  /\ worker.pc = "handover"
  /\ LET v == Head(worker.todo)
     IN notifier' = [notifier EXCEPT
          !.version = v,
          !.hasRun = TRUE,
          !.handover = IF worker.ran \/ @ # NoView THEN v ELSE NoView]
  /\ AddChanges(worker.changes)
  /\ worker' = [pc |-> IF Len(worker.todo) > 1 THEN "run" ELSE "signal",
                todo |-> Tail(worker.todo), ran |-> FALSE, changes |-> {}]
  /\ UNCHANGED <<latest, changing, realm, main, call, signal, wake,
                 skipVersion, haveCallbacks, index, count, nextToken>>

\* Each Realm of the file is told to look.
Signal ==
  /\ worker.pc = "signal"
  /\ worker' = AtRest
  /\ signal' = TRUE
  /\ UNCHANGED <<latest, changing, realm, main, call, wake, skipVersion,
                 notifierVars>>

-----------------------------------------------------------------------------
(***************************************************************************)
(* Delivering: NotifierPackage and advance_with_notifications.             *)
(***************************************************************************)

\* What package_and_wait waits for.
Ready(v) == \/ notifier.place = "none"
            \/ ~haveCallbacks
            \/ notifier.hasRun /\ notifier.version >= v

\* Mutant: what is delivered stays accumulated.
PackageCopy ==
  IF notifier.place # "none" /\ notifier.hasRun
    THEN /\ callbacks' = [i \in DOMAIN callbacks |->
              [callbacks[i] EXCEPT !.toDeliver = callbacks[i].accumulated]]
         /\ count' = Len(callbacks)
         /\ notifier' = [notifier EXCEPT !.toDeliver = notifier.handover,
                                         !.handover = NoView]
    ELSE UNCHANGED <<callbacks, count, notifier>>

\* package_for_delivery: what was accumulated is what is delivered next, and
\* the callbacks there are by now are those it is delivered to.
Package ==
  IF notifier.place # "none" /\ notifier.hasRun
    THEN /\ callbacks' = [i \in DOMAIN callbacks |->
              [callbacks[i] EXCEPT !.toDeliver = callbacks[i].accumulated,
                                   !.accumulated = {}]]
         /\ count' = Len(callbacks)
         /\ notifier' = [notifier EXCEPT !.toDeliver = notifier.handover,
                                         !.handover = NoView]
    ELSE UNCHANGED <<callbacks, count, notifier>>

CanPackage == notifier.place # "none" /\ notifier.hasRun

\* begin_transaction: the write lock is taken, and the Realm goes to the latest
\* version.
BeginWrite ==
  /\ Free
  /\ ~realm.writing
  /\ main' = [pc |-> "wait", goal |-> "write", to |-> latest, packed |-> FALSE]
  /\ wake' = (wake \/ ~Ready(latest))
  /\ UNCHANGED <<latest, changing, realm, call, signal, worker, skipVersion,
                 notifierVars>>

\* refresh: advance_to_latest.
Refresh ==
  /\ Free
  /\ ~realm.writing
  /\ main' = [pc |-> "wait", goal |-> "read", to |-> latest, packed |-> FALSE]
  /\ wake' = (wake \/ ~Ready(latest))
  /\ UNCHANGED <<latest, changing, realm, call, signal, worker, skipVersion,
                 notifierVars>>

\* Mutant: a package for an older version is delivered.
PackageAnyVersion ==
  /\ main.pc = "wait"
  /\ Ready(main.to)
  /\ Package
  /\ LET packed == CanPackage
         to == IF packed THEN notifier.version ELSE latest
     IN main' = [main EXCEPT
          !.pc = IF packed /\ (main.goal = "read" \/ to > realm.version)
                   THEN "before" ELSE "advance",
          !.to = to,
          !.packed = packed]
  /\ UNCHANGED <<latest, changing, realm, call, signal, wake, worker,
                 skipVersion, haveCallbacks, index, nextToken>>

\* package_and_wait.  A package for an older version is dropped: there was
\* nobody to wait for.
PackageAndWait ==
  /\ main.pc = "wait"
  /\ Ready(main.to)
  /\ Package
  /\ LET packed == CanPackage /\ notifier.version >= main.to
         to == IF packed THEN notifier.version ELSE latest
     IN main' = [main EXCEPT
          !.pc = IF packed /\ (main.goal = "read" \/ to > realm.version)
                   THEN "before" ELSE "advance",
          !.to = to,
          !.packed = packed]
  /\ UNCHANGED <<latest, changing, realm, call, signal, wake, worker,
                 skipVersion, haveCallbacks, index, nextToken>>

\* Mutant: a Realm at the latest version looks at nothing, its own writes included.
NotifyUnlessBehind ==
  /\ Free
  /\ signal
  /\ realm.writing \/ latest = realm.version
  /\ signal' = FALSE
  /\ UNCHANGED <<latest, changing, realm, main, call, wake, worker,
                 skipVersion, notifierVars>>

\* Realm::notify in a write transaction, or with nothing to look at.
NotifyInVain ==
  /\ Free
  /\ signal
  /\ \/ realm.writing
     \/ /\ latest = realm.version
        /\ ~(CanPackage /\ notifier.version = realm.version)
  /\ signal' = FALSE
  /\ UNCHANGED <<latest, changing, realm, main, call, wake, worker,
                 skipVersion, notifierVars>>

\* process_available_async: the Realm is at the version of the notifier.
ProcessAvailable ==
  /\ Free
  /\ signal
  /\ ~realm.writing
  /\ latest = realm.version
  /\ CanPackage /\ notifier.version = realm.version
  /\ signal' = FALSE
  /\ Package
  /\ main' = [pc |-> "deliver", goal |-> "read", to |-> realm.version,
              packed |-> TRUE]
  /\ UNCHANGED <<latest, changing, realm, call, wake, worker, skipVersion,
                 haveCallbacks, index, nextToken>>

\* Mutant: a Realm that is ahead of the notifier follows it back.
AdvanceBackToReady ==
  /\ Free
  /\ signal
  /\ ~realm.writing
  /\ latest # realm.version
  /\ signal' = FALSE
  /\ Package
  /\ main' = IF ~CanPackage
               THEN [pc |-> "advance", goal |-> "read", to |-> latest,
                     packed |-> FALSE]
               ELSE [pc |-> IF notifier.version = realm.version
                              THEN "deliver" ELSE "before",
                     goal |-> "read", to |-> notifier.version, packed |-> TRUE]
  /\ UNCHANGED <<latest, changing, realm, call, wake, worker, skipVersion,
                 haveCallbacks, index, nextToken>>

\* advance_to_ready: to the version of the notifier, without waiting for it; to
\* the latest if the notifier has not run; nowhere if the Realm is ahead of it.
AdvanceToReady ==
  /\ Free
  /\ signal
  /\ ~realm.writing
  /\ latest # realm.version
  /\ signal' = FALSE
  /\ Package
  /\ main' = IF ~CanPackage
               THEN [pc |-> "advance", goal |-> "read", to |-> latest,
                     packed |-> FALSE]
               ELSE IF notifier.version < realm.version THEN Idle
               ELSE [pc |-> IF notifier.version = realm.version
                              THEN "deliver" ELSE "before",
                     goal |-> "read", to |-> notifier.version, packed |-> TRUE]
  /\ UNCHANGED <<latest, changing, realm, call, wake, worker, skipVersion,
                 haveCallbacks, index, nextToken>>

\* A turn of the loop of before_advance: only those with changes are called.
BeforeAdvance ==
  /\ main.pc = "before"
  /\ call = NoCall
  /\ \/ /\ index < count
        /\ index + 1 \in DOMAIN callbacks
        /\ index' = index + 1
        /\ LET c == callbacks[index + 1]
           IN call' = IF c.toDeliver = {} THEN NoCall
                      ELSE [token |-> c.token, changes |-> c.toDeliver,
                            first |-> FALSE, in |-> "before"]
        /\ UNCHANGED main
     \/ /\ index >= count
        /\ index' = 0
        /\ main' = [main EXCEPT !.pc = "advance"]
        /\ UNCHANGED call
  /\ UNCHANGED <<latest, changing, realm, signal, wake, worker, skipVersion,
                 notifier, callbacks, haveCallbacks, count, nextToken>>

\* advance_read or promote_to_write; did_change is the user's code as well.
Advance ==
  /\ main.pc = "advance"
  /\ realm' = [version |-> main.to, writing |-> main.goal = "write"]
  /\ call' = IF main.to # realm.version
               THEN [NoCall EXCEPT !.in = "did_change"] ELSE NoCall
  /\ main' = IF main.packed THEN [main EXCEPT !.pc = "deliver"]
             ELSE Idle
  /\ UNCHANGED <<latest, changing, signal, wake, worker, skipVersion,
                 notifierVars>>

\* The TableView reaches the Results, except in a write transaction.
Deliver ==
  /\ main.pc = "deliver"
  /\ call = NoCall
  /\ notifier' = IF realm.writing THEN notifier
                 ELSE [notifier EXCEPT !.toDeliver = NoView]
  /\ main' = [main EXCEPT !.pc = "after"]
  /\ UNCHANGED <<latest, changing, realm, call, signal, wake, worker,
                 skipVersion, callbacks, haveCallbacks, index, count, nextToken>>

\* A turn of the loop of after_advance: those with changes are called, and those
\* that never were.
AfterAdvance ==
  /\ main.pc = "after"
  /\ call = NoCall
  /\ \/ /\ index < count
        /\ index + 1 \in DOMAIN callbacks
        /\ index' = index + 1
        /\ LET c == callbacks[index + 1]
           IN IF c.initial /\ c.toDeliver = {}
                THEN UNCHANGED <<callbacks, call>>
                ELSE /\ callbacks' = [callbacks EXCEPT
                          ![index + 1].initial = TRUE,
                          ![index + 1].toDeliver = {}]
                     /\ call' = [token |-> c.token, changes |-> c.toDeliver,
                                 first |-> ~c.initial, in |-> "after"]
        /\ UNCHANGED main
     \/ /\ index >= count
        /\ index' = 0
        /\ main' = Idle
        /\ UNCHANGED <<callbacks, call>>
  /\ UNCHANGED <<latest, changing, realm, signal, wake, worker, skipVersion,
                 notifier, haveCallbacks, count, nextToken>>

\* The user's code returns.
Return ==
  /\ call # NoCall
  /\ call' = NoCall
  /\ UNCHANGED <<latest, changing, realm, main, signal, wake, worker,
                 skipVersion, notifierVars>>

-----------------------------------------------------------------------------
(***************************************************************************)
(* Writing.                                                                *)
(***************************************************************************)

\* commitWriteTransactionWithoutNotifying: the callbacks at the positions in
\* unwanted are to skip the changes; the commit itself follows.
SuppressNext(unwanted) ==
  /\ Free
  /\ realm.writing
  /\ latest < MaxVersion
  /\ callbacks' = [i \in DOMAIN callbacks |->
       IF i \in unwanted THEN [callbacks[i] EXCEPT !.skip = TRUE]
                         ELSE callbacks[i]]
  /\ main' = [Idle EXCEPT !.pc = "commit"]
  /\ UNCHANGED <<latest, changing, realm, call, signal, wake, worker,
                 skipVersion, notifier, haveCallbacks, index, count, nextToken>>

\* A new version, which changes the rows of the query or not.
NewVersion ==
  /\ latest < MaxVersion
  /\ latest' = latest + 1
  /\ changing' \in {changing, changing \cup {latest + 1}}
  /\ wake' = TRUE

\* commit_write: the version to be skipped is set before a worker can see it.
CommitWrite ==
  /\ main.pc = "commit"
  /\ NewVersion
  /\ realm' = [version |-> latest + 1, writing |-> FALSE]
  /\ skipVersion' = IF notifier.place = "main" THEN latest + 1 ELSE skipVersion
  /\ main' = Idle
  /\ UNCHANGED <<call, signal, worker, notifierVars>>

CancelWrite ==
  /\ Free
  /\ realm.writing
  /\ realm' = [realm EXCEPT !.writing = FALSE]
  /\ UNCHANGED <<latest, changing, main, call, signal, wake, worker,
                 skipVersion, notifierVars>>

\* The commit fails, and the transaction is canceled.
FailToCommit ==
  /\ main.pc = "commit"
  /\ main' = Idle
  /\ realm' = [realm EXCEPT !.writing = FALSE]
  /\ UNCHANGED <<latest, changing, call, signal, wake, worker, skipVersion,
                 notifierVars>>

\* Another Realm of the file commits.
OtherCommit ==
  /\ ~Locked
  /\ NewVersion
  /\ UNCHANGED <<realm, main, call, signal, worker, skipVersion, notifierVars>>

\* Another process wakes the workers of all, without having committed anything.
OtherWake ==
  /\ wake' = TRUE
  /\ UNCHANGED <<latest, changing, realm, main, call, signal, worker,
                 skipVersion, notifierVars>>

-----------------------------------------------------------------------------
Work == \/ Start
        \/ \E wanted \in BOOLEAN : NeedToRun(wanted)
        \/ CalculateChanges
        \/ PrepareHandover
        \/ Signal

Notify == NotifyInVain \/ ProcessAvailable \/ AdvanceToReady

\* What the thread of the Realm does before it returns to the user or waits.
Send == PackageAndWait \/ BeforeAdvance \/ Advance \/ Deliver \/ AfterAdvance

Write == \/ BeginWrite
         \/ \E unwanted \in SUBSET DOMAIN callbacks : SuppressNext(unwanted)
         \/ CommitWrite
         \/ CancelWrite

Common == \/ ReadResults \/ Refresh \/ Write \/ OtherCommit \/ OtherWake
          \/ Work \/ Notify \/ Send \/ Return

Next == \/ Common
        \/ AddCallback
        \/ \E i \in DOMAIN callbacks : RemoveCallback(i)
        \/ FailToCommit

Spec == Init /\ [][Next]_vars

(***************************************************************************)
(* Three things that the code does not handle are left out: a callback that*)
(* was added in a delivery is not removed in it, the first callback is not *)
(* added while the query is rerun, and no commit fails.                    *)
(***************************************************************************)
Delivering == main.packed /\ main.pc # "idle"
Running == worker.pc \in {"run", "calculate", "handover"}

CalmNext ==
  \/ Common
  \/ AddCallback /\ (callbacks = <<>> => ~Running)
  \/ \E i \in DOMAIN callbacks : RemoveCallback(i) /\ (Delivering => i <= count)

-----------------------------------------------------------------------------
\* m_have_callbacks, which the worker reads without m_callback_mutex, and which
\* add_callback does not set in a delivery, never hides the callbacks there are.
CallbacksAreKnown == callbacks # <<>> => haveCallbacks

\* A TableView is handed to the Realm only at its own version (import_from_handover
\* in ResultsNotifier::deliver cannot attach it to another).
HandoverFits ==
  main.pc = "deliver" /\ ~realm.writing /\ notifier.toDeliver # NoView =>
    notifier.toDeliver = realm.version

\* package_and_wait does not wait for ever: the worker is on its way to the
\* version that is waited for, or is going to be.
WaitIsAnswered ==
  main.pc = "wait" /\ ~Ready(main.to) =>
    wake \/ (Running /\ Last(worker.todo) >= main.to)

\* A Realm reads ever later versions: whichever of its ways forward it takes,
\* those that follow the worker included, which may be behind it.
NeverGoesBack == [][realm'.version >= realm.version]_vars

\* A package that goes with the begin of a write is of the latest version, though
\* it was waited for while the worker ran.  The version written on is the latest
\* one in the code whatever is packaged (promote_to_write); here a write begins at
\* the version of its package, so that a package of another version would show.
WritesOnLatest == realm.writing => realm.version = latest
=============================================================================
