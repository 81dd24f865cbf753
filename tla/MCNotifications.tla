-------------------------- MODULE MCNotifications --------------------------
(***************************************************************************)
(* RealmNotifications with a history: what each callback has seen, been    *)
(* told, and was not to be told.                                           *)
(***************************************************************************)
EXTENDS RealmNotifications

VARIABLES
  seen,       \* the version the callback saw at its first call, or NotYet
  told,       \* the changes that its later calls have told it
  unwanted,   \* the callbacks that the commit under way is not to be told to
  suppressed  \* the versions it was not to be told of

historyVars == <<seen, told, unwanted, suppressed>>

NotYet == -1

\* The step calls the user's code after an advance.
Calls == call = NoCall /\ call'.in = "after"

HistoryInit ==
  /\ Init
  /\ seen = [t \in Token |-> NotYet]
  /\ told = [t \in Token |-> {}]
  /\ unwanted = {}
  /\ suppressed = [t \in Token |-> {}]

Record ==
  /\ seen' = IF Calls /\ call'.first
               THEN [seen EXCEPT ![call'.token] = realm.version] ELSE seen
  /\ told' = IF Calls /\ ~call'.first
               THEN [told EXCEPT ![call'.token] = @ \cup call'.changes] ELSE told
  /\ unwanted' = IF main'.pc # "commit" THEN {}
                 ELSE IF main.pc = "commit" THEN unwanted
                 ELSE {c.token : c \in {d \in Range(callbacks') : d.skip}}
  /\ suppressed' = IF main.pc = "commit" /\ latest' > latest
                     THEN [t \in Token |-> IF t \in unwanted
                             THEN suppressed[t] \cup {latest'} ELSE suppressed[t]]
                     ELSE suppressed

FullSpec == HistoryInit /\ [][Next /\ Record]_<<vars, historyVars>>
CalmSpec == HistoryInit /\ [][CalmNext /\ Record]_<<vars, historyVars>>

-----------------------------------------------------------------------------
\* What the callback is to be told after its first call.
Due(t) == {c \in changing : seen[t] # NotYet /\ c > seen[t]} \ suppressed[t]

\* Between the run that calculated a change and the call that tells it the
\* change is held for each callback that is to be told, whatever is added,
\* removed, suppressed or committed meanwhile.
NothingLost ==
  \A c \in Range(callbacks) :
    {v \in Due(c.token) : v <= notifier.seen} \subseteq
      told[c.token] \cup c.accumulated \cup worker.changes
        \cup (IF Delivering THEN c.toDeliver ELSE {})

\* No callback is told twice of one change, or of one that its Realm cannot see.
ToldOnce ==
  [][Calls /\ ~call'.first =>
       call'.changes \subseteq (1 .. realm.version) \ told[call'.token]]_vars

\* Nothing is under way, and nothing will be until somebody writes or adds.
Quiet == Free /\ ~realm.writing /\ ~signal /\ ~wake /\ worker.pc = "idle"

\* When nothing is under way any more each callback has been told of everything:
\* no wake-up and no signal is lost, whatever consumes them.
ToldWhenQuiet ==
  Quiet => \A c \in Range(callbacks) : Due(c.token) \subseteq told[c.token]

\* RLMResults.h:204: a block will be called with the initial results.
CalledWhenQuiet == Quiet => \A c \in Range(callbacks) : c.initial
=============================================================================
