--------------------------- MODULE LanguageServer ---------------------------
(***************************************************************************)
(* The Microsoft language server and the interpreter it analyses with:     *)
(* AnalysisExtensionActivator starts it, and restarts it when an event of  *)
(* the interpreter finds another one configured.  The activation and each  *)
(* restart is an activity; they interleave at their awaits.                *)
(***************************************************************************)
EXTENDS Naturals, FiniteSets

CONSTANTS
    Interpreters,   \* the interpreters the user may configure
    WithoutData,    \* those whose python tells no path: their data is undefined
    Hash,           \* Hash[i]: the times of the executable of i, in one value
    NoHash,         \* the empty one
    MaxActivities,  \* bound: the activation and the restarts
    Undefined

Activities == 1..MaxActivities

ASSUME InterpretersAssumption ==
    /\ MaxActivities \in Nat \ {0}
    /\ Undefined \notin Interpreters
    /\ Undefined \notin Activities
    /\ DOMAIN Hash = Interpreters
    /\ WithoutData \subseteq Interpreters
    /\ \A i \in WithoutData : Hash[i] = NoHash

Hashes == {Hash[i] : i \in Interpreters} \union {NoHash}

VARIABLES
    configured,       \* the interpreter in the settings
    events,           \* how many changes of the settings are yet to be told
    interpreterHash,  \* interpreterHash of the activator
    languageClient,   \* languageClient, by the activity that created it
    running,          \* the clients whose server runs
    subscribed,       \* the subscriptions in disposables that are not disposed of
    activity,         \* activity[a]: how far activity a is
    found,            \* found[a]: the interpreter a works with
    stopping,         \* stopping[a]: the client a stops
    missed,           \* history: an event came while nothing was subscribed
    overlapped        \* history: two activities replaced the server at once

serverVars == <<interpreterHash, languageClient, running, subscribed>>
activityVars == <<activity, found, stopping>>
lsVars == <<configured, events, serverVars, activityVars, missed, overlapped>>

Stages == {"new", "comparing", "stopping", "options", "starting", "done",
           "notCompared", "notStopped", "noOptions", "noServer"}
Replacing(a) == activity[a] \in {"stopping", "options", "starting"}
Unused == {a \in Activities : activity[a] = "new"}
Quiet == \A a \in Activities : activity[a] # "comparing" /\ ~Replacing(a)

\* The extension activates; an event has nobody to tell yet.
LSInit ==
    /\ configured \in Interpreters
    /\ events = 0
    /\ interpreterHash = NoHash
    /\ languageClient = Undefined
    /\ running = {}
    /\ subscribed = {}
    /\ activity = [a \in Activities |-> IF a = 1 THEN "options" ELSE "new"]
    /\ found = [a \in Activities |-> IF a = 1 THEN configured ELSE Undefined]
    /\ stopping = [a \in Activities |-> Undefined]
    /\ missed = FALSE
    /\ overlapped = FALSE

-----------------------------------------------------------------------------

\* The user changes a setting, of the interpreter or another.
ChangeSetting ==
    /\ Cardinality(Unused) > Cardinality(subscribed)
    /\ configured' \in Interpreters
    /\ events' = events + 1
    /\ events < MaxActivities
    /\ UNCHANGED <<serverVars, activityVars, missed, overlapped>>

\* The event of it: a restart for every subscription, with the interpreter that
\* is configured by now.  Bound: there are activities left for them.
TellSubscribers ==
    /\ events > 0
    /\ events' = events - 1
    /\ \E S \in SUBSET Unused :
         /\ Cardinality(S) = Cardinality(subscribed)
         /\ \A a \in S, b \in Unused \ S : a < b
         /\ activity' = [a \in Activities |-> IF a \in S THEN "comparing" ELSE activity[a]]
         /\ found' = [a \in Activities |-> IF a \in S THEN configured ELSE found[a]]
    /\ missed' = (missed \/ subscribed = {})
    /\ UNCHANGED <<configured, serverVars, stopping, overlapped>>

Unchanged(a) == found[a] \notin WithoutData /\ Hash[found[a]] = interpreterHash

\* The interpreter was asked for its data and is the one the server has.
SameInterpreter(a) ==
    /\ activity[a] = "comparing"
    /\ Unchanged(a)
    /\ activity' = [activity EXCEPT ![a] = "done"]
    /\ UNCHANGED <<configured, events, serverVars, found, stopping, missed, overlapped>>

\* It is another, or gave no data: a restart replaces the server.
Replace(a) ==
    /\ activity[a] = "comparing"
    /\ ~Unchanged(a)
    /\ interpreterHash' = Hash[found[a]]
    /\ overlapped' = (overlapped \/ \E b \in Activities : Replacing(b))

\* deactivate waits for the client to stop.
StopClient(a) ==
    /\ Replace(a)
    /\ languageClient # Undefined
    /\ activity' = [activity EXCEPT ![a] = "stopping"]
    /\ stopping' = [stopping EXCEPT ![a] = languageClient]
    /\ UNCHANGED <<configured, events, languageClient, running, subscribed, found, missed>>

\* Mutants: the client is not stopped; the options are made of the data that was
\* compared; only the activation subscribes.
NoneStopped(a) == running
DataCompared(a) == found[a]
SubscribeOnce(a) == IF a = 1 THEN subscribed \union {a} ELSE subscribed

WithoutStopped(a) == running \ {stopping[a]}

DataForOptions(a) == configured

WithSubscription(a) == subscribed \union {a}

\* Then every subscription is disposed of, and the options are made of the
\* interpreter that is configured by now.
DisposeAndActivate(a) ==
    /\ subscribed' = {}
    /\ activity' = [activity EXCEPT ![a] = "options"]
    /\ found' = [found EXCEPT ![a] = DataForOptions(a)]
    /\ UNCHANGED <<configured, events, languageClient, stopping, missed>>

\* Without a client there is nothing to wait for.
NothingToStop(a) ==
    /\ Replace(a)
    /\ languageClient = Undefined
    /\ DisposeAndActivate(a)
    /\ UNCHANGED running

Stopped(a) ==
    /\ activity[a] = "stopping"
    /\ running' = WithoutStopped(a)
    /\ DisposeAndActivate(a)
    /\ UNCHANGED <<interpreterHash, overlapped>>

\* The data for the options has come, or it is known that there is none.
Subscribe(a) ==
    /\ activity[a] = "options"
    /\ interpreterHash' = Hash[found[a]]
    /\ subscribed' = WithSubscription(a)
    /\ activity' = [activity EXCEPT ![a] = "starting"]
    /\ UNCHANGED <<configured, events, languageClient, running, found, stopping, missed, overlapped>>

\* The server is there, or was downloaded.
Start(a) ==
    /\ activity[a] = "starting"
    /\ languageClient' = a
    /\ running' = running \union {a}
    /\ activity' = [activity EXCEPT ![a] = "done"]
    /\ UNCHANGED <<configured, events, interpreterHash, subscribed, found, stopping, missed, overlapped>>

\* The client is created and does not start: reported, or rejected.
StartFails(a) ==
    /\ activity[a] = "starting"
    /\ languageClient' = a
    /\ activity' = [activity EXCEPT ![a] = "noServer"]
    /\ UNCHANGED <<configured, events, interpreterHash, running, subscribed, found, stopping,
                   missed, overlapped>>

\* Python does not run, the client does not stop or the download fails: the
\* activity rejects where it is.
Failed == [comparing |-> "notCompared", stopping |-> "notStopped",
           options |-> "noOptions", starting |-> "noServer"]

Fail(a) ==
    /\ activity[a] \in DOMAIN Failed
    /\ activity' = [activity EXCEPT ![a] = Failed[@]]
    /\ UNCHANGED <<configured, events, serverVars, found, stopping, missed, overlapped>>

LSNext ==
    \/ ChangeSetting
    \/ TellSubscribers
    \/ \E a \in Activities :
         \/ SameInterpreter(a)
         \/ StopClient(a)
         \/ NothingToStop(a)
         \/ Stopped(a)
         \/ Subscribe(a)
         \/ Start(a)
         \/ StartFails(a)
         \/ Fail(a)

LSSpec == LSInit /\ [][LSNext]_lsVars

-----------------------------------------------------------------------------
(* Properties.                                                             *)

LSTypeOK ==
    /\ configured \in Interpreters
    /\ events \in 0..MaxActivities
    /\ interpreterHash \in Hashes
    /\ languageClient \in Activities \union {Undefined}
    /\ running \subseteq Activities
    /\ subscribed \subseteq Activities
    /\ activity \in [Activities -> Stages]
    /\ found \in [Activities -> Interpreters \union {Undefined}]
    /\ stopping \in [Activities -> Activities \union {Undefined}]
    /\ missed \in BOOLEAN
    /\ overlapped \in BOOLEAN

\* The servers that run are those the activator can stop, and none runs while a
\* restart makes the options of the next.
OneServerRuns ==
    /\ running \subseteq {languageClient}
    /\ \A a \in Activities :
         /\ activity[a] = "stopping" => stopping[a] = languageClient
         /\ activity[a] \in {"options", "starting"} => running = {}
         /\ Replacing(a) => \A b \in Activities : Replacing(b) => a = b

\* As long as no two activities replace the server at once, one server runs that
\* the next restart will stop: none is left running behind the editor.
ServerInvariant ==
    /\ LSTypeOK
    /\ ~overlapped => OneServerRuns

\* Even when restarts overlap and dispose of each other's subscriptions, the
\* activator is subscribed to changes of the interpreter once they have ended,
\* unless the data for the options of a server could not be had.
StillListens ==
    (Quiet /\ \A a \in Activities : activity[a] # "noOptions")
        => subscribed # {}

\* Once every change was told and every restart has ended, the server runs with the
\* interpreter that is configured, however the changes and the restarts interleaved,
\* unless an event fell between two subscriptions, restarts overlapped or one failed.
ServerIsCurrent ==
    (/\ Quiet /\ events = 0
     /\ ~missed /\ ~overlapped
     /\ \A a \in Activities : activity[a] \in {"new", "done"})
        => /\ running = {languageClient}
           /\ Hash[found[languageClient]] = Hash[configured]
=============================================================================
