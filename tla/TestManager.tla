---------------------------- MODULE TestManager ----------------------------
(***************************************************************************)
(* Discovering and running the unit tests of a workspace folder: the test  *)
(* manager of the configured framework and the commands, saves and timers  *)
(* of the UnitTestManagementService that call it.  Discoveries and runs    *)
(* are processes; what follows the end of one in the same turn of the      *)
(* event loop is part of the same step.                                    *)
(***************************************************************************)
EXTENDS Naturals, FiniteSets

CONSTANTS
    Discoveries,  \* bound: the discoveries of a behaviour
    Runs,         \* bound: the runs of a behaviour
    None

ASSUME DisjointAssumption ==
    /\ Discoveries \cap Runs = {}
    /\ None \notin Discoveries \union Runs
    /\ {"editor", "save"} \cap Runs = {}

VARIABLES
    status,          \* _status of the test manager
    tests,           \* the discovery that found the cached tests
    stored,          \* the discovery whose tests testCollectionStorage has
    discoveryToken,  \* testDiscoveryCancellationTokenSource, by its discovery
    runnerToken,     \* testRunnerCancellationTokenSource, by its run
    cancelled,       \* discoveries and runs whose token was cancelled
    discovery,       \* discovery[d]: how far discovery d is
    caller,          \* caller[d]: who awaits discovery d
    testRun,         \* testRun[r]: how far run r is
    autoDiscoverTimer

tokenVars == <<discoveryToken, runnerToken, cancelled>>
testVars == <<tests, stored>>
vars == <<status, testVars, tokenVars, discovery, caller, testRun, autoDiscoverTimer>>

Statuses == {"unknown", "idle", "discovering", "running", "error"}

Init ==
    /\ status = "unknown"
    /\ tests = None
    /\ stored = None
    /\ discoveryToken = None
    /\ runnerToken = None
    /\ cancelled = {}
    /\ discovery = [d \in Discoveries |-> "new"]
    /\ caller = [d \in Discoveries |-> "editor"]
    /\ testRun = [r \in Runs |-> "new"]
    /\ autoDiscoverTimer = FALSE

-----------------------------------------------------------------------------
(* The test manager.                                                       *)

\* A cached collection without test functions does not count.
HaveTests == tests # None /\ discovery[tests] = "found"

Stopped == {discoveryToken, runnerToken} \ {None}

\* A discovery starts a process, with a token that replaces the one before it.
StartDiscovery(d, who) ==
    /\ discovery[d] = "new"
    /\ discovery' = [discovery EXCEPT ![d] = "active"]
    /\ caller' = [caller EXCEPT ![d] = who]
    /\ discoveryToken' = d
    /\ status' = "discovering"
    /\ UNCHANGED testVars

\* discoverTests with ignoreCache, which cancels the tokens in stopped.
Discover(stopped) ==
    /\ \E d \in Discoveries : StartDiscovery(d, "editor")
    /\ cancelled' = cancelled \union stopped
    /\ UNCHANGED <<runnerToken, testRun>>

\* createCancellationToken and runTestImpl.
RunTestImpl(r) ==
    /\ testRun' = [testRun EXCEPT ![r] = "active"]
    /\ runnerToken' = r

\* runTest cancels the run whose token the manager holds.
Superseded == {runnerToken} \ {None}

\* clearDiscoveredTestCache: the condition that is to find out a run of all tests
\* is a disjunction of strings, 'true' or 'false', that are never empty.
ClearDiscoveredTestCache == FALSE

\* runTest with cached tests: discoverTests sets the status to idle and the
\* tests run.
RunCachedTests(r) ==
    /\ testRun[r] = "new"
    /\ HaveTests /\ ~ClearDiscoveredTestCache
    /\ cancelled' = cancelled \union Superseded
    /\ status' = "idle"
    /\ RunTestImpl(r)
    /\ UNCHANGED <<testVars, discoveryToken, discovery, caller, autoDiscoverTimer>>

\* runTest without: it discovers tests first, which stops everything else.
DiscoverForRun(r) ==
    /\ testRun[r] = "new"
    /\ ~HaveTests \/ ClearDiscoveredTestCache
    /\ \E d \in Discoveries : StartDiscovery(d, r)
    /\ cancelled' = cancelled \union Stopped
    /\ testRun' = [testRun EXCEPT ![r] = "discovering"]
    /\ UNCHANGED <<runnerToken, autoDiscoverTimer>>

\* A mutant: a run is not told of a discovery that ended.
ForgetRun(d) == UNCHANGED <<testRun, runnerToken>>

\* A run that awaited discovery d goes on when d ends, however it ended: the
\* token it looks for in its catch has been disposed of.
ContinueRun(d) ==
    IF caller[d] \in Runs THEN RunTestImpl(caller[d]) ELSE UNCHANGED <<testRun, runnerToken>>

\* After the process ended the discovery service looks at its token.
Accepted(d) == d \notin cancelled

\* Tests were discovered, perhaps none.  The document that was saved may be
\* one of the test files.
DiscoverySucceeds(d) ==
    /\ discovery[d] = "active"
    /\ Accepted(d)
    /\ \E found \in {"found", "empty"} : discovery' = [discovery EXCEPT ![d] = found]
    /\ tests' = d
    /\ stored' = d
    /\ status' = "idle"
    /\ discoveryToken' = None
    /\ ContinueRun(d)
    /\ autoDiscoverTimer' \in
          IF caller[d] = "save" THEN {TRUE, autoDiscoverTimer} ELSE {autoDiscoverTimer}
    /\ UNCHANGED <<cancelled, caller>>

\* The catch of discoverTests looks at the token the manager holds by then.
FailureStatus == IF discoveryToken \in cancelled THEN "idle" ELSE "error"
FailureStored == None

\* The process failed, its output was not understood, or it was cancelled.
DiscoveryFails(d) ==
    /\ discovery[d] = "active"
    /\ discovery' = [discovery EXCEPT ![d] = "failed"]
    /\ tests' = None
    /\ stored' = FailureStored
    /\ status' = FailureStatus
    /\ discoveryToken' = None
    /\ ContinueRun(d)
    /\ UNCHANGED <<cancelled, caller, autoDiscoverTimer>>

\* A mutant: the token is not disposed of.
KeptToken == runnerToken

\* disposeCancellationToken, whichever run the token belongs to.
DisposedToken == None

EndRun(r, newStatus) ==
    /\ testRun[r] = "active"
    /\ testRun' = [testRun EXCEPT ![r] = "done"]
    /\ status' = newStatus
    /\ runnerToken' = DisposedToken
    /\ UNCHANGED <<testVars, discoveryToken, cancelled, discovery, caller, autoDiscoverTimer>>

\* A killed process may also have written results.
RunSucceeds(r) == EndRun(r, "idle")
RunFails(r) == EndRun(r, IF runnerToken \in cancelled THEN "idle" ELSE "error")

\* stop, also called by dispose.
Stop ==
    /\ cancelled' = cancelled \union Stopped
    /\ UNCHANGED <<status, testVars, discoveryToken, runnerToken, discovery, caller, testRun,
                   autoDiscoverTimer>>

-----------------------------------------------------------------------------
(* The UnitTestManagementService.                                          *)

\* Its discoverTests does nothing while the manager says it is busy.
Available == status \notin {"discovering", "running"}

\* The command, which stops what runs; and discovery on activation or after a
\* change of the configuration, which does not.
DiscoverTests ==
    /\ Available
    /\ Discover(Stopped) \/ Discover({})
    /\ UNCHANGED autoDiscoverTimer

\* The commands that select a method or a file discover without asking the status.
SelectAndRun ==
    /\ Discover(Stopped)
    /\ UNCHANGED autoDiscoverTimer

\* A document is saved: cached tests set the status to idle and start the timer
\* if the document is one of them; without, they are discovered.
DocumentSavedCached ==
    /\ HaveTests
    /\ status' = "idle"
    /\ autoDiscoverTimer' \in {TRUE, autoDiscoverTimer}
    /\ UNCHANGED <<testVars, tokenVars, discovery, caller, testRun>>

DocumentSavedUncached ==
    /\ ~HaveTests
    /\ \E d \in Discoveries : StartDiscovery(d, "save")
    /\ UNCHANGED <<runnerToken, cancelled, testRun, autoDiscoverTimer>>

AutoDiscoverTimerFires ==
    /\ autoDiscoverTimer
    /\ autoDiscoverTimer' = FALSE
    /\ \/ Available /\ Discover({})
       \/ /\ ~Available
          /\ UNCHANGED <<status, testVars, tokenVars, discovery, caller, testRun>>

-----------------------------------------------------------------------------
DiscoveryEnds(d) == DiscoverySucceeds(d) \/ DiscoveryFails(d)
RunEnds(r) == RunSucceeds(r) \/ RunFails(r)

Next ==
    \/ DiscoverTests
    \/ SelectAndRun
    \/ DocumentSavedCached
    \/ DocumentSavedUncached
    \/ AutoDiscoverTimerFires
    \/ Stop
    \/ \E d \in Discoveries : DiscoveryEnds(d)
    \/ \E r \in Runs : RunCachedTests(r) \/ DiscoverForRun(r) \/ RunEnds(r)

Spec == Init /\ [][Next]_vars

\* The process of a discovery ends, and with it the promise of discoverTestsImpl
\* settles.  Nothing is assumed of runs: a test need not end, and a pytest or nosetest
\* process that was stopped, or rejected its arguments, leaves its run pending for good.
Fairness == \A d \in Discoveries : WF_vars(DiscoveryEnds(d))

FairSpec == Spec /\ Fairness

-----------------------------------------------------------------------------
(* Properties.                                                             *)

\* Every variable has its type.
TypeOK ==
    /\ status \in Statuses
    /\ tests \in Discoveries \union {None}
    /\ stored \in Discoveries \union {None}
    /\ discoveryToken \in Discoveries \union {None}
    /\ runnerToken \in Runs \union {None}
    /\ cancelled \subseteq Discoveries \union Runs
    /\ discovery \in [Discoveries -> {"new", "active", "found", "empty", "failed"}]
    /\ caller \in [Discoveries -> {"editor", "save"} \union Runs]
    /\ testRun \in [Runs -> {"new", "discovering", "active", "done"}]
    /\ autoDiscoverTimer \in BOOLEAN

\* A token the manager holds belongs to a discovery or a run in progress: stop
\* never reaches one that has ended, however they overlap.  A run that never settles
\* stays in progress, with its token, until another one replaces it.
TokensAreLive ==
    /\ discoveryToken # None => discovery[discoveryToken] = "active"
    /\ runnerToken # None => testRun[runnerToken] = "active"

\* The tests that the manager keeps were not found by a discovery that was
\* cancelled, before or after it ended.
CancelledNeverKept == tests \notin cancelled

\* Code lenses and pickers, which read the storage, and the manager, which runs
\* the tests, have the same tests.
StorageAgrees == stored = tests

\* The guard of discoverTests cannot lock discovery out for ever: when the
\* manager says it is busy a discovery is in progress.
BusyIsTrue == ~Available => \E d \in Discoveries : discovery[d] = "active"

\* A run that waits for a discovery waits for one in progress.
WaitingRuns ==
    \A r \in Runs : testRun[r] = "discovering" =>
       \E d \in Discoveries : discovery[d] = "active" /\ caller[d] = r

\* The cached tests come from a discovery that has ended.
KeptTestsEnded == tests # None => discovery[tests] \in {"found", "empty"}

\* However discoveries and runs overlap, are stopped and fail: tokens, kept tests,
\* storage and status agree with what is in progress.  It is inductive.
ManagerInvariant ==
    /\ TypeOK
    /\ TokensAreLive
    /\ CancelledNeverKept
    /\ StorageAgrees
    /\ BusyIsTrue
    /\ WaitingRuns
    /\ KeptTestsEnded

\* A run that waits for a discovery goes on to its tests, although the discovery fails,
\* is stopped or is superseded, and a run before it never ends.
WaitingRunsGoOn ==
    \A r \in Runs : testRun[r] = "discovering" ~> testRun[r] # "discovering"
=============================================================================
