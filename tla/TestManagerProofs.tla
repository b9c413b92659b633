------------------------- MODULE TestManagerProofs -------------------------
(***************************************************************************)
(* Proofs about TestManager: what the overlap of discoveries and runs      *)
(* cannot break, for any number of them.                                   *)
(***************************************************************************)
EXTENDS TestManager, TLAPS

\* What starting a discovery does to the parts of the invariant.
LEMMA StartDiscoveryKeeps ==
    ASSUME ManagerInvariant, NEW d \in Discoveries, NEW who \in {"editor", "save"} \union Runs,
           StartDiscovery(d, who), cancelled' \subseteq cancelled \union Stopped,
           UNCHANGED runnerToken, autoDiscoverTimer' \in BOOLEAN,
           \/ UNCHANGED testRun
           \/ who \in Runs /\ testRun[who] = "new" /\ testRun' = [testRun EXCEPT ![who] = "discovering"]
    PROVE  ManagerInvariant'
<1>1. TypeOK'
  BY DEF ManagerInvariant, TypeOK, StartDiscovery, Stopped, Statuses, testVars
<1>2. TokensAreLive'
  BY DisjointAssumption DEF ManagerInvariant, TypeOK, TokensAreLive, StartDiscovery
<1>3. CancelledNeverKept'
  <2>1. tests \notin Stopped
    <3>1. tests # None => discovery[tests] # "active"
      BY DEF ManagerInvariant, KeptTestsEnded
    <3>2. tests \in Discoveries => tests # runnerToken
      BY DisjointAssumption DEF ManagerInvariant, TypeOK
    <3> QED
      BY <3>1, <3>2 DEF ManagerInvariant, TypeOK, TokensAreLive, Stopped
  <2> QED
    BY <2>1 DEF ManagerInvariant, CancelledNeverKept, StartDiscovery, testVars
<1>4. StorageAgrees' /\ BusyIsTrue' /\ KeptTestsEnded'
  BY DisjointAssumption
  DEF ManagerInvariant, TypeOK, StorageAgrees, BusyIsTrue, KeptTestsEnded, StartDiscovery, testVars
<1>5. WaitingRuns'
  <2> SUFFICES ASSUME NEW r \in Runs, testRun'[r] = "discovering"
               PROVE  \E e \in Discoveries : discovery'[e] = "active" /\ caller'[e] = r
    BY DEF WaitingRuns
  <2>1. /\ discovery' = [discovery EXCEPT ![d] = "active"]
        /\ caller' = [caller EXCEPT ![d] = who]
        /\ discovery[d] = "new"
        /\ discovery \in [Discoveries -> {"new", "active", "found", "empty", "failed"}]
        /\ caller \in [Discoveries -> {"editor", "save"} \union Runs]
        /\ testRun \in [Runs -> {"new", "discovering", "active", "done"}]
    BY DEF StartDiscovery, ManagerInvariant, TypeOK
  <2>2. CASE testRun[r] = "discovering"
    <3>1. PICK e \in Discoveries : discovery[e] = "active" /\ caller[e] = r
      BY <2>2 DEF ManagerInvariant, WaitingRuns
    <3> QED
      BY <2>1, <3>1
  <2>3. CASE testRun[r] # "discovering"
    BY <2>1, <2>3
  <2> QED
    BY <2>2, <2>3
<1> QED
  BY <1>1, <1>2, <1>3, <1>4, <1>5 DEF ManagerInvariant

\* What the end of a discovery does to them.
LEMMA DiscoveryEndKeeps ==
    ASSUME ManagerInvariant, NEW d \in Discoveries, discovery[d] = "active",
           NEW end \in {"found", "empty", "failed"},
           discovery' = [discovery EXCEPT ![d] = end],
           discoveryToken' = None, ContinueRun(d), UNCHANGED <<cancelled, caller>>,
           status' \in {"idle", "error"}, autoDiscoverTimer' \in BOOLEAN, stored' = tests',
           \/ end = "failed" /\ tests' = None
           \/ end \in {"found", "empty"} /\ tests' = d /\ d \notin cancelled
    PROVE  ManagerInvariant'
<1>a. /\ discovery \in [Discoveries -> {"new", "active", "found", "empty", "failed"}]
      /\ caller \in [Discoveries -> {"editor", "save"} \union Runs]
      /\ testRun \in [Runs -> {"new", "discovering", "active", "done"}]
      /\ None \notin cancelled
  BY DisjointAssumption DEF ManagerInvariant, TypeOK
<1>1. TypeOK'
  BY DEF ManagerInvariant, TypeOK, ContinueRun, RunTestImpl, Statuses
<1>2. TokensAreLive'
  BY <1>a DEF ManagerInvariant, TypeOK, TokensAreLive, ContinueRun, RunTestImpl
<1>3. CancelledNeverKept' /\ StorageAgrees' /\ BusyIsTrue'
  BY <1>a DEF CancelledNeverKept, StorageAgrees, BusyIsTrue, Available
<1>4. KeptTestsEnded'
  BY <1>a, DisjointAssumption DEF KeptTestsEnded
<1>5. WaitingRuns'
  <2> SUFFICES ASSUME NEW r \in Runs, testRun'[r] = "discovering"
               PROVE  \E e \in Discoveries : discovery'[e] = "active" /\ caller'[e] = r
    BY DEF WaitingRuns
  <2>1. testRun[r] = "discovering" /\ caller[d] # r
    BY <1>a DEF ContinueRun, RunTestImpl
  <2>2. PICK e \in Discoveries : discovery[e] = "active" /\ caller[e] = r
    BY <2>1 DEF ManagerInvariant, WaitingRuns
  <2> QED
    BY <1>a, <2>1, <2>2
<1> QED
  BY <1>1, <1>2, <1>3, <1>4, <1>5 DEF ManagerInvariant

LEMMA ManagerStep == ManagerInvariant /\ [Next]_vars => ManagerInvariant'
<1> SUFFICES ASSUME ManagerInvariant, [Next]_vars
             PROVE  ManagerInvariant'
  OBVIOUS
<1> USE DEF testVars, tokenVars
<1>a. TypeOK
  BY DEF ManagerInvariant
<1>b. autoDiscoverTimer \in BOOLEAN
  BY <1>a DEF TypeOK
<1>1. ASSUME Discover(Stopped) \/ Discover({}), autoDiscoverTimer' \in BOOLEAN
      PROVE  ManagerInvariant'
  BY <1>1, StartDiscoveryKeeps DEF Discover
<1>2. CASE DiscoverTests \/ SelectAndRun
  BY <1>b, <1>1, <1>2 DEF DiscoverTests, SelectAndRun
<1>3. CASE AutoDiscoverTimerFires
  <2>1. CASE Available
    <3>1. Discover({})
      BY <1>3, <2>1 DEF AutoDiscoverTimerFires
    <3>2. autoDiscoverTimer' \in BOOLEAN
      BY <1>3 DEF AutoDiscoverTimerFires
    <3> QED
      BY <1>1, <3>1, <3>2
  <2>2. CASE ~Available
    <3>1. /\ UNCHANGED <<status, testVars, tokenVars, discovery, caller, testRun>>
          /\ autoDiscoverTimer' = FALSE
      BY <1>3, <2>2 DEF AutoDiscoverTimerFires
    <3>2. TypeOK'
      BY <1>a, <3>1 DEF TypeOK
    <3>3. /\ TokensAreLive' /\ CancelledNeverKept' /\ StorageAgrees'
          /\ BusyIsTrue' /\ WaitingRuns' /\ KeptTestsEnded'
      BY <3>1
      DEF ManagerInvariant, TokensAreLive, CancelledNeverKept, StorageAgrees, BusyIsTrue,
          WaitingRuns, KeptTestsEnded, Available
    <3> QED
      BY <3>2, <3>3 DEF ManagerInvariant
  <2> QED
    BY <2>1, <2>2
<1>4. CASE DocumentSavedCached
  BY <1>4
  DEF DocumentSavedCached, ManagerInvariant, TypeOK, TokensAreLive, CancelledNeverKept,
      StorageAgrees, BusyIsTrue, WaitingRuns, KeptTestsEnded, Available, Statuses
<1>5. CASE DocumentSavedUncached
  <2>1. PICK d \in Discoveries : StartDiscovery(d, "save")
    BY <1>5 DEF DocumentSavedUncached
  <2> QED
    BY <1>b, <1>5, <2>1, StartDiscoveryKeeps DEF DocumentSavedUncached
<1>6. CASE Stop
  <2>1. tests \notin Stopped
    BY DisjointAssumption DEF ManagerInvariant, TypeOK, TokensAreLive, KeptTestsEnded, Stopped
  <2>2. cancelled' \subseteq Discoveries \union Runs
    BY <1>a, <1>6 DEF Stop, TypeOK, Stopped
  <2> QED
    BY <1>6, <2>1, <2>2
    DEF Stop, ManagerInvariant, TypeOK, TokensAreLive, CancelledNeverKept, StorageAgrees,
        BusyIsTrue, WaitingRuns, KeptTestsEnded, Available
<1>7. ASSUME NEW d \in Discoveries, DiscoverySucceeds(d)
      PROVE  ManagerInvariant'
  <2>1. autoDiscoverTimer' \in BOOLEAN
    BY <1>b, <1>7 DEF DiscoverySucceeds
  <2> QED
    BY <1>7, <2>1, DiscoveryEndKeeps DEF DiscoverySucceeds, Accepted
<1>8. ASSUME NEW d \in Discoveries, DiscoveryFails(d)
      PROVE  ManagerInvariant'
  BY <1>b, <1>8, DiscoveryEndKeeps DEF DiscoveryFails, FailureStatus, FailureStored
<1>9. ASSUME NEW r \in Runs, RunCachedTests(r)
      PROVE  ManagerInvariant'
  <2>1. CancelledNeverKept'
    BY <1>9, DisjointAssumption
    DEF RunCachedTests, ManagerInvariant, TypeOK, CancelledNeverKept, Superseded, HaveTests
  <2>2. TypeOK' /\ TokensAreLive' /\ StorageAgrees' /\ KeptTestsEnded'
    BY <1>9
    DEF RunCachedTests, RunTestImpl, ManagerInvariant, TypeOK, TokensAreLive, StorageAgrees,
        KeptTestsEnded, Superseded, Statuses
  <2>3. BusyIsTrue' /\ WaitingRuns'
    BY <1>9
    DEF RunCachedTests, RunTestImpl, ManagerInvariant, TypeOK, BusyIsTrue, WaitingRuns, Available
  <2> QED
    BY <2>1, <2>2, <2>3 DEF ManagerInvariant
<1>10. ASSUME NEW r \in Runs, DiscoverForRun(r)
       PROVE  ManagerInvariant'
  <2>1. PICK d \in Discoveries : StartDiscovery(d, r)
    BY <1>10 DEF DiscoverForRun
  <2> QED
    BY <1>b, <1>10, <2>1, StartDiscoveryKeeps DEF DiscoverForRun
<1>11. ASSUME NEW r \in Runs, RunEnds(r)
       PROVE  ManagerInvariant'
  <2>1. PICK s \in {"idle", "error"} : EndRun(r, s)
    BY <1>11 DEF RunEnds, RunSucceeds, RunFails
  <2>2. TypeOK' /\ TokensAreLive'
    BY <2>1 DEF EndRun, DisposedToken, ManagerInvariant, TypeOK, TokensAreLive, Statuses
  <2>3. CancelledNeverKept' /\ StorageAgrees' /\ KeptTestsEnded'
    BY <2>1 DEF EndRun, ManagerInvariant, CancelledNeverKept, StorageAgrees, KeptTestsEnded
  <2>4. BusyIsTrue' /\ WaitingRuns'
    BY <2>1 DEF EndRun, ManagerInvariant, TypeOK, BusyIsTrue, WaitingRuns, Available
  <2> QED
    BY <2>2, <2>3, <2>4 DEF ManagerInvariant
<1>12. CASE UNCHANGED vars
  BY <1>12
  DEF vars, ManagerInvariant, TypeOK, TokensAreLive, CancelledNeverKept, StorageAgrees,
      BusyIsTrue, WaitingRuns, KeptTestsEnded, Available
<1> QED
  BY <1>2, <1>3, <1>4, <1>5, <1>6, <1>7, <1>8, <1>9, <1>10, <1>11, <1>12
  DEF Next, DiscoveryEnds

LEMMA ManagerInit == Init => ManagerInvariant
  BY DisjointAssumption
  DEF Init, ManagerInvariant, TypeOK, TokensAreLive, CancelledNeverKept, StorageAgrees,
      BusyIsTrue, WaitingRuns, KeptTestsEnded, Available, Statuses

\* The invariant of the test manager, for any numbers of discoveries and runs.
THEOREM ManagerCorrect == Spec => []ManagerInvariant
<1>1. Init => ManagerInvariant
  BY ManagerInit
<1>2. ManagerInvariant /\ [Next]_vars => ManagerInvariant'
  BY ManagerStep
<1> QED
  BY <1>1, <1>2, PTL DEF Spec

\* The manager never keeps what a cancelled discovery found, and the code lenses
\* read the tests the manager runs (baseTestManager.ts:114-163).
THEOREM KeptTestsCorrect == Spec => [](CancelledNeverKept /\ StorageAgrees)
<1>1. ManagerInvariant => CancelledNeverKept /\ StorageAgrees
  BY DEF ManagerInvariant
<1> QED
  BY <1>1, ManagerCorrect, PTL

\* The status never locks discovery out (unittests/main.ts:145).
THEOREM NeverLockedOut == Spec => []BusyIsTrue
<1>1. ManagerInvariant => BusyIsTrue
  BY DEF ManagerInvariant
<1> QED
  BY <1>1, ManagerCorrect, PTL
=============================================================================
