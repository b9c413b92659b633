------------------------------ MODULE TestRun ------------------------------
(***************************************************************************)
(* Running tests.  The unittest runner starts the launcher script for one  *)
(* selection after the other, each of which reports its results over a     *)
(* socket to the UnitTestSocketServer of the run; the pytest and nosetest  *)
(* runners start one process, which writes its results to a temporary file *)
(* when it ends.  All runs write to the one collection of tests of the     *)
(* test manager, and stop reaches the run whose token the manager holds.   *)
(*                                                                         *)
(* A run here is one that does not debug.  The launchers of a run use      *)
(* sockets of their own, but the server has one buffer for all: the model  *)
(* takes it that what a launcher sent is read before the next one connects *)
(* (both are on this machine), though perhaps after the launcher closed.   *)
(***************************************************************************)
EXTENDS TestResults

CONSTANTS
    MaxRuns,     \* bound: the runs of a behaviour
    Strangers,   \* tests that are reported and not in the tree (setUpClass, ...)
    Selections,  \* what each framework can run: a sequence of the tests of each target
    AllTests,    \* the selection of each that runs everything
    Reportable,  \* bound: the outcomes that processes report
    None

Runs == 1 .. MaxRuns
Outcomes == {"passed", "failed", "error", "skipped"}

\* unittest; and pytest and nosetests.
Frameworks == {"unittest", "xml"}

ASSUME RunAssumption ==
    /\ MaxRuns \in Nat /\ None \notin Runs
    /\ Reportable \subseteq Outcomes
    /\ \A k \in Frameworks : AllTests[k] \in Selections[k]
    /\ Strangers \cap TestFunctions = {}
    /\ \A k \in Frameworks : \A s \in Selections[k] :
          s \in Seq(Seq(TestFunctions \union Strangers)) /\ s # << >>

VARIABLES
    framework,    \* "unittest", or "xml" for pytest and nosetest
    failFast,     \* the arguments of the user have -f
    status,       \* status[f]: the status of test function f
    passed,       \* passed[f], which only the xml results set
    tree,         \* passed of suites, files and folders
    summary,      \* the counts of the status bar
    phase,        \* phase[r]: how far run r is
    targets,      \* targets[r]: the targets of r not started yet
    launcher,     \* launcher[r]: its process
    todo,         \* todo[r]: the tests the process has not run yet
    pipe,         \* pipe[r]: what its launchers wrote and the server has not read
    buffer,       \* ipcBuffer of the server of r
    xml,          \* xml[r]: the results in its temporary file, None while it is empty
    runnerToken,  \* the run whose token the test manager holds
    stopped,      \* runs whose token was cancelled
    reported,     \* ghost: reported[r]: the results its launchers sent
    handled,      \* ghost: handled[r]: the results the runner was given
    shown,        \* ghost: the run whose results the summary counts,
    mixed         \* ghost: unless an earlier run was given results since it started

results == <<status, passed, tree, summary>>
process == <<launcher, todo, xml>>
stream == <<pipe, buffer>>
tokens == <<runnerToken, stopped>>
ghosts == <<reported, handled, shown, mixed>>
vars == <<framework, failFast, results, phase, targets, process, stream, tokens, ghosts>>

Tests == TestFunctions \union Strangers
Results == [test : Tests, outcome : Outcomes]
NoSummary == [o \in Outcomes |-> 0]

Init ==
    /\ framework \in Frameworks
    /\ failFast \in IF framework = "unittest" THEN BOOLEAN ELSE {FALSE}
    /\ status = [f \in TestFunctions |-> "unknown"]
    /\ passed = [f \in TestFunctions |-> "none"]
    /\ tree = [n \in Suites \union Files \union Folders |-> "none"]
    /\ summary = NoSummary
    /\ phase = [r \in Runs |-> "new"]
    /\ targets = [r \in Runs |-> << >>]
    /\ launcher = [r \in Runs |-> "none"]
    /\ todo = [r \in Runs |-> << >>]
    /\ pipe = [r \in Runs |-> << >>]
    /\ buffer = [r \in Runs |-> << >>]
    /\ xml = [r \in Runs |-> None]
    /\ runnerToken = None
    /\ stopped = {}
    /\ reported = [r \in Runs |-> << >>]
    /\ handled = [r \in Runs |-> << >>]
    /\ shown = None
    /\ mixed = FALSE

-----------------------------------------------------------------------------
(* The frames of the socket: a header with the length of the body, sent    *)
(* before it, and the body, which TCP may cut anywhere.                    *)

\* A result with a traceback is longer.
Length(result) == IF result.outcome \in {"failed", "error"} THEN 2 ELSE 1
Header(result) == <<[of |-> result, part |-> 0]>>
Body(result) == [i \in 1 .. Length(result) |-> [of |-> result, part |-> i]]
Tokens == [of : Results, part : 0 .. 2]

\* The first brace and, between the first colon and it, the length of the message.
StartIndex(b) == SelectInSeq(b, LAMBDA token : token.part = 1)
LengthOfMessage(b) == Length(b[1].of)

\* A whole message is there.
HasMessage(b) ==
    StartIndex(b) # 0 /\ Len(b) >= StartIndex(b) + LengthOfMessage(b) - 1

Message(b) == SubSeq(b, StartIndex(b), StartIndex(b) + LengthOfMessage(b) - 1)

\* Mutant: the buffer is cleared after a message.
NoRest(b) == << >>

Rest(b) == SubSeq(b, StartIndex(b) + LengthOfMessage(b), Len(b))

\* JSON.parse throws on anything else, and the buffer stays as it is.
Parses(m) == m = Body(m[1].of)

\* The loop over the data: the results handled and the buffer left.
Drain(b) ==
    LET after[k \in 0 .. Len(b)] ==
          IF k = 0 THEN [rest |-> b, results |-> << >>]
          ELSE LET p == after[k - 1]
               IN IF HasMessage(p.rest) /\ Parses(Message(p.rest))
                  THEN [rest |-> Rest(p.rest),
                        results |-> Append(p.results, Message(p.rest)[1].of)]
                  ELSE p
    IN after[Len(b)]

-----------------------------------------------------------------------------
(* The run.                                                                *)

\* outcomeMapping.
StatusOf(outcome) ==
    CASE outcome = "passed" -> "pass" [] outcome = "failed" -> "fail" [] OTHER -> outcome

\* Where the results of a test are, the outcome of the last of them, and the number
\* of results with an outcome.
OfTest(rs, t) == {i \in DOMAIN rs : rs[i].test = t}
Latest(rs, t) == rs[Max(OfTest(rs, t))].outcome
Count(rs, o) == Cardinality({i \in DOMAIN rs : rs[i].outcome = o})

\* What a run runs: what was selected; or the functions that failed, one by one; or
\* everything when none did, as pytest and nosetests do with their own record of them.
FailedFunctions == SetToSeq({f \in TestFunctions : status[f] \in {"fail", "error"}})
TestsToRun ==
    Selections[framework] \union
    {IF FailedFunctions = << >> THEN AllTests[framework]
     ELSE [i \in DOMAIN FailedFunctions |-> <<FailedFunctions[i]>>]}

\* Mutant: the summary goes on from the last run.
KeptSummary == summary

\* The unittest runner sets the summary to zero before it starts.
StartSummary == IF framework = "unittest" THEN NoSummary ELSE summary

\* runTest of the test manager, which cancels the run before, and of the runner, up
\* to the start of the server or the creation of the temporary file.
RunTest(r) ==
    /\ phase[r] = "new" /\ \A q \in 1 .. r - 1 : phase[q] # "new"
    /\ phase' = [phase EXCEPT ![r] = "starting"]
    /\ \E selection \in TestsToRun :
          targets' = [targets EXCEPT ![r] =
             IF framework = "unittest" THEN selection ELSE <<FlattenSeq(selection)>>]
    /\ stopped' = stopped \union ({runnerToken} \ {None})
    /\ runnerToken' = r
    /\ summary' = StartSummary
    /\ IF framework = "unittest"
       THEN shown' = r /\ mixed' = FALSE
       ELSE UNCHANGED <<shown, mixed>>
    /\ UNCHANGED <<framework, failFast, status, passed, tree, process, stream, reported, handled>>

\* runTestInternal: the next target in a process of its own, also when the token
\* has been cancelled.
StartLauncher(r) ==
    /\ launcher' = [launcher EXCEPT ![r] = "spawning"]
    /\ todo' = [todo EXCEPT ![r] = Head(targets[r])]
    /\ targets' = [targets EXCEPT ![r] = Tail(@)]

\* The server listens, or the temporary file is there.
Started(r) ==
    /\ phase[r] = "starting"
    /\ phase' = [phase EXCEPT ![r] = "running"]
    /\ StartLauncher(r)
    /\ UNCHANGED <<framework, failFast, results, xml, stream, tokens, ghosts>>

\* The promise of the run settles: the manager disposes of the token it holds.
Settle(r, how) ==
    /\ phase' = [phase EXCEPT ![r] = how]
    /\ runnerToken' = None

\* The server, the file or the process could not be created.
RunFails(r) ==
    /\ \/ phase[r] = "starting"
       \/ launcher[r] = "spawning"
    /\ Settle(r, "rejected")
    /\ launcher' = [launcher EXCEPT ![r] = "none"]
    /\ UNCHANGED <<framework, failFast, results, targets, todo, xml, stream, stopped, ghosts>>

-----------------------------------------------------------------------------
(* The process.                                                            *)

\* The launcher has connected, or pytest has started.
ProcessStarts(r) ==
    /\ launcher[r] = "spawning"
    /\ launcher' = [launcher EXCEPT ![r] = "running"]
    /\ UNCHANGED <<framework, failFast, results, phase, targets, todo, xml, stream, tokens, ghosts>>

\* sendResult of the launcher.
SendResult(r) ==
    /\ framework = "unittest"
    /\ launcher[r] = "running" /\ todo[r] # << >>
    /\ \E o \in Reportable :
          LET result == [test |-> Head(todo[r]), outcome |-> o]
          IN /\ pipe' = [pipe EXCEPT ![r] = @ \o Header(result) \o Body(result)]
             /\ reported' = [reported EXCEPT ![r] = Append(@, result)]
    /\ todo' = [todo EXCEPT ![r] = Tail(@)]
    /\ UNCHANGED <<framework, failFast, results, phase, targets, launcher, xml, buffer, tokens,
                   handled, shown, mixed>>

\* All tests ran.  Only now does pytest or nose write results.
ProcessEnds(r) ==
    /\ launcher[r] = "running"
    /\ launcher' = [launcher EXCEPT ![r] = "exited"]
    /\ IF framework = "unittest"
       THEN todo[r] = << >> /\ UNCHANGED xml
       ELSE \E outcomes \in [DOMAIN todo[r] -> Reportable] :
               xml' = [xml EXCEPT ![r] =
                  [i \in DOMAIN todo[r] |-> [test |-> todo[r][i], outcome |-> outcomes[i]]]]
    /\ UNCHANGED <<framework, failFast, results, phase, targets, todo, stream, tokens, ghosts>>

\* A process whose token was cancelled is killed, perhaps between a header and its
\* body; another one may crash in a test.
ProcessDies(r) ==
    /\ launcher[r] \in {"spawning", "running"}
    /\ launcher' = [launcher EXCEPT ![r] = "exited"]
    /\ \/ UNCHANGED pipe
       \/ /\ framework = "unittest" /\ r \in stopped
          /\ launcher[r] = "running" /\ todo[r] # << >>
          /\ \E o \in Reportable :
                pipe' = [pipe EXCEPT ![r] = @ \o Header([test |-> Head(todo[r]), outcome |-> o])]
    /\ UNCHANGED <<framework, failFast, results, phase, targets, todo, xml, buffer, tokens, ghosts>>

-----------------------------------------------------------------------------
(* What the extension makes of it.                                         *)

NewStatus(rs) ==
    [f \in TestFunctions |->
       IF OfTest(rs, f) = {} THEN status[f] ELSE StatusOf(Latest(rs, f))]

\* With fail-fast a result of a function that failed stops the test manager.
FailureStops(rs) ==
    failFast /\ \E i \in DOMAIN rs :
       rs[i].test \in TestFunctions /\ rs[i].outcome \in {"failed", "error"}

\* Data arrives at the server of r, cut anywhere; the listener of its results
\* outlives the run.
ReadSocket(r) ==
    /\ \E n \in 1 .. Len(pipe[r]) :
          LET drained == Drain(buffer[r] \o SubSeq(pipe[r], 1, n))
              rs == drained.results
          IN /\ pipe' = [pipe EXCEPT ![r] = SubSeq(@, n + 1, Len(@))]
             /\ buffer' = [buffer EXCEPT ![r] = drained.rest]
             /\ handled' = [handled EXCEPT ![r] = @ \o rs]
             /\ status' = NewStatus(rs)
             /\ summary' = [o \in Outcomes |-> summary[o] + Count(rs, o)]
             /\ stopped' = IF FailureStops(rs) THEN stopped \union ({runnerToken} \ {None})
                           ELSE stopped
             /\ mixed' = (mixed \/ (rs # << >> /\ r # shown))
    /\ UNCHANGED <<framework, failFast, passed, tree, phase, targets, process, runnerToken,
                   reported, shown>>

\* Mutant: the cancellation also removes the listeners of the process.
ClosedUnlessStopped(r) == launcher[r] = "exited" /\ r \notin stopped

\* The observable of the process completes with its close, however it ended.
Closed(r) == launcher[r] = "exited"

\* The close of the process: the runner goes on with the next target, or rolls the
\* results up.
TargetEnds(r) ==
    /\ framework = "unittest"
    /\ Closed(r)
    /\ IF targets[r] # << >>
       THEN StartLauncher(r) /\ UNCHANGED <<phase, runnerToken, tree>>
       ELSE /\ tree' = UpdateResults(passed)
            /\ Settle(r, "resolved")
            /\ launcher' = [launcher EXCEPT ![r] = "none"]
            /\ UNCHANGED <<targets, todo>>
    /\ UNCHANGED <<framework, failFast, status, passed, summary, xml, stream, stopped, ghosts>>

\* The close of pytest or nosetests: its results are read.
XmlRunEnds(r) ==
    /\ framework = "xml"
    /\ Closed(r)
    /\ launcher' = [launcher EXCEPT ![r] = "none"]
    /\ phase' = [phase EXCEPT ![r] = "reading"]
    /\ UNCHANGED <<framework, failFast, results, targets, todo, xml, stream, tokens, ghosts>>

\* updateResultsFromXmlLogFile and updateResults.
UpdateFromXml(r) ==
    LET new == [f \in TestFunctions |->
                  IF OfTest(xml[r], f) = {} THEN passed[f]
                  ELSE CASE Latest(xml[r], f) = "passed"  -> "yes"
                         [] Latest(xml[r], f) = "skipped" -> "none"
                         [] OTHER                         -> "no"]
    IN /\ passed' = new
       /\ tree' = UpdateResults(new)
       /\ status' = NewStatus(xml[r])
       /\ summary' = [o \in Outcomes |-> Count(xml[r], o)]

\* The file is read.
ReadXml(r) ==
    /\ phase[r] = "reading" /\ xml[r] # None
    /\ UpdateFromXml(r)
    /\ Settle(r, "resolved")
    /\ handled' = [handled EXCEPT ![r] = xml[r]]
    /\ shown' = r
    /\ UNCHANGED <<framework, failFast, targets, process, stream, stopped, reported, mixed>>

\* When it is empty the parser yields null, and the property of null is read where no
\* promise is rejected by it: the run never settles.  A file that cannot be read or
\* parsed rejects.
ReadXmlFails(r) ==
    /\ phase[r] = "reading"
    /\ \/ xml[r] = None /\ phase' = [phase EXCEPT ![r] = "hung"] /\ UNCHANGED runnerToken
       \/ Settle(r, "rejected")
    /\ UNCHANGED <<framework, failFast, results, targets, process, stream, stopped, ghosts>>

\* stop of the test manager.
Stop ==
    /\ stopped' = stopped \union ({runnerToken} \ {None})
    /\ UNCHANGED <<framework, failFast, results, phase, targets, process, stream, runnerToken,
                   ghosts>>

-----------------------------------------------------------------------------
ProcessEvent(r) == ProcessStarts(r) \/ SendResult(r) \/ ProcessEnds(r) \/ ProcessDies(r)
RunEvent(r) == Started(r) \/ RunFails(r) \/ TargetEnds(r) \/ XmlRunEnds(r)
               \/ ReadXml(r) \/ ReadXmlFails(r)

Next ==
    \/ Stop
    \/ \E r \in Runs : RunTest(r) \/ ProcessEvent(r) \/ RunEvent(r) \/ ReadSocket(r)

Spec == Init /\ [][Next]_vars

\* Tests end, processes close and the event loop comes to what follows: of all that
\* can happen to runs something does.
Fairness == WF_vars(\E r \in Runs : ProcessEvent(r) \/ RunEvent(r))

FairSpec == Spec /\ Fairness

-----------------------------------------------------------------------------
(* Properties.                                                             *)

\* Every variable has its type.
TypeOK ==
    /\ framework \in Frameworks /\ failFast \in BOOLEAN
    /\ status \in [TestFunctions -> {"unknown", "pass", "fail", "error", "skipped"}]
    /\ passed \in [TestFunctions -> Verdicts]
    /\ tree \in [Suites \union Files \union Folders -> Verdicts]
    /\ summary \in [Outcomes -> Nat]
    /\ phase \in [Runs -> {"new", "starting", "running", "reading", "resolved", "rejected", "hung"}]
    /\ targets \in [Runs -> Seq(Seq(Tests))]
    /\ launcher \in [Runs -> {"none", "spawning", "running", "exited"}]
    /\ todo \in [Runs -> Seq(Tests)]
    /\ pipe \in [Runs -> Seq(Tokens)] /\ buffer \in [Runs -> Seq(Tokens)]
    /\ xml \in [Runs -> Seq(Results) \union {None}]
    /\ runnerToken \in Runs \union {None} /\ stopped \subseteq Runs
    /\ reported \in [Runs -> Seq(Results)] /\ handled \in [Runs -> Seq(Results)]
    /\ shown \in Runs \union {None} /\ mixed \in BOOLEAN

\* The results in a part of the stream, in order: the bodies that begin there.
Waiting(b) == FlattenSeq([i \in DOMAIN b |-> IF b[i].part = 1 THEN <<b[i].of>> ELSE << >>])

\* Whatever the pieces in which the frames arrive and whichever launcher is killed
\* in the middle of one, the results that the runner was given are those that were
\* sent, in order, but for those still on the way: none is lost, doubled or garbled.
\* Those of a run that was not stopped do not wait for another one to arrive.
ResultsConserved ==
    \A r \in Runs : framework = "unittest" =>
       /\ reported[r] = handled[r] \o Waiting(buffer[r] \o pipe[r])
       /\ r \notin stopped => ~HasMessage(buffer[r])

\* The types, and no result of a run lost, doubled, garbled or out of order.
RunInvariant == TypeOK /\ ResultsConserved

\* The status bar counts, and the code lenses show, the results of one run, unless
\* an earlier one was given results after it started.
SummaryAgrees ==
    shown # None /\ ~mixed =>
       /\ \A o \in Outcomes : summary[o] = Count(handled[shown], o)
       /\ \A f \in TestFunctions : OfTest(handled[shown], f) # {} =>
             status[f] = StatusOf(Latest(handled[shown], f))

\* Once a run ended, what is said of classes, files and folders agrees with their
\* functions.
RollUpAgrees == (\E r \in Runs : phase[r] = "resolved") => TellsOfFunctions(tree, passed)

\* A run settles, whatever is stopped, killed or superseded: except one of pytest or
\* nosetests whose process wrote no results.
EveryRunSettles ==
    \A r \in Runs : phase[r] = "starting" ~>
       phase[r] \in {"resolved", "rejected"} \/ (phase[r] = "hung" /\ framework = "xml")
=============================================================================
