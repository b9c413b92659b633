# Verification of the Python extension for Visual Studio Code

This directory keeps a formal model of the extension beside its source. The TLA+
modules are translated from the TypeScript under `src/client` and from the Python
programs under `pythonFiles` that the extension starts: the completion server, the
test launcher and the debugger; the `.cfg` files check them with TLC on small instances; the `*Proofs`
modules prove the properties that matter most for every value of the constants.

Paths below are relative to `src/src/client` unless they start with `src/`.

1. [The system](#1-the-system): components, state, operations, hazards
2. [Modules](#2-modules): what each models, and how it corresponds to the code
3. [Runs](#3-runs): what each checks and shows, bounds, fairness
4. [Proofs](#4-proofs): theorems, assumptions, inductive invariants
5. [Finding and divergences](#5-finding-and-divergences)
6. [Not modelled](#6-not-modelled)

## 1. The system

The extension runs in one JavaScript thread, the extension host of the editor. A
callback runs to its end before another one starts, so what can interleave is what
is separated by an `await`, a timer, an event or the output of another process.
Outside that thread are the Python processes it starts (completion, linters,
formatters, test runners, debuggee), the debug adapter, which is a process of its
own with one JavaScript thread, and the editor that calls the providers. The
debugger in the debuggee is the one part with threads in the ordinary sense: those
of the program, each under a trace function, and one that reads commands.

| component | state it keeps | operations | what is hard | correct when |
|---|---|---|---|---|
| **Jedi proxy** (`providers/jediProxy.ts`, `languageServices/jediProxyFactory.ts`, `src/pythonFiles/completion.py`) | map and queue of pending requests, partial output, the process, the deferred that says it has started | send, cancel, answer, limit the queue, restart, respawn, check the memory | answers out of date, restarts in the middle of an answer, overlapping spawns, crashes | queue and map agree; no caller is forgotten; only the latest request of a kind is answered; what waits for a start or an answer settles |
| **Language features** (`providers/*`) | debounce timers, last completions | completions, hovers, definitions, symbols, signatures, rename | superseded and cancelled requests | each request of the editor settles; a debounced one is superseded by the next |
| **Linting** (`linters/*`, `providers/linterProvider.ts`) | pending passes, diagnostics per document | lint on open, save and configuration change; clear on close | passes that overlap; a superseded pass that finishes late | one live pass per document; only a cancelled pass shows outdated problems; every pass ends |
| **Unit test manager** (`unittests/common/managers`, `unittests/main.ts`) | cached tests and their copy in the storage, status, tokens of discovery and run | discover, run, stop, automatic discovery after a save | discovery and run overlap, cancellation at each await | tokens belong to something in progress; nothing cancelled is kept; never locked out; a run that waits for a discovery goes on |
| **Test runners and results** (`unittests/*/runner.ts`, `unittests/unittest/socketServer.ts`, `xUnitParser.ts`, `testResultsService.ts`) | socket server with a frame buffer, counters, fail-fast flag, status of each test | run targets one after another, parse frames and xml files, roll results up | frames split over packets or cut off by a kill, results of a superseded run | results are handled in order, once; counts and tree agree with them; every run settles |
| **Interpreters** (`interpreter/*`) | promise and persisted list per locator, status bar | locate, cache, merge, display | a cache that answers while it is filled; concurrent refreshes | callers get a list that was found; the status bar shows the active folder |
| **Debug adapter** (`debugger/*`) | socket stream with transactions, ids, commands without an answer, breakpoint registries, state of launch and end | launch, attach, handshake, breakpoints, evaluate, step, terminate | commands and events that cross, partial frames rolled back, early exits | ids are not shared; answers reach their asker; breakpoints agree with the editor; each stop and the end are told |
| **Debugger backend** (`src/pythonFiles/PythonTools/visualstudio_py_debugger.py`) | threads with their locks, flags and stepping counters; breakpoints, bound and pending; modules | trace calls, lines and returns; stop, park, work, leave; set and remove breakpoints, break, step, resume, evaluate, detach | threads and the command loop share variables without locks; a lock that is a semaphore for two purposes; breakpoints set while modules are imported | a thread leaves when it is resumed and not before; no evaluation is left unanswered; what is shown as set stops the program; a step stops in its scope |
| **Terminals** (`terminals/*`, `common/terminal/*`) | terminal per folder and title, REPL state | create, activate, send, close | a terminal closed while it is activated; concurrent creation | the service knows its one open terminal; code reaches Python; every call ends |
| **Installer** (`common/installer/*`) | prompts that are shown | check, prompt, install | repeated prompts | one prompt per product and folder |
| **Activation and the Microsoft language server** (`activation/*`) | download and start-up state | download, extract, start, restart, fall back to Jedi | a change of the interpreter during a restart, overlapping restarts, failures at each await | one server runs, with the configured interpreter, and the next change is heard |
| **Settings and environment** (`common/configSettings.ts`, `common/variables/*`) | settings per folder, parsed `.env` files, watchers | read, merge, watch, notify | a file that changes while it is read | the cache agrees with the file once changes were told |
| **Processes** (`common/process/*`, `common/helpers.ts`, `common/decorators.ts`) | child process, deferred, buffers | exec, exec with streamed output, debounce | exit before close, cancel during output | a promise settles when the process has closed |
| **Formatters and refactoring** (`formatters/*`, `typeFormatters/*`, `refactor/*`, `providers/formatProvider.ts`) | flags of format on save, refactoring process and its output | format, format on type, extract, rename | the editor's limit for formatting on save; a process that dies | edits belong to the text they were computed from |
| **Tokenizer** (`language/*`) | none between calls | tokenize, count braces, ranges | unterminated strings, boundaries | tokens cover the text in order |
| **Workspace symbols** (`workspaceSymbols/*`) | tags file, watchers | generate, search | a search while tags are written | a search sees a whole file |
| **Telemetry, logging, platform, IoC, Jupyter glue, editor wrappers** | little | pass calls on | nothing a model tells apart | |

How they interact: the providers send requests through `JediProxyHandler` to the
one `JediProxy` of a workspace folder; settings, interpreter and environment
changes restart it and trigger linting; linters, formatters and test runners are
processes of `common/process/proc.ts`; the test manager hands the cancellation
token of a run to a runner, which changes the shared tree of tests that the code
lenses read; the debug adapter talks to the editor by requests, responses and
events and to the debugger in the program by frames on a socket; the language
server is restarted by the same event of the interpreter that restarts linting.

`PROJECT.json` lists the hazards of this code, each at its line, with the properties
that would show one of them going wrong. Where the code gives in to a hazard no property
can exclude it: such a hazard, or that half of it, has a note instead, and section 5
describes what happens.

## 2. Modules

| module | models | extends or instantiates |
|---|---|---|
| `JediProxy` | the proxy, the process and the pipes between them | |
| `RequestLedger` | what callers may expect of the proxy; `JediProxy` implements it | instantiated by `JediProxy` |
| `LintingEngine` | passes over documents and the events that start, cancel and clear them | |
| `TestManager` | discoveries and runs, tokens, status, caches | |
| `TestResults` | how results are rolled up the tree of tests | |
| `TestRun` | the runners, their processes, frames and results | `TestResults` |
| `PythonProcess` | the adapter's end of the connection to the debuggee | |
| `DebugSession` | launch, breakpoints, hits and the end of a session | |
| `DebuggerThreads` | the threads of the debuggee, their locks and the command loop | |
| `DebuggerTracing` | one thread under the trace function: breakpoints, steps, modules | |
| `TerminalExecution` | the terminal service and the REPL in its terminal | |
| `LanguageServer` | the activation and the restarts of the Microsoft language server | |
| `…Proofs` | the theorems about the module of that name | that module, `TLAPS` |
| `LanguageEngineProofs` | the theorems about `JediProxy` and `LanguageServer`, the two engines of the language features | both, `TLAPS` |
| `MC…` | the instance of the module of that name that TLC checks | that module |

All modules follow the same reading of JavaScript: what a callback does up to its
next `await` is one action, what resumes after an `await` is an action of its own,
and what follows in the same turn of the event loop is part of the same action.
Where one callback handles several messages (the answers in one data event, the
frames in one buffer), each message is a step and every other callback is disabled
until the loop is at its end. A Python process appears as what it may write,
answer or fail to answer; its actions are marked external in the map.

### `JediProxy`

`sendCommand` of `JediProxyHandler` is `SendCommand` (it cancels the request of its
kind before it) or `SendNonCancellableCommand` (the token is the editor's). The
call of `JediProxy.sendCommand` then suspends twice: on `initialized`
(`AwaitLanguageServer`) and on the deferred `languageServerStarted` held at that
moment (`waitsFor`; `WriteCommand`, `WriteFails`, `SendFails`). `phase[r]` is the
await that call is at, `result[r]` what its promise settled with. `commands` and
`commandQueue` are the map and the array; `Spliced` keeps `if (index)
splice(index, 1)` with its treatment of 0 and −1, `Excess`, `Dropped` and
`Trimmed` are `checkQueueLength`. `spawnProcess` is `BeginSpawn` and one of
`SpawnSucceeds`, `SpawnFindsNoPython` and `SpawnThrows`, with an unbounded time in
between, so that spawns overlap; the two restarts are `StartLanguageServer` and
`RestartOnChange`; `RespawnAfterError` and `ErrorAfterLastRetry` are the error
callback. A response is two pieces in the pipe; `ReadData` takes any number of
pieces and parses them or keeps them in `previousData`, and the loop over what was
parsed is `IgnoreResponse`, `ExpireResponse` or `AnswerRequest` for each. `answers` is
history: whether the process has written the answer to a request in full, or raised. The
memory check only appears as one more reason for `RestartOnChange`, which it calls
in the same way.

Abstracted: arguments and answers (a request is its number), the JSON text (two
pieces stand for "complete or not"), telemetry.

### `RequestLedger`

A list of open requests, those withdrawn, and outcomes. A request is opened or
refused; the answer to an open one that was not withdrawn settles it and gives up
the oldest beyond the limit; a withdrawn one is abandoned; a restart abandons all.
`JediProxy` implements it with `open` = the queue without the stale id at its head.

### `LintingEngine`

`LintDocuments` is `lintDocument` up to its first `await`, for one document or for
all open ones (`lintOpenPythonFiles`); `FileMissing` and `StartLinters` what follows
`fileExists` (`ReplacePending` is the cancellation of the pass before and the new
entry of `pendingLintings`, in the order the listeners run); `LinterFinishes` the
promise of a linter; the loop over the linters is `BreakWhenCancelled`,
`NextLinter`, `LastLinter` and `LinterRejects`. `OnDocumentOpened`, `…Saved`, `…Closed`,
`OnConfigFileSaved`, `TimerFires`, `OnDidChangeInterpreter`, `SettingsChange` and
`LintSettingsChangedHandler` are the events of `linterProvider.ts`. A linter is the
number of messages it reports or a rejection.

### `TestManager`

`DiscoverTests`, `SelectAndRun`, `DocumentSaved…`, `AutoDiscoverTimerFires` and `Stop`
are the entry points in `unittests/main.ts`. `StartDiscovery` is `discoverTests` up to
the process, `DiscoverySucceeds` and `DiscoveryFails` its two continuations with
`ContinueRun`, the run that awaited it, in the same step; `RunCachedTests` and
`DiscoverForRun` are `runTest` with and without cached tests, `EndRun` its end. Tokens
are named by the discovery or run they were made for. The model has the details that
decide what may overlap: `discoverTestsPromise` is never assigned, and the `catch`
reads the token the manager holds then.

### `TestResults` and `TestRun`

`TestResults` is the recursion of `testResultsService.ts` over suites, files and
folders as recursive functions, with its order and its early exits, and what the tree
is to say of the functions below (`TellsOfFunctions`). Its assumption is that the tree is
finite and nested: there is a height that is less in every part. `TestRun` has a
unittest run as a sequence of targets, each a launcher process that writes frames
(header and body, each a token in the pipe) to the one buffer of the run's server;
`ReadSocket` appends any number of tokens and drains the buffer as
`connectionListener` does (`Drain`, a recursive function). `NewStatus`, `Count` and
`FailureStops` are the handler of a result, for all results of one event at once:
the last result of a test gives its status (`Latest`), each adds to the counts.
`TargetEnds` is the loop over the targets. A pytest or nosetest run is one
process that writes `xml` when it ends; `ReadXml`, with `UpdateFromXml`, and
`ReadXmlFails` are `xUnitParser.ts`. A file that cannot be read or parsed rejects the
run. Of an empty one the parser yields null, reading its property throws in a callback,
and the promise never settles: the phase `"hung"`. `Stop`, `RunTest` and `Settle` are the part of the test
manager that touches runs.

Assumption: what a launcher sent is read before the next one connects (both
are on one machine; reads may still come after the launcher has closed).

### `PythonProcess`

`NewId` and `Free` are the `IdDispenser`, whose free list is a stack. `ExecuteText`
and `EnumChildren` are the commands with an answer that share ids; `HandleFrame`,
`HandlePartialFrame` and `HandleGreeting` are the loop of `HandleIncomingData` with
the transaction of the `SocketStream` (`RolledBack`); `TimerFires` is the timer
of an expansion, which nobody clears. A frame is two parts. `AnswersReachTheirAsker`
is what the numbers are for: the maps are keyed by id, so the model finds the entry
an answer is for by its id (`EntriesOf`) and not by the command.

### `DebugSession`

`LaunchRequest`, `SetBreakPointsRequest`, `ConfigurationDoneRequest`,
`ContinueRequest` and `DisconnectRequest` are the handlers of `Main.ts`;
`HandleMessage` is one message of the program with all that the adapter does before
it looks at the next (load, output, confirmation or failure of a breakpoint, hit,
last). Promise reactions matter here: a confirmation settles a promise whose
reaction, which registers the breakpoint, runs only after the data event; so the
model has a queue of microtasks, run in order between events. `SetBreakPoints`,
`BreakpointBound` and `AnswerBreakpoints` are the reactions that make up `setBreakPointsRequest`. The program connects,
obeys commands, hits breakpoints, prints and exits.

Assumptions on the editor, as the protocol has it: it sends `launch` first, and
`configurationDone` once, when the `setBreakpoints` requests it has sent are
answered.

### `DebuggerThreads`

A thread is a record with the fields of the `Thread` object and `at`, the place in
`trace_func`, `block_maybe_attach`, `block`, `async_break` or `run_on_thread` where
another thread can come in between: a lock, or a variable tested without one.
`block_lock`, which every wake-up takes and every resume and every piece of work
releases, is one bit: to release a lock twice is an exception in Python, and
`CanUnblock` says where it cannot happen. `ReportStop`, `Park`, `Wait`, `Acquire`,
`WakeUp`, `DoWork`, `WorkDone` and `Leave` are `block` in its order; `MarkOthers` and
`VisitStack` are what it does for the other threads with `block_starting_lock` taken.
The command loop takes one command from `inbox` at a time (`BreakAll`, `StartResume`
with `ResumeNext` for each thread, `ResumeThread`, `Evaluate`, `StartDetach` …) and
stops at the assertion or the missing key where the code raises. `releases` is a
history variable: how often a thread was resumed less how often it left.

Assumptions on the adapter, which are translated from `Main.ts` and `PythonProcess.ts`
(`Shows`, `AskFor`): it steps and evaluates on threads it shows stopped only, it does
not pause while it pauses, and evaluations wait for each other there while the
expansion of a variable does not.

### `DebuggerTracing`

One thread, with the stack of its frames, under `handle_call`, `handle_line` and
`handle_return`; the program calls, imports, executes lines and returns as it likes
in files of the user and in a library. `stepping` is the number the code keeps, with
its arithmetic (`CountCall`, `CountReturn`). A breakpoint is entered under the name of
the editor (`"asked"`) or that of the code (`"loaded"`), or is pending until its module
is imported (`Import`, `IteratePending`, `BindPending`), while `command_set_breakpoint`
is a sequence of steps of its own (`SearchModules`, `AddBound`, `AddUnbound`,
`AddPending`) that interleave with the import. How the thread then waits is a step
here and the subject of `DebuggerThreads`. `status` is what the adapter was told;
`goal` and `disturbed` are history: the step the user asked for, and whether something
else stopped the program since.

### `TerminalExecution`

`RunFile` is `executeFile`, `AwaitRepl` and `StartRepl` are `execute` with and without
a promise in `replActive`. Each sends a text by `Send`: at once to the terminal there
is (`SendNow`), whatever state it is in, or by creating one (`CreateAndWait`) and, timer
after timer, activating it (`Activate`, `Activated`, `ActivationFails`). The promise of
a REPL is named by the call that made it; `Resume` lets those that await it go on in
their order, before any other event. The user closes a terminal (`Close`) some time
before the editor reports it (`Closed`, with the listener of the provider). Texts are
only told apart by what they are for.

### `LanguageServer`

The activation and each restart is an activity: `TellSubscribers` starts one for
every subscription, `SameInterpreter`, `StopClient` and `NothingToStop` compare the
hash, `Stopped` disposes of all subscriptions and begins to activate, `Subscribe` has
the data for the options, `Start` creates the client and starts it. `Fail` is a rejection at the
await where the activity is, `StartFails` a client that does not start and stays assigned. The event comes some time after the change it tells of
(`ChangeSetting`), and the data is read anew for the comparison and for the options.
An interpreter is known by the hash of the times of its executable only; one whose
`python` tells no path is without data (`WithoutData`), and a server is restarted for
it at every event, with the empty hash (`NoHash`).

## 3. Runs

| run | question | bounds |
|---|---|---|
| `jedi_queue` | Do map and queue agree, is no caller lost, is only the latest request answered, does the proxy implement the ledger? | 3 requests of one kind, limit 1, boot and one restart, dispose |
| `jedi_settle` | Is no superseded deferred left pending, does every request settle? | 2 requests of two kinds, limit 0, all faults of python and process |
| `lint_passes` | Is there one live pass per document, where do outdated problems come from, does every pass end? | 2 documents, 2 passes, 2 linters, limit 0 |
| `tests_overlap` | Do tokens, status, cache and storage stay right when discoveries and runs overlap, and does a run that waits for a discovery go on? | 3 discoveries, 2 runs |
| `test_run` | Are results conserved, do counts and tree agree with them, does every run settle? | 2 runs that overlap, both kinds of framework, fail-fast or not |
| `python_process` | Are ids unshared, do answers reach their asker, does nothing wait for ever? | 2 evaluations, 2 expansions |
| `debug_session` | Do breakpoints agree, are hits honoured, are stops and the end told, are requests answered? | 1 file, 1 line, 3 requests, 1 stop |
| `debugger_threads` | Do flags and locks agree, does no thread leave unasked, is no resume lost, is every evaluation answered or refused? | 2 threads, the load and 2 stops (the second of every kind), 2 commands, 1 evaluation |
| `debugger_again` | *violated*: does a thread that has done its work block again, when a variable is expanded during an evaluation? | the same, with 1 expansion |
| `debugger_tracing` | Does what is shown as set stop the program and nothing else, does a step stop in its scope, and as soon as it should? | 3 frames, 2 files of 2 lines and a library, 2 breakpoints on one line, one of them conditional; any number of steps |
| `terminal` | Does the service know its one terminal, does code reach Python, does every call end? | 1 file, 2 selections, 2 terminals and a foreign one, 1 activation command |
| `language_server` | Does one server run, with the configured interpreter, and is the next change heard? | 3 interpreters, one without data and one with the same, empty hash, 4 activities |

Why the bounds are enough to be interesting:

- *Requests and spawns of the proxy.* Three requests make a queue with a head, a
  middle and an end, so the splice at 0, at −1 and beyond the limit all happen, and
  a superseded request between two others. Two spawns overlap in both orders. Two
  pieces per answer are enough to cut it, and to have two answers in one event.
- *Passes.* Two passes overlap in every order over one document or over two; two
  linters let a pass be cancelled and a document be closed between answers.
  `MaxProblems = 0` with a message per linter makes every second problem one too
  many. A third pass adds no new pair.
- *Discoveries and runs.* A discovery that was superseded, the one that superseded
  it, and one a run awaits; a run and the one that replaces it.
- *Test runs.* A second run of the tests that failed has a launcher for each; frames
  are cut, and launchers killed, between any two tokens. Bound for time: the unittest selection of all tests leaves out
  the second file, and processes report `passed` and `failed` only
  (`Reportable`); `error` is treated as `failed` is, and `skipped` leaves a test as one that
  did not run, which the tests outside the selection are too.
- *Commands of the debugger.* Two evaluations queue; two expansions are answered in
  either order and use an id again; all four mix.
- *Session.* One line is enough for a breakpoint to be added, removed and added
  again by requests that overlap, wait for the load or come late, while its hit, its
  confirmation and output come in one data event. Files are independent in the code,
  which keys everything by file.

- *Threads.* A third thread adds another that is marked and visited; what goes wrong
  needs one thread that stops, one that is under way, and the loop. Two commands are a
  resume and what overlaps with it; the stops are the load and two more, so that a
  thread stops again while the first resume is under way.
- *Tracing.* Three frames are a caller, a function and one it calls, or a library
  between two functions; two entries of one line are what the removal and the binding
  can mix up. The state space is finite without a bound on the number of steps.
- *Terminals.* The first terminal is closed at any time, the second stays (there must be
  one to create after a close). Two selections share a promise or make one each.
- *Restarts.* Three restarts are two that overlap and one that comes after them; two
  events are on their way at once.

`CHECK_DEADLOCK FALSE` stands in runs whose behaviours end: all requests of the
bound are made and nothing is due any more.

Fairness is weak, and only for what the event loop and other processes do on their
own:

- `JediProxy`: callbacks that are due run, and a process that has a request on its
  standard input and does not crash writes. Not fair: requests, cancellations,
  restarts, faults.
- `LintingEngine`: the file system answers, linters end (they are processes that
  were given a file), the loop goes on.
- `TestManager`: discoveries end (a python process that collects tests, or is killed).
  Not fair: the end of a run. A test need not end, and a pytest or nosetest run that is
  stopped before it wrote results never settles, as `TestRun` has it.
- `TestRun`: of all that can happen to processes and runs something does. One
  condition over all is enough, since each of them has finitely many steps.
- `PythonProcess`: timers fire, data arrives and is handled, the program answers
  while it lives. Not fair: its end.
- `DebugSession`: the event loop runs, the program obeys and ends or stops, the
  editor sends `configurationDone` when it may, and gives up a failed launch.

- `DebuggerThreads`: the scheduler runs each thread that is parked or on its way to be
  or to leave, and the command loop. Not fair: what the program and the editor do.
- `TerminalExecution`: timers fire, closes are reported, a promise that is resolved
  resumes those that await it. Not fair: the calls and the user.
- `DebuggerTracing` and `LanguageServer` have safety properties only: a program need not
  come to its next line, and the server may take for ever to start.

Every property of a passing run has a mutant: a definition, changed the way a
plausible bug would (a reset that is missing, a guard dropped, an off-by-one), with
which TLC finds that property violated in the same run. The mutated forms stand
before the definition they replace, marked as mutants.

## 4. Proofs

| module | theorem | for every value of the constants |
|---|---|---|
| `LanguageEngineProofs` | `TypeCorrect`, `QueueInvariantHolds`, `QueueCorrect`, `NothingLost` | the inductive invariant: types (with the bound on retries); the queue lists every tracked request once and no other id but at its head; a written request is tracked exactly until its promise settles |
| `LanguageEngineProofs` | `DeferredsCorrect`, `KilledServerCorrect`, `LatestAnswered`, `LedgerImplemented` | no superseded deferred stays pending; no tracked request was written to a killed process; an answer settles the latest request of its kind; the proxy implements `RequestLedger` |
| `LintingEngineProofs` | `PassesCorrect`, `LivePassUnique`, `OutdatedCancelled` | the inductive invariant; at most one live pass per document; outdated problems come from cancelled passes |
| `TestManagerProofs` | `ManagerCorrect`, `KeptTestsCorrect`, `NeverLockedOut` | the inductive invariant; nothing cancelled is kept and storage and manager agree; a busy manager has a discovery in progress |
| `TestRunProofs` | `RunsConserveResults`, `SummariesAgree`, `RollUpsAgree` | results are handled once, whole and in order; counts and statuses agree with the results of the run; suites, files and folders agree with the functions below them |
| `TestRunProofs` | `DrainProperties`, `UpdateResultsTells` | the loop of the server hands out what waits, in order, and leaves the rest waiting; `updateResults` tells of every tree what its functions say |
| `DebugAdapterProofs` | `TypeCorrect`, `DispenserInvariance`, `ExecutionInvariance`, `ProcessCorrect`, `AnswersReachTheirAskerAlways` | types; ids are unshared and none is lost; one evaluation at a time and none waits for nobody; a promise is settled by its own answer |
| `DebugAdapterProofs` | `SessionKeepsInv`, `SessionBooksAgree`, `EditorAndProgramAgree`, `StandingHitsStop` | the inductive invariant; no request is forgotten and the registries agree; breakpoints, the adapter and the program agree when requests do not overlap; the hit of a breakpoint that stands stops the session |
| `DebuggerThreadsProofs` | `ThreadsCorrect`, `ResumesCoverLeaves` | flags and locks agree with where each thread is; when no expansion is asked for, a thread leaves no more often than it is resumed |
| `DebuggerTracingProofs` | `HitsAreOfBreakpoints`, `SetBreakpointsStop`, `StepsStayInScope`, `StepsStopInTime` | a hit is on the line of a breakpoint; a breakpoint shown as set stops the program; a step stops in its scope, and no later than it is due |
| `TerminalExecutionProofs` | `TerminalCorrect`, `CodeCorrect` | the service knows its one open terminal; code reaches a terminal in which Python was started |
| `LanguageEngineProofs` | `ServerCorrect`, `ListensCorrect`, `CurrentCorrect` | one server runs that the next restart stops; the activator listens after its restarts; the server has the configured interpreter |

They rest on the named assumptions of the modules only: constants that are numbers
are naturals, and names that stand for different things are different
(`NoneAssumption`, `DisjointAssumption`, `OutcomesAssumption`); the tree of tests is finite
and nested (`TreeAssumption`), and no reported stranger is a test of it (`RunAssumption`). No number of requests, documents,
discoveries, commands, threads, terminals or restarts is fixed.

The inductive invariants, and why the properties alone are not inductive:

- **Proxy** (`QueueInvariant`): that the queue lists what is tracked is lost if an
  id can be queued twice, so `PhasesMatchQueue` adds that a queued id was written,
  that an id is written once and that a promise is not settled before its command is
  written. With it the splice of an answer is the removal of one position of an
  injective sequence, or of the stale head, or of the last element when the
  id is not in the queue; the lemmas about `Lists` say what each leaves. An answer
  to an id that is tracked is never at position −1, so the last case cannot lose a
  tracked id: this is where the two wrongs of `if (index)` turn out harmless.
  The same invariant carries the refinement (`LedgerStep`): without the stale id at its
  head (`Live`) the queue is the ledger's, an append is an `Open`, the splice of an
  answer the removal of its request (`LiveSpliced`) and what `checkQueueLength` drops
  are the oldest open requests beyond the limit (`LiveTrimmed`). `WrittenToLive` adds
  that the process commands are written to is not a killed one; `LatestOrCancelled`,
  that a request with a token of its own is the latest of its kind or cancelled.
- **Linting** (`PassInvariant`): `OneLivePass` follows from `LivePassIsPending`, which says
  *which* pass is live. `OutdatedAreCancelled` needs `CollectedOwn`, as a pass
  publishes what it collected, and that a pass that is neither cancelled nor done is
  the pending one when it publishes.
- **Test manager** (`ManagerInvariant`): `BusyIsTrue` needs that the discovery of the token
  in use is active (`TokensAreLive`), `CancelledNeverKept` that what is kept was ended
  (`KeptTestsEnded`), so that `Stop`, which cancels by token, cannot reach it; and a run that waits is woken by the
  discovery it waits for (`WaitingRuns`).
- **Test runs** (`IndInvariant` in `TestRunProofs`): `ResultsConserved` says that what was sent
  is what was handled followed by what waits (`Waiting`), and `DrainProperties`, by an
  induction over the turns of the loop, that the loop takes from the front of what waits.
  That a run which was not stopped has no whole message in its buffer is not inductive: it needs
  `FramedStreams`, that buffer and pipe of such a run are a sequence of whole frames, so
  that the loop never meets a message that does not parse. `Stages` says that a run
  which did not start has no launcher, has sent nothing and was given nothing, and which
  framework uses the pipe and the file.
  `SummaryAgrees` follows results of two kinds: those that are added (unittest) and those
  that replace (xml); `LatestConcat` and `CountConcat` say what a second event adds to the
  first. `RollUpAgrees` rests on `UpdateResultsTells`, an induction over the height of suites,
  then of folders.
- **Connection** (`Inv` in `DebugAdapterProofs`): the stream — buffer and wire
  together — is a sequence of whole frames but for a first part read already, and
  holds exactly the answers that are `answered` (`Streams`); the ids of commands
  whose answer is not handled and the free list partition the numbers below the
  counter (`Dispenses`); the queue and the map of evaluations mirror their progress
  (`Evaluates`). With unshared ids the entry found by the id of an answer
  is the one of its command, unless a timer took it away (section 5): an answer can get lost,
  it never reaches another asker.
- **Session** (`SessionInv` in `DebugAdapterProofs`): `QueuesFit` says what each reaction in
  `microtasks` and each command without an answer is for (`TasksFit`, `CommandsFit`), and
  counts them (`Awaits`), so that the promises of a request are settled once each;
  `BuiltAreKnown`, that a breakpoint that is not registered yet has its bind under way.
  `Lifecycle` bounds what the editor is told by what may still come
  (`StartsLeft`, `EndsLeft`), which needs that LOAD is first on the wire, the close last and LAST
  sent once (`EndsOnce`), and that nothing is bound before the load (`LoadComesFirst`).
  `BreakpointsAgree` speaks of a program that has done what it was told; `ProgramFollows`
  says it of every state: what the program will stop at after the commands on their way
  (`WillStop`: the last one about a breakpoint decides, `StopsOnTail` and `StopsOnMore`)
  is what is enabled. `InTurn` says, of a file whose requests did not overlap, that a line has one
  breakpoint and that those of the last request are enabled from the moment it is bound; the
  step needs that all breakpoints of the file are registered when its next
  request is bound (`AllRegistered`), which is what fails when requests overlap.
- **Threads** (`ReleaseInvariant` in `DebuggerThreadsProofs`): a thread leaves when it
  wakes up and finds no work, so what has to be counted are wake-ups. `Wakes` is how
  often `block_lock` can be taken yet, `Work` whether one of these finds work, and
  `ResumesCover` says that resumes and work together are no fewer than wake-ups. Each
  action changes both sides alike but `WorkDone`, which forgets the work: that needs
  `OneEvaluation`, that only one thread is charged with one evaluation at a time, which
  the adapter guarantees for evaluations and not for expansions. Hence the assumption
  `Enumerations = {}` of the theorem, and the run `debugger_again` without it.
- **Tracing** (`IInv` in `DebuggerTracingProofs`): the properties speak of the moment of a
  stop, the invariant of every stage before it. `CountInv` says that the number in
  `stepping` is the depth of the frames of the user below the step's goal, where a frame
  is counted only at the end of its call and uncounted only at the end of its return
  (`Counted`), and `GoalInv` that a step nothing disturbs is still counted; so the line where
  the count is at its end is a line of the goal's function. For breakpoints, `BreakpointsInv`
  says that the entry of a set breakpoint is filed under the name its file is asked or
  loaded by (`Entry`), and that an entry of another is one of those that
  `command_remove_breakpoint` leaves behind or that the command loop is in the middle of
  setting (`Lingers`); `LineInv` carries both through the loop of `handle_line`, which
  goes over a copy of the entries while they change.
- **Terminal** (`ReplInv`): `CodeReachesRepl` is about the log, and what is in it when
  code is sent depends on who resumes. `PromiseIsKept` says of the promise in
  `replActive`, `AwaitedIsKept` of the one a call awaits, that its terminal has had the
  command that starts Python or is still to have it, unless the terminal was closed
  during the call; `WaitersWait`, `StartedBegan` and `FilesRun` keep the stages, the
  list of waiters and the texts consistent.
- **Language server** (`CurrentInv`): as long as nothing disturbed the restarts
  (`Undisturbed`), the server's hash is that of what is configured, or a comparison with
  it is under way, or an event is (`Told`); the same is said of a server that starts
  and of the data for the options (`StartedIsTold`, `OptionsAreCurrent`). One server
  and one subscription at a time are `OneServerRuns`; `StillListens` needs the
  smaller `Listens` only, which survives overlapping restarts.

Definitions by recursion and by folds (`Drain`, `FlattenSeq`, the roll-up of the tree) are
proved about for every input. The library's induction theorems take an operator as a
parameter, which the provers cannot instantiate; `SetInduction`, `IntervalInduction` and
`RankInduction` of `TestRunProofs` (the first in `DebugAdapterProofs` too) say the same of
sets, and rest on the well-foundedness of the subsets of a finite set. `Recursion` shows that a function defined by recursion on a
rank exists, so that the one TLA+ chooses satisfies its equation.

Model-checked only: liveness under fairness (`EveryRunSettles`, `WaitingRunsGoOn`, `CallsEnd`,
`StartingSettles` and the others of their kind), of which the provers have none
(`ENABLED` is out of their reach).

## 5. Finding and divergences

The run `debugger_again` states what a comment of the debugger says of a parked thread
and finds a behaviour that contradicts it (`PROJECT.json` quotes the line): `block`
forgets the work when it is done, so that an expansion that was scheduled during an
evaluation, after the work was sent for and before the wake-up, replaces it; the lock
was released for both, the thread finds no work at the second wake-up and leaves the
stop although nobody resumed it (`visualstudio_py_debugger.py:1303`).

The models also have the following behaviours of the code. The properties except them,
each by a named condition, or speak of what still holds beside them.

*Jedi proxy.* A process that ends, or is killed by a restart, after the first half of an
answer was read leaves the half in `previousData`: nothing completes it, and no later answer
parses, nor does a whole one that came before it in the same event
(`providers/jediProxy.ts:381`; `CutAnswerStays` in `SentSettles`). After two overlapping spawns the process of one is no longer
`this.proc`, so no restart kills it (`jediProxy.ts:350`). After an error of the
process the requests it had stay tracked until the limit or a restart (`:360`).

*Linting.* A document that is closed during a pass gets its problems back when the pass
ends (`linters/lintingEngine.ts:119`). The limit keeps one problem more than `maxNumberOfProblems`
(`lintingEngine.ts:130`, `src/package.json:1353`). A linter that rejects discards
what the linters before it found (`:112`). A linter that never answers holds the pass: no
timeout bounds it. A superseded pass shows what it had collected, over the newer one's
problems when it comes later (`:114`). Disabling linting clears, but a pass that
runs publishes afterwards (`:78`).

*Test manager.* The `catch` of a discovery asks the token the manager holds then: the
failure of one that was superseded is taken for a cancellation when that of another was
cancelled, and the reverse (`baseTestManager.ts:148`). The end of a superseded run disposes of the token of the run that
replaced it, which can then no longer be stopped (`baseTestManager.ts:229`), though the
status bar says "Click to Stop". Cached tests set the status to idle while tests run,
so that a discovery may start during a run (`:93`). Running all tests uses the cached tests, as a condition compares
strings that are never empty (`baseTestManager.ts:211`). A run stopped while it
discovers runs its tests all the same (`:161`, `:214`).

*Test runners.* The handler of unittest results sets only `status`, never `passed`, so classes,
files and folders stay "unknown" (`unittest/runner.ts:52`, `testResultsService.ts:73`).
A class whose functions passed gets the status Idle, for which the code lens has no
tick (`testResultsService.ts:106`, `codeLenses/testFiles.ts:128`); after a failed
file, a later one makes the folder unknown again (`:29`, `:46`). The error of a file that
could not be collected is overwritten by the roll-up (`xUnitParser.ts:101`). "Run
failed tests" without failed tests runs all with unittest (`runner.ts:114`). A
stopped unittest run goes on to its next targets, and resolves. The header a killed
launcher left can hold up every later frame of the run. Late results of a superseded run
count in the summary of the new one, and its fail-fast stops the new one. A pytest
run that is stopped before it wrote its results never settles, and the status stays "Running"
(`xUnitParser.ts:62`). The socket server of a run is never closed.

*Debug adapter.* The timer of an answered expansion deletes the entry of a later one
that got the same id: its answer is dropped and it is reported as timed out
(`PythonProcess.ts:372`, `:377`). A breakpoint whose removal is asked for while it is
being bound stays registered and enabled (`Main.ts:369`, `:407`). The response to
`launch` is sent again by the first output (`Main.ts:167`, `LocalDebugClient.ts:150`);
`TerminatedEvent` is sent up to three times. A hit handled in the same data event as
the confirmation of its breakpoint is resumed silently (`Main.ts:314`). Evaluations
pending when the program ends are never answered. Two overlapping requests for one
line make two breakpoints, of which one can be removed. A program that dies before it
connects, without a word on stderr, leaves `launch` unanswered. A changed condition on
a line that has a breakpoint is ignored (`Main.ts:379`).

*Debugger threads* (lines of `visualstudio_py_debugger.py`). A second pause while one is
under way lets two threads wait for each other's starting locks (1275). A resume of a
thread that is gone leaves `THREADS_LOCK` taken by the exception (1913). A step on a
thread that a resume under way has let go fails an assertion and ends the command loop
(1745).

*Debugger tracing.* Only the first entry of a breakpoint is removed and never the pending
one, so a removed breakpoint can come back when its module is loaded (1834). The trace
function iterates over collections the command loop changes: the error ends the tracing
of the thread (1008, 1088). A breakpoint that is hit during a step leaves the step in
force: a continue stops again, and a later step can pass over the next line (1150). A
step that returns into a library does not stop in the next function of the user that
the library calls, as the comment at 1185 hopes.

*Terminals.* A second text is sent into the activation (`terminal/service.ts:57`).
`execute` after a close during the activation of its REPL awaits a promise that
nothing settles (`terminalCodeExecution.ts:52`). Code that awaited the REPL of a terminal
that is closed goes to a new terminal, where a shell reads it. A file is run by a
command typed into the REPL when that has the terminal.

*Language server.* Overlapping restarts each start a server, of which one can no longer
be stopped, and leave two subscriptions, so that each later event restarts twice
(`analysis.ts:83`). A change between the disposal of the subscription and the next one
is not heard (`:70`). Interpreters whose `python` has the same times are taken for the
same (`interpreterDataService.ts:69`). A client that did not start stays assigned, and the
next restart has to stop it (`analysis.ts:112`). When the data for the options cannot be had, no
subscription is left and no later change is heard (`analysis.ts:84`). The data is cached
under a key it is not read with (`interpreterDataService.ts:43`, `:58`).

*Parts without a module.* The refactoring process that exits before it has started, or
in the middle of an answer, leaves its command pending (`refactor/proxy.ts:116`).
Formatting on save tells late edits by flags all documents share: another save in
between formats the wrong document or none (`providers/formatProvider.ts:90`).

## 6. Not modelled

`PROJECT.json` lists every component with its status and reason.

- *Text in, text out*, where what would be compared with is outside the repository:
  the parsers of linters, test frameworks, terminal activation and documentation; the
  tokenizer and the formatting of lines, which are about characters and sequential.
- *Presentation and glue*: pickers, status bars, code lenses, telemetry, the wrappers of
  the editor, the platform and the container.
- *Small machines with nothing to interleave*: the installer's prompts, the download of
  the language server (one step of `LanguageServer` that may fail), the environment
  file (one await), the refactoring process (one command at a time), the locators of
  interpreters (one deferred per folder). What they get wrong is a missing case, which
  section 5 names.
- *Formatting on save*: it depends on the order in which the editor runs the events of a
  save, its own timeout and a later save, which is not in the repository.
- *The experimental debug adapter* (`debugger/mainV2.ts`) pipes messages between the editor and
  ptvsd and takes no decision of its own between the first and the last.
- *Third-party code* the repository carries (`src/pythonFiles/jedi`, `parso`, `isort`,
  `ptvsd`): libraries that the extension starts and does not develop. They are most of
  the Python under `src/pythonFiles`, and none of it is in the map.

Within modelled components: stack frames and variables of the debugger, which only
read; attaching; exceptions' filters, pass counts, Django templates and Stackless in the
debugger; debugging a test, where a run ends when the session starts; several workspace
folders, which have proxies, test managers and terminals of their own.
