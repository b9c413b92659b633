---------------------------- MODULE DebugSession ----------------------------
(***************************************************************************)
(* The debug adapter between the editor and the program: the launch, the   *)
(* breakpoint requests, the wait for configurationDone, hits, and the end  *)
(* of the session.  The adapter is single threaded: a request of the       *)
(* editor, a data event of the socket (which may bring several messages)   *)
(* or a timer runs to its end, then the reactions of the promises it       *)
(* settled (microtasks) run, and only then comes the next event.           *)
(***************************************************************************)
EXTENDS Integers, Sequences, FiniteSets, SequencesExt, FiniteSetsExt

CONSTANTS
    Files,      \* the source files that may have breakpoints
    Lines,      \* their lines, numbers
    Requests,   \* bound: the setBreakpoints requests of a behaviour
    Stops       \* bound: how often the running program hits or prints

ASSUME LinesAssumption == Lines \subseteq Nat /\ IsFiniteSet(Lines)
ASSUME BoundsAssumption == Requests \in Nat /\ Stops \in Nat

VARIABLES
    \* the editor
    requests,                     \* the setBreakpoints requests sent, file and lines
    stage,                        \* stage[r]: how far request r is
    overlapped,                   \* the files with two requests open at once (history)
    configurationSent,            \* the editor has sent configurationDone
    editor,                       \* what the editor was told, what it asked
    \* the launch and the end
    launch,                       \* its promise
    stopOnEntry,
    entryResponse,                \* the response to the launch request is kept
    debuggerLoaded,               \* the promise is resolved
    configurationDone,            \* its promise
    resumeWaits,                  \* the resume at the entry waits for configurationDone
    pythonProcess,                \* the session has one
    terminateEventSent,
    lastTimer,                    \* the 500 ms of onLastCommand are running
    crashed,                      \* an exception nobody caught
    \* the breakpoints
    breakpoints,                  \* those built, file and line: the position is the Id
    enabled,                      \* the Ids of those with Enabled = true
    registeredBreakpoints,        \* Ids
    registeredBreakpointsByFileName,
    breakpointCommands,           \* binds without an answer, Id and request
    unsettled,                    \* unsettled[r]: the promises request r waits for
    \* the event loop
    batch,                        \* messages of the current data event not handled yet
    microtasks,
    \* the connection and the program
    toProgram, toAdapter,
    program,                      \* what the program is doing
    active,                       \* the Ids at which it stops
    stops

editorVars == <<requests, overlapped, configurationSent, stopOnEntry>>
launchVars == <<launch, entryResponse, debuggerLoaded>>
resumeVars == <<configurationDone, resumeWaits>>
endVars == <<pythonProcess, terminateEventSent, lastTimer, crashed>>
registryVars == <<breakpoints, enabled, registeredBreakpoints, registeredBreakpointsByFileName>>
bindVars == <<stage, breakpointCommands, unsettled>>
programVars == <<program, active, stops>>
sessionVars == <<editorVars, editor, launchVars, resumeVars, endVars, registryVars, bindVars,
          batch, microtasks, toProgram, toAdapter, programVars>>

RequestIds == 1 .. Requests

SessionInit ==
    /\ requests = <<>>
    /\ stage = [r \in RequestIds |-> "unsent"]
    /\ overlapped = {}
    /\ configurationSent = FALSE
    /\ editor = [stopped |-> FALSE, launched |-> 0, terminated |-> 0, gone |-> FALSE]
    /\ launch = "none"
    /\ stopOnEntry \in BOOLEAN
    /\ entryResponse = FALSE
    /\ debuggerLoaded = FALSE
    /\ configurationDone = "none"
    /\ resumeWaits = FALSE
    /\ pythonProcess = FALSE
    /\ terminateEventSent = FALSE
    /\ lastTimer = FALSE
    /\ crashed = FALSE
    /\ breakpoints = <<>>
    /\ enabled = {}
    /\ registeredBreakpoints = {}
    /\ registeredBreakpointsByFileName = [f \in Files |-> <<>>]
    /\ breakpointCommands = <<>>
    /\ unsettled = [r \in RequestIds |-> 0]
    /\ batch = 0
    /\ microtasks = <<>>
    /\ toProgram = <<>>
    /\ toAdapter = <<>>
    /\ program = "none"
    /\ active = {}
    /\ stops = 0

\* The next event is taken when the last one and its microtasks are done.
EventLoopIdle == batch = 0 /\ microtasks = <<>> /\ ~crashed

-----------------------------------------------------------------------------
(* Launching and ending.                                                   *)

\* launchRequest, to the spawn of the program.
LaunchRequest ==
    /\ EventLoopIdle
    /\ launch = "none"
    /\ launch' = "starting"
    /\ entryResponse' = TRUE
    /\ configurationDone' = "pending"
    /\ pythonProcess' = TRUE
    /\ program' = "starting"
    /\ UNCHANGED <<editorVars, editor, debuggerLoaded, resumeWaits, terminateEventSent,
                   lastTimer, crashed, registryVars, bindVars, batch, microtasks,
                   toProgram, toAdapter, active, stops>>

\* Before the program's first data: it could not be started, or it wrote to stderr,
\* in which case it keeps running.  The launch is answered with an error.
LaunchFails ==
    /\ EventLoopIdle
    /\ launch = "starting"
    /\ launch' = "failed"
    /\ editor' = [editor EXCEPT !.launched = @ + 1]
    /\ \/ program = "starting" /\ program' = "none"
       \/ UNCHANGED program
    /\ UNCHANGED <<editorVars, entryResponse, debuggerLoaded, resumeVars, endVars,
                   registryVars, bindVars, batch, microtasks, toProgram, toAdapter,
                   active, stops>>

\* A mutant: the flag is taken for what its name says.
TerminatedOnce(ed) ==
    IF terminateEventSent THEN ed ELSE [ed EXCEPT !.terminated = @ + 1]

\* sendEvent(new TerminatedEvent()).
Terminated(ed) == [ed EXCEPT !.terminated = @ + 1]

\* Kill, and debugClient.Stop: the socket of a program that is connected closes.
KillProgram ==
    CASE program \in {"none", "ended"} -> UNCHANGED <<program, toAdapter>>
      [] program = "starting" -> program' = "none" /\ UNCHANGED toAdapter
      [] OTHER -> program' = "ended" /\ toAdapter' = Append(toAdapter, <<"CLOSE", 0>>)

\* stopDebugServer, for an editor that was told or asked ed meanwhile.
StopDebugServer(ed) ==
    /\ pythonProcess' = FALSE
    /\ terminateEventSent' = TRUE
    /\ editor' = Terminated(ed)
    /\ toProgram' = <<>>
    /\ UNCHANGED <<editorVars, launchVars, resumeVars, lastTimer, crashed, registryVars,
                   bindVars, batch, microtasks, active, stops>>

DisconnectRequest ==
    /\ EventLoopIdle
    /\ launch # "none"
    /\ ~editor.gone
    /\ KillProgram
    /\ StopDebugServer([editor EXCEPT !.gone = TRUE])

\* The debug server emits detach when the socket closes.
SocketCloses ==
    /\ EventLoopIdle
    /\ toAdapter # <<>>
    /\ Head(toAdapter) = <<"CLOSE", 0>>
    /\ toAdapter' = Tail(toAdapter)
    /\ StopDebugServer(editor)
    /\ UNCHANGED program

LastTimerFires ==
    /\ EventLoopIdle
    /\ lastTimer
    /\ lastTimer' = FALSE
    /\ editor' = Terminated(editor)
    /\ UNCHANGED <<editorVars, launchVars, resumeVars, pythonProcess, terminateEventSent,
                   crashed, registryVars, bindVars, batch, microtasks, toProgram,
                   toAdapter, programVars>>

-----------------------------------------------------------------------------
(* The requests of the editor.                                             *)

\* The breakpoints of a file are to be at these lines.  Once the debugger is loaded
\* the reaction to debuggerLoaded is a microtask at once.
SetBreakPointsRequest(f, lines) ==
    /\ EventLoopIdle
    /\ launch # "none"
    /\ ~editor.gone
    /\ Len(requests) < Requests
    /\ LET r == Len(requests) + 1
       IN  /\ requests' = Append(requests, [file |-> f, lines |-> lines])
           /\ stage' = [stage EXCEPT ![r] = "waiting"]
           /\ overlapped' = IF \E q \in DOMAIN requests :
                                   requests[q].file = f /\ stage[q] # "answered"
                            THEN overlapped \union {f} ELSE overlapped
           /\ microtasks' = IF debuggerLoaded THEN <<<<"set", r>>>> ELSE <<>>
    /\ UNCHANGED <<configurationSent, stopOnEntry, editor, launchVars, resumeVars, endVars,
                   registryVars, breakpointCommands, unsettled, batch, toProgram,
                   toAdapter, programVars>>

\* The reactions to configurationDone.
ResumeReactions == IF resumeWaits THEN <<<<"resume", 0>>>> ELSE <<>>

\* configurationDonePromiseResolve, if it is there, after some microtasks.
ResolveConfigurationDone(tasks) ==
    IF configurationDone = "pending"
    THEN /\ configurationDone' = "resolved"
         /\ resumeWaits' = FALSE
         /\ microtasks' = tasks \o ResumeReactions
    ELSE UNCHANGED resumeVars /\ microtasks' = tasks

\* The editor sends it when the breakpoints it knows of were answered.
ConfigurationDoneRequest ==
    /\ EventLoopIdle
    /\ launch # "none"
    /\ ~editor.gone
    /\ ~configurationSent
    /\ \A r \in DOMAIN requests : stage[r] = "answered"
    /\ configurationSent' = TRUE
    /\ ResolveConfigurationDone(<<>>)
    /\ UNCHANGED <<requests, overlapped, stopOnEntry, editor, launchVars, endVars,
                   registryVars, bindVars, batch, toProgram, toAdapter, programVars>>

\* The user lets the program go on.
ContinueRequest ==
    /\ EventLoopIdle
    /\ pythonProcess
    /\ editor.stopped
    /\ editor' = [editor EXCEPT !.stopped = FALSE]
    /\ toProgram' = Append(toProgram, <<"resume", 0>>)
    /\ UNCHANGED <<editorVars, launchVars, resumeVars, endVars, registryVars, bindVars,
                   batch, microtasks, toAdapter, programVars>>

-----------------------------------------------------------------------------
(* The reactions.                                                          *)

\* Numbers in their order: the lines of a request, or the requests that wait.
InOrder(numbers) ==
    CHOOSE s \in [1 .. Cardinality(numbers) -> numbers] :
        \A j, k \in DOMAIN s : j < k => s[j] < s[k]

\* Where the list of a file has the breakpoints at a line.
PlacesOf(f, line) ==
    {k \in DOMAIN registeredBreakpointsByFileName[f] :
        breakpoints[registeredBreakpointsByFileName[f][k]].line = line}

\* The one that was registered there first.
FirstAt(f, line) == registeredBreakpointsByFileName[f][Min(PlacesOf(f, line))]

NewLines(f, lines) == {line \in lines : PlacesOf(f, line) = {}}

\* The Id of the breakpoint a request binds at a line: the first one registered there,
\* or a new one.
IdAt(f, lines, line) ==
    IF line \in NewLines(f, lines)
    THEN Len(breakpoints) + Cardinality({l \in NewLines(f, lines) : l <= line})
    ELSE FirstAt(f, line)

\* What a request binds, a breakpoint for each of its lines.
BoundBy(f, lines) == [k \in 1 .. Cardinality(lines) |-> IdAt(f, lines, InOrder(lines)[k])]

\* What it removes, a breakpoint for each in the list whose line it does not have.
RemovedBy(f, lines) ==
    LET list == registeredBreakpointsByFileName[f]
        places == {k \in DOMAIN list : breakpoints[list[k]].line \notin lines}
    IN  [j \in 1 .. Cardinality(places) |->
            FirstAt(f, breakpoints[list[InOrder(places)[j]]].line)]

\* A mutant: the removals are waited for.
PromisesWithRemovals(bound, removed) == Len(bound) + Len(removed)

\* The promises a request waits for: "we won't get a response back" to a removal.
PromisesOf(bound, removed) == Len(bound)

\* A mutant: a breakpoint that is there is bound, and stays disabled.
EnabledWithNew(f, lines, bound, removed) ==
    (enabled \union {IdAt(f, lines, line) : line \in NewLines(f, lines)}) \ Range(removed)

EnabledWith(f, lines, bound, removed) == (enabled \union Range(bound)) \ Range(removed)

\* setBreakPointsRequest, once the debugger is loaded.
SetBreakPoints(r) ==
    LET f == requests[r].file
        lines == requests[r].lines
        bound == BoundBy(f, lines)
        removed == RemovedBy(f, lines)
        new == InOrder(NewLines(f, lines))
    IN  IF terminateEventSent
        THEN /\ stage' = [stage EXCEPT ![r] = "answered"]
             /\ microtasks' = Tail(microtasks)
             /\ UNCHANGED <<registryVars, breakpointCommands, unsettled, toProgram>>
        ELSE /\ breakpoints' = breakpoints
                    \o [k \in DOMAIN new |-> [file |-> f, line |-> new[k]]]
             /\ enabled' = EnabledWith(f, lines, bound, removed)
             /\ breakpointCommands' = breakpointCommands
                    \o [k \in DOMAIN bound |-> [Id |-> bound[k], request |-> r]]
             /\ toProgram' = toProgram
                    \o [k \in DOMAIN bound |-> <<"bind", bound[k]>>]
                    \o [k \in DOMAIN removed |-> <<"disable", removed[k]>>]
             /\ unsettled' = [unsettled EXCEPT ![r] = PromisesOf(bound, removed)]
             /\ stage' = [stage EXCEPT ![r] = "binding"]
             /\ microtasks' = Tail(microtasks) \o
                    (IF PromisesOf(bound, removed) = 0 THEN <<<<"answer", r>>>> ELSE <<>>)
             /\ UNCHANGED <<registeredBreakpoints, registeredBreakpointsByFileName>>

\* A mutant: what could not be set is not registered.
RegistersVerified(verified) == verified

\* A breakpoint is registered whether the program could set it or not.
Registers(verified) == TRUE

\* The promise of a bind is settled.
BreakpointBound(r, i, verified) ==
    LET f == requests[r].file
    IN  /\ IF Registers(verified)
           THEN /\ registeredBreakpoints' = registeredBreakpoints \union {i}
                /\ registeredBreakpointsByFileName' =
                       [registeredBreakpointsByFileName EXCEPT ![f] = Append(@, i)]
           ELSE UNCHANGED <<registeredBreakpoints, registeredBreakpointsByFileName>>
        /\ unsettled' = [unsettled EXCEPT ![r] = @ - 1]
        /\ microtasks' = Tail(microtasks) \o
               (IF unsettled[r] = 1 THEN <<<<"answer", r>>>> ELSE <<>>)
        /\ UNCHANGED <<breakpoints, enabled, breakpointCommands, stage, toProgram>>

\* All of them are.
AnswerBreakpoints(r) ==
    /\ stage' = [stage EXCEPT ![r] = "answered"]
    /\ ResolveConfigurationDone(Tail(microtasks))
    /\ UNCHANGED <<registryVars, breakpointCommands, unsettled, toProgram>>

\* The program at its entry may go on.
ResumeAtEntry ==
    /\ toProgram' = IF pythonProcess THEN Append(toProgram, <<"resume", 0>>) ELSE toProgram
    /\ microtasks' = Tail(microtasks)
    /\ UNCHANGED <<registryVars, bindVars>>

Microtask ==
    /\ batch = 0
    /\ ~crashed
    /\ microtasks # <<>>
    /\ LET task == Head(microtasks)
       IN  \/ task[1] = "set" /\ SetBreakPoints(task[2]) /\ UNCHANGED resumeVars
           \/ task[1] = "bound" /\ BreakpointBound(task[2], task[3], task[4])
                                /\ UNCHANGED resumeVars
           \/ task[1] = "answer" /\ AnswerBreakpoints(task[2])
           \/ task[1] = "resume" /\ ResumeAtEntry /\ UNCHANGED resumeVars
    /\ UNCHANGED <<editorVars, editor, launchVars, endVars, batch, toAdapter, programVars>>

-----------------------------------------------------------------------------
(* The messages of the program.                                            *)

\* The data event has this many messages.  The first data resolves the launch.
DataEvent ==
    /\ EventLoopIdle
    /\ \E k \in 1 .. Len(toAdapter) :
          /\ \A j \in 1 .. k : toAdapter[j][1] # "CLOSE"
          /\ batch' = k
    /\ launch' = IF launch = "starting" THEN "connected" ELSE launch
    /\ UNCHANGED <<editorVars, editor, entryResponse, debuggerLoaded, resumeVars, endVars,
                   registryVars, bindVars, microtasks, toProgram, toAdapter, programVars>>

\* The reactions to debuggerLoaded: requests that wait for it.
LoadReactions ==
    IF debuggerLoaded THEN <<>>
    ELSE LET waiting == {r \in RequestIds : stage[r] = "waiting"}
         IN  [k \in 1 .. Cardinality(waiting) |-> <<"set", InOrder(waiting)[k]>>]

\* A mutant: a configuration that is done already is waited for.
ResumesOnceDone(done) == FALSE

\* configurationDone.then: at once if the promise is resolved.
Resumes(done) == done = "resolved"

\* onPythonProcessLoaded.  The response is kept, and sent once more by the first output.
HandleProcessLoad ==
    /\ editor' = [editor EXCEPT !.launched = IF entryResponse THEN @ + 1 ELSE @,
                                !.stopped = stopOnEntry]
    /\ debuggerLoaded' = TRUE
    /\ LET resumes == ~stopOnEntry /\ Resumes(configurationDone)
       IN  /\ microtasks' = microtasks \o LoadReactions
                               \o (IF resumes THEN <<<<"resume", 0>>>> ELSE <<>>)
           /\ resumeWaits' = (~stopOnEntry /\ ~resumes)
    /\ UNCHANGED <<entryResponse, configurationDone, terminateEventSent, lastTimer, crashed,
                   breakpointCommands, toProgram>>

\* onDebuggerOutput.
HandleDebuggerOutput ==
    /\ IF entryResponse
       THEN /\ editor' = [editor EXCEPT !.launched = @ + 1]
            /\ debuggerLoaded' = TRUE
            /\ microtasks' = microtasks \o LoadReactions
            /\ entryResponse' = FALSE
       ELSE UNCHANGED <<editor, debuggerLoaded, microtasks, entryResponse>>
    /\ UNCHANGED <<resumeVars, terminateEventSent, lastTimer, crashed, breakpointCommands,
                   toProgram>>

\* A mutant: the command is left in the list.
KeepCommand(k) == breakpointCommands

\* splice(index, 1).
TakeCommand(k) == RemoveAt(breakpointCommands, k)

\* onBreakpointSet, for BRKS and BRKF: the first command with the Id is answered.  One
\* nobody asked for changes nothing but what the editor shows.
HandleBreakPointSet(i, verified) ==
    /\ LET ks == {k \in DOMAIN breakpointCommands : breakpointCommands[k].Id = i}
       IN  IF ks = {}
           THEN UNCHANGED <<breakpointCommands, microtasks>>
           ELSE /\ breakpointCommands' = TakeCommand(Min(ks))
                /\ microtasks' = Append(microtasks,
                      <<"bound", breakpointCommands[Min(ks)].request, i, verified>>)
    /\ UNCHANGED <<editor, debuggerLoaded, entryResponse, resumeVars, terminateEventSent,
                   lastTimer, crashed, toProgram>>

\* onBreakpointHit: the editor is told of the hit of a registered, enabled breakpoint.
\* After any other the program resumes; without a PythonProcess that throws.
HandleBreakPointHit(i) ==
    /\ CASE i \in registeredBreakpoints /\ i \in enabled ->
               /\ editor' = [editor EXCEPT !.stopped = TRUE]
               /\ UNCHANGED <<toProgram, crashed>>
         [] i \notin registeredBreakpoints \cap enabled /\ pythonProcess ->
               /\ toProgram' = Append(toProgram, <<"resume", 0>>)
               /\ UNCHANGED <<editor, crashed>>
         [] OTHER -> crashed' = TRUE /\ UNCHANGED <<editor, toProgram>>
    /\ UNCHANGED <<debuggerLoaded, entryResponse, resumeVars, terminateEventSent, lastTimer,
                   breakpointCommands, microtasks>>

\* onLastCommand.
HandleLast ==
    /\ terminateEventSent' = TRUE
    /\ lastTimer' = TRUE
    /\ UNCHANGED <<editor, debuggerLoaded, entryResponse, resumeVars, crashed,
                   breakpointCommands, microtasks, toProgram>>

\* HandleIncomingData handles the next message of the data event.
HandleMessage ==
    /\ batch > 0
    /\ ~crashed
    /\ LET message == Head(toAdapter)
       IN  \/ message[1] = "LOAD" /\ HandleProcessLoad
           \/ message[1] = "OUTP" /\ HandleDebuggerOutput
           \/ message[1] = "BRKS" /\ HandleBreakPointSet(message[2], TRUE)
           \/ message[1] = "BRKF" /\ HandleBreakPointSet(message[2], FALSE)
           \/ message[1] = "BRKH" /\ HandleBreakPointHit(message[2])
           \/ message[1] = "LAST" /\ HandleLast
    /\ batch' = batch - 1
    /\ toAdapter' = Tail(toAdapter)
    /\ UNCHANGED <<editorVars, launch, pythonProcess, registryVars, stage, unsettled,
                   programVars>>

-----------------------------------------------------------------------------
(* The program under the debugger.                                         *)

adapterVars == <<editorVars, editor, launchVars, resumeVars, endVars, registryVars,
                 bindVars, batch, microtasks>>

\* It connects and loads, or has nothing to run and says so, or dies before.
ProgramConnects ==
    /\ program = "starting"
    /\ \/ program' = "entry" /\ toAdapter' = Append(toAdapter, <<"LOAD", 0>>)
       \/ program' = "exiting" /\ toAdapter' = toAdapter \o <<<<"OUTP", 0>>, <<"LAST", 0>>>>
       \/ program' = "none" /\ UNCHANGED toAdapter
    /\ UNCHANGED <<adapterVars, toProgram, active, stops>>

ProgramConnected == program \in {"entry", "hit", "running", "exiting"}

\* Its debugger thread obeys.  A breakpoint in a module that is not loaded is answered
\* with BRKF, and set all the same.
ProgramObeys ==
    /\ ProgramConnected
    /\ toProgram # <<>>
    /\ LET command == Head(toProgram)
       IN  \/ /\ command[1] = "bind"
              /\ active' = active \union {command[2]}
              /\ \E answer \in {"BRKS", "BRKF"} :
                    toAdapter' = Append(toAdapter, <<answer, command[2]>>)
              /\ UNCHANGED program
           \/ /\ command[1] = "disable"
              /\ active' = active \ {command[2]}
              /\ UNCHANGED <<program, toAdapter>>
           \/ /\ command[1] = "resume"
              /\ program' = IF program \in {"entry", "hit"} THEN "running" ELSE program
              /\ UNCHANGED <<active, toAdapter>>
    /\ toProgram' = Tail(toProgram)
    /\ UNCHANGED <<adapterVars, stops>>

\* It reaches a breakpoint, prints, or comes to its end.
ProgramRuns ==
    /\ program = "running"
    /\ \/ /\ stops < Stops
          /\ stops' = stops + 1
          /\ \/ \E i \in active : /\ program' = "hit"
                                  /\ toAdapter' = Append(toAdapter, <<"BRKH", i>>)
             \/ toAdapter' = Append(toAdapter, <<"OUTP", 0>>) /\ UNCHANGED program
       \/ /\ program' = "exiting"
          /\ toAdapter' = Append(toAdapter, <<"LAST", 0>>)
          /\ UNCHANGED stops
    /\ UNCHANGED <<adapterVars, toProgram, active>>

\* After the acknowledgement of LAST, or without it.
ProgramExits ==
    /\ program = "exiting"
    /\ program' = "ended"
    /\ toProgram' = <<>>
    /\ toAdapter' = Append(toAdapter, <<"CLOSE", 0>>)
    /\ UNCHANGED <<adapterVars, active, stops>>

-----------------------------------------------------------------------------
SessionNext ==
    \/ LaunchRequest
    \/ LaunchFails
    \/ DisconnectRequest
    \/ \E f \in Files, lines \in SUBSET Lines : SetBreakPointsRequest(f, lines)
    \/ ConfigurationDoneRequest
    \/ ContinueRequest
    \/ SocketCloses
    \/ LastTimerFires
    \/ Microtask
    \/ DataEvent
    \/ HandleMessage
    \/ ProgramConnects
    \/ ProgramObeys
    \/ ProgramRuns
    \/ ProgramExits

SessionSpec == SessionInit /\ [][SessionNext]_sessionVars

\* The event loop runs, the program gets on with what it does, the editor comes to its
\* configurationDone, and gives up a session whose launch failed.
SessionFairness ==
    /\ WF_sessionVars(SocketCloses)
    /\ WF_sessionVars(LastTimerFires)
    /\ WF_sessionVars(Microtask)
    /\ WF_sessionVars(DataEvent)
    /\ WF_sessionVars(HandleMessage)
    /\ WF_sessionVars(ProgramConnects)
    /\ WF_sessionVars(ProgramObeys)
    /\ WF_sessionVars(ProgramExits)
    /\ WF_sessionVars(ConfigurationDoneRequest)
    /\ WF_sessionVars(launch = "failed" /\ DisconnectRequest)

FairSession == SessionSpec /\ SessionFairness

-----------------------------------------------------------------------------
(* Properties.                                                             *)

Ids == DOMAIN breakpoints
Messages == {"LOAD", "OUTP", "BRKS", "BRKF", "BRKH", "LAST", "CLOSE"}

SessionTypeOK ==
    /\ requests \in Seq([file : Files, lines : SUBSET Lines])
    /\ stage \in [RequestIds -> {"unsent", "waiting", "binding", "answered"}]
    /\ overlapped \subseteq Files
    /\ configurationSent \in BOOLEAN
    /\ editor \in [stopped : BOOLEAN, launched : 0 .. 3, terminated : 0 .. 3, gone : BOOLEAN]
    /\ launch \in {"none", "starting", "connected", "failed"}
    /\ {stopOnEntry, entryResponse, debuggerLoaded, resumeWaits, pythonProcess,
        terminateEventSent, lastTimer, crashed} \subseteq BOOLEAN
    /\ configurationDone \in {"none", "pending", "resolved"}
    /\ breakpoints \in Seq([file : Files, line : Lines])
    /\ enabled \subseteq Ids
    /\ registeredBreakpoints \subseteq Ids
    /\ registeredBreakpointsByFileName \in [Files -> Seq(Ids)]
    /\ breakpointCommands \in Seq([Id : Ids, request : RequestIds])
    /\ unsettled \in [RequestIds -> Nat]
    /\ batch \in 0 .. Len(toAdapter)
    /\ \A k \in DOMAIN microtasks :
          microtasks[k][1] \in {"set", "bound", "answer", "resume"}
    /\ toProgram \in Seq({"bind", "disable", "resume"} \X (Ids \union {0}))
    /\ toAdapter \in Seq(Messages \X (Ids \union {0}))
    /\ program \in {"none", "starting", "entry", "hit", "running", "exiting", "ended"}
    /\ active \subseteq Ids
    /\ stops \in 0 .. Stops

\* The confirmations a request waits for: commands without an answer, and answers
\* whose reaction has not run.
Awaited(r) ==
    Cardinality({k \in DOMAIN breakpointCommands : breakpointCommands[k].request = r})
        + Cardinality({k \in DOMAIN microtasks :
                          microtasks[k][1] = "bound" /\ microtasks[k][2] = r})

\* No request is forgotten: it waits for the load, for confirmations that are due, or
\* its answer is.
RequestsAreAwaited ==
    \A r \in RequestIds :
        /\ stage[r] = "waiting" => ~debuggerLoaded \/ <<"set", r>> \in Range(microtasks)
        /\ unsettled[r] = Awaited(r)
        /\ stage[r] = "binding" => Awaited(r) > 0 \/ <<"answer", r>> \in Range(microtasks)

\* Where the session counts on its PythonProcess it has one, until its end was told;
\* an exception in a handler comes after that only.
ProcessIsThere ==
    /\ debuggerLoaded /\ ~terminateEventSent => pythonProcess
    /\ crashed => terminateEventSent

\* The two registries agree, and a breakpoint is listed under its own file.
RegistriesAgree ==
    /\ registeredBreakpoints = UNION {Range(registeredBreakpointsByFileName[f]) : f \in Files}
    /\ \A f \in Files : \A i \in Range(registeredBreakpointsByFileName[f]) :
           breakpoints[i].file = f

\* The types and the bookkeeping of the session, after every event and between them.
SessionInvariant ==
    SessionTypeOK /\ RequestsAreAwaited /\ ProcessIsThere /\ RegistriesAgree
        /\ (resumeWaits => configurationDone = "pending")

\* The lines the editor asked for last.
LastLines(f) ==
    requests[Max({r \in DOMAIN requests : requests[r].file = f})].lines

\* All requests for a file were answered, in a session that is not over.
AllAnswered(f) ==
    /\ \E r \in DOMAIN requests : requests[r].file = f
    /\ \A r \in DOMAIN requests : requests[r].file = f => stage[r] = "answered"
    /\ ~terminateEventSent

LinesOf(ids, f) == {breakpoints[i].line : i \in {j \in ids : breakpoints[j].file = f}}

\* The enabled breakpoints are those of the last request, and once the program has
\* done what it was told it stops at these lines and no other.
Agree(f) ==
    /\ LinesOf(enabled, f) = LastLines(f)
    /\ ProgramConnected /\ toProgram = <<>> => LinesOf(active, f) = LastLines(f)

\* So it is when the editor waits for an answer before it asks again.
BreakpointsAgree ==
    \A f \in Files : AllAnswered(f) /\ f \notin overlapped => Agree(f)

\* The hit of a breakpoint that stands in the editor stops the session: it is resumed
\* silently only while its request is open, or after requests that overlapped.
HitsAreHonoured ==
    [][\A i \in Ids :
          LET f == breakpoints[i].file
          IN  /\ batch > 0 /\ batch' < batch /\ Head(toAdapter) = <<"BRKH", i>>
              /\ AllAnswered(f) /\ f \notin overlapped /\ breakpoints[i].line \in LastLines(f)
              => editor'.stopped]_sessionVars

\* A program that stands still does so with the knowledge of the editor, or goes on.
StopIsKnown ==
    program \in {"entry", "hit"} ~> (editor.stopped \/ program \notin {"entry", "hit"})

\* A setBreakpoints request is answered, unless the program is gone.
RequestsAreAnswered ==
    \A r \in RequestIds :
        stage[r] # "unsent" ~> (stage[r] = "answered" \/ program \in {"none", "ended"})

\* The end of a program that was connected is told.
EndIsTold == program = "ended" ~> editor.terminated > 0
=============================================================================
