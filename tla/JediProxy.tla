----------------------------- MODULE JediProxy -----------------------------
(***************************************************************************)
(* The JediProxy of one workspace: requests of the language features are   *)
(* numbered, queued and written to the standard input of a Python process  *)
(* (completion.py) and settled when its answer is parsed, when a newer     *)
(* request supersedes them, when too many are pending or when the process  *)
(* is restarted.                                                           *)
(*                                                                         *)
(* JavaScript runs each callback to completion.  The loop over the parsed  *)
(* responses is one step per iteration (HandleResponse), and every other   *)
(* callback is disabled while `responses' is not empty.                    *)
(***************************************************************************)
EXTENDS Naturals, Sequences, SequencesExt

CONSTANTS
    CommandTypes,  \* the request kinds (completions, hover, ...)
    QueueLimit,    \* the longest queue checkQueueLength leaves: 10
    RetryLimit,    \* the bound on spawnRetryAttempts: 10
    MaxRequests,   \* bound: the requests a behaviour makes
    MaxSpawns,     \* bound: the calls of spawnProcess a behaviour makes
    Faults         \* which faults the environment may produce

FaultKinds == {"badPath", "spawnError", "crash", "noAnswer", "dispose"}

ASSUME QueueLimitAssumption == QueueLimit \in Nat
ASSUME RetryLimitAssumption == RetryLimit \in Nat
ASSUME BoundsAssumption == MaxRequests \in Nat /\ MaxSpawns \in Nat
ASSUME FaultsAssumption == Faults \subseteq FaultKinds

None == "none"
ASSUME NoneAssumption == None \notin CommandTypes

Requests == 0 .. MaxRequests - 1
Spawns == 1 .. MaxSpawns
\* A response reaches the pipe in two pieces: the process may be killed, and
\* a data event may end, between them.
Pieces == Requests \X {1, 2}

VARIABLES
    cmdId,          \* the next command id
    phase,          \* phase[r]: how far the call of sendCommand for r is
    result,         \* result[r]: what the caller's promise settled with
    waitsFor,       \* waitsFor[r]: the languageServerStarted r awaits
    sentTo,         \* sentTo[r]: the process r was written to
    external,       \* requests that carry a token of the editor
    current,        \* commandCancellationTokenSources
    cancelled,      \* requests whose token was cancelled
    commands,       \* the keys of the map commands
    commandQueue,
    previousData,   \* the text no JSON could be parsed from yet
    responses,      \* the parsed responses the loop has still to handle
    proc,           \* this.proc, 0 when undefined
    languageServerStarted, \* the current deferred, 0 before the first one
    started,        \* started[n]: the state of the n-th deferred
    spawning,       \* the calls of spawnProcess that are suspended
    bootSpawn,      \* the call made by startLanguageServer, 0 before it
    initialized,    \* this.initialized is resolved
    spawnRetryAttempts,
    disposed,
    server,         \* server[n]: the state of the process of the n-th spawn
    stdin, stdout,  \* the pipes of each process
    written,        \* written[n]: the pieces of the head of stdin[n] written
    answers         \* history: answers[r]: what the process that read r made of it

callerVars == <<phase, result, waitsFor, sentTo, external, current, cancelled>>
queueVars == <<commands, commandQueue>>
dataVars == <<previousData, responses>>
spawnVars == <<languageServerStarted, started, spawning, bootSpawn, initialized>>
pipeVars == <<stdin, stdout, written, answers>>
vars == <<cmdId, callerVars, queueVars, dataVars, proc, spawnVars,
          spawnRetryAttempts, disposed, server, pipeVars>>

Idle == responses = <<>>

Pending(r) == phase[r] = "sent" /\ result[r] = None

\* A promise settles once.
Settle(rs, outcome) ==
    [r \in Requests |-> IF r \in rs /\ result[r] = None THEN outcome ELSE result[r]]

Init ==
    /\ cmdId = 0
    /\ phase = [r \in Requests |-> "new"]
    /\ result = [r \in Requests |-> None]
    /\ waitsFor = [r \in Requests |-> 0]
    /\ sentTo = [r \in Requests |-> 0]
    /\ external = {}
    /\ current = [t \in CommandTypes |-> {}]
    /\ cancelled = {}
    /\ commands = {}
    /\ commandQueue = <<>>
    /\ previousData = <<>>
    /\ responses = <<>>
    /\ proc = 0
    /\ languageServerStarted = 0
    /\ started = [n \in Spawns |-> "pending"]
    /\ spawning = {}
    /\ bootSpawn = 0
    /\ initialized = FALSE
    /\ spawnRetryAttempts = 0
    /\ disposed = FALSE
    /\ server = [n \in Spawns |-> "none"]
    /\ stdin = [n \in Spawns |-> <<>>]
    /\ stdout = [n \in Spawns |-> <<>>]
    /\ written = [n \in Spawns |-> 0]
    /\ answers = [r \in Requests |-> None]

-----------------------------------------------------------------------------
(* Requests: JediProxyHandler and JediProxy.sendCommand.                   *)

\* A mutant: the previous request of the kind is not cancelled.
SupersedesNothing(t) == {}

\* The request a new request of kind t cancels.
Superseded(t) == current[t]

\* JediProxyHandler.sendCommand: the request takes an id and a token of its
\* own, and cancels the last request of its kind.  JediProxy.sendCommand then
\* suspends on this.initialized.
SendCommand(t) ==
    /\ Idle
    /\ cmdId \in Requests
    /\ cmdId' = cmdId + 1
    /\ phase' = [phase EXCEPT ![cmdId] = "initial"]
    /\ cancelled' = cancelled \union Superseded(t)
    /\ current' = [current EXCEPT ![t] = {cmdId}]
    /\ UNCHANGED <<result, waitsFor, sentTo, external, queueVars, dataVars, proc,
                   spawnVars, spawnRetryAttempts, disposed, server, pipeVars>>

\* The request carries the editor's token and cancels no other.
SendNonCancellableCommand ==
    /\ Idle
    /\ cmdId \in Requests
    /\ cmdId' = cmdId + 1
    /\ phase' = [phase EXCEPT ![cmdId] = "initial"]
    /\ external' = external \union {cmdId}
    /\ UNCHANGED <<result, waitsFor, sentTo, current, cancelled, queueVars, dataVars,
                   proc, spawnVars, spawnRetryAttempts, disposed, server, pipeVars>>

\* The editor cancels while it waits: the token of a settled request is not
\* looked at again.
EditorCancels(r) ==
    /\ Idle
    /\ r \in external \ cancelled
    /\ result[r] = None
    /\ cancelled' = cancelled \union {r}
    /\ UNCHANGED <<cmdId, phase, result, waitsFor, sentTo, external, current,
                   queueVars, dataVars, proc, spawnVars, spawnRetryAttempts,
                   disposed, server, pipeVars>>

\* After this.initialized the call suspends on the deferred the field
\* languageServerStarted holds at that moment.
AwaitLanguageServer(r) ==
    /\ Idle
    /\ phase[r] = "initial"
    /\ initialized
    /\ phase' = [phase EXCEPT ![r] = "starting"]
    /\ waitsFor' = [waitsFor EXCEPT ![r] = languageServerStarted]
    /\ UNCHANGED <<cmdId, result, sentTo, external, current, cancelled, queueVars,
                   dataVars, proc, spawnVars, spawnRetryAttempts, disposed, server,
                   pipeVars>>

Resumes(r, state) ==
    /\ Idle
    /\ phase[r] = "starting"
    /\ started[waitsFor[r]] = state

\* The payload is written, then the command is tracked.  A write to a process
\* that has died may still be accepted by the pipe.
WriteCommand(r) ==
    /\ Resumes(r, "resolved")
    /\ proc # 0
    /\ phase' = [phase EXCEPT ![r] = "sent"]
    /\ sentTo' = [sentTo EXCEPT ![r] = proc]
    /\ stdin' = [stdin EXCEPT ![proc] =
                    IF server[proc] = "alive" THEN Append(@, r) ELSE @]
    /\ commands' = commands \union {r}
    /\ commandQueue' = Append(commandQueue, r)
    /\ UNCHANGED <<cmdId, result, waitsFor, external, current, cancelled, dataVars,
                   proc, spawnVars, spawnRetryAttempts, disposed, server, stdout,
                   written, answers>>

\* The write throws: the process is forgotten when its socket is closed.
WriteFails(r) ==
    /\ Resumes(r, "resolved")
    /\ proc # 0 /\ server[proc] = "crashed"
    /\ proc' \in {0, proc}
    /\ phase' = [phase EXCEPT ![r] = "done"]
    /\ result' = [result EXCEPT ![r] = "undefined"]
    /\ UNCHANGED <<cmdId, waitsFor, sentTo, external, current, cancelled, queueVars,
                   dataVars, spawnVars, spawnRetryAttempts, disposed, server, pipeVars>>

\* The deferred was rejected, or there is no process: the caller gets
\* undefined from the handler's catch.
SendFails(r) ==
    /\ \/ Resumes(r, "rejected")
       \/ Resumes(r, "resolved") /\ proc = 0
    /\ phase' = [phase EXCEPT ![r] = "done"]
    /\ result' = [result EXCEPT ![r] = "undefined"]
    /\ UNCHANGED <<cmdId, waitsFor, sentTo, external, current, cancelled, queueVars,
                   dataVars, proc, spawnVars, spawnRetryAttempts, disposed, server,
                   pipeVars>>

-----------------------------------------------------------------------------
(* Restarting the language server.                                         *)

\* A deferred settles once.
SettleDeferred(n, state) ==
    [m \in Spawns |-> IF m = n /\ started[m] = "pending" THEN state ELSE started[m]]

\* A mutant: the deferred is replaced without being rejected.
StartedForgotten == started

\* The deferred a new spawn replaces is rejected if nobody completed it.
StartedReplaced == SettleDeferred(languageServerStarted, "rejected")

\* The synchronous part of spawnProcess.
BeginSpawn(n) ==
    /\ n = languageServerStarted + 1
    /\ n \in Spawns
    /\ started' = StartedReplaced
    /\ languageServerStarted' = n
    /\ spawning' = spawning \union {n}

KilledServer ==
    [n \in Spawns |-> IF n = proc /\ server[n] = "alive" THEN "killed" ELSE server[n]]

\* Mutants: the pending requests are kept; they are forgotten unsettled.
KeepPendingRequests == UNCHANGED <<commandQueue, result, commands>>
ForgetPendingRequests == commandQueue' = <<>> /\ commands' = {} /\ UNCHANGED result

ClearPendingRequests ==
    /\ commandQueue' = <<>>
    /\ result' = Settle(commands, "undefined")
    /\ commands' = {}

\* killProcess, clearPendingRequests and the call of spawnProcess.
RestartLanguageServer(n) ==
    /\ Idle
    /\ server' = KilledServer
    /\ proc' = 0
    /\ ClearPendingRequests
    /\ BeginSpawn(n)
    /\ UNCHANGED <<cmdId, phase, waitsFor, sentTo, external, current, cancelled,
                   dataVars, initialized, spawnRetryAttempts, disposed, pipeVars>>

\* The constructor's startLanguageServer, once the completion paths are known.
StartLanguageServer ==
    /\ bootSpawn = 0
    /\ bootSpawn' = languageServerStarted + 1
    /\ RestartLanguageServer(languageServerStarted + 1)

\* The interpreter or the environment changed and the new completion paths
\* are known, or the memory check found the process too large.
RestartOnChange ==
    /\ RestartLanguageServer(languageServerStarted + 1)
    /\ UNCHANGED bootSpawn

\* A mutant: the deferred is never settled.
LeaveStarted(state) == UNCHANGED started

\* Whichever spawn resumes settles the deferred the field holds now.
SettleStarted(state) == started' = SettleDeferred(languageServerStarted, state)

EndSpawn(n) ==
    /\ Idle
    /\ n \in spawning
    /\ spawning' = spawning \ {n}
    /\ initialized' = (initialized \/ n = bootSpawn)
    /\ UNCHANGED <<cmdId, callerVars, queueVars, dataVars, languageServerStarted,
                   bootSpawn, spawnRetryAttempts, disposed, pipeVars>>

\* spawnProcess after its awaits: the new process replaces this.proc.
SpawnSucceeds(n) ==
    /\ EndSpawn(n)
    /\ server' = [server EXCEPT ![n] = "alive"]
    /\ proc' = n
    /\ SettleStarted("resolved")

\* The python path is not valid: spawnProcess returns.
SpawnFindsNoPython(n) ==
    /\ "badPath" \in Faults
    /\ EndSpawn(n)
    /\ UNCHANGED <<server, proc, started>>

\* spawnProcess throws: initialize rejects the current deferred.
SpawnThrows(n) ==
    /\ "spawnError" \in Faults
    /\ EndSpawn(n)
    /\ SettleStarted("rejected")
    /\ UNCHANGED <<server, proc>>

\* A mutant: the retries are not limited.
RespawnAlways == TRUE

RespawnAllowed == spawnRetryAttempts + 1 < RetryLimit

\* The 'error' event of a process whose socket was ended: spawn again, with
\* nothing killed and nothing cleared.
RespawnAfterError(p) ==
    /\ Idle
    /\ server[p] = "crashed"
    /\ RespawnAllowed
    /\ spawnRetryAttempts' = spawnRetryAttempts + 1
    /\ BeginSpawn(languageServerStarted + 1)
    /\ UNCHANGED <<cmdId, callerVars, queueVars, dataVars, proc, bootSpawn, initialized,
                   disposed, server, pipeVars>>

\* The retries are used up: the event is only counted (up to RetryLimit).
ErrorAfterLastRetry(p) ==
    /\ Idle
    /\ server[p] = "crashed"
    /\ ~RespawnAllowed
    /\ spawnRetryAttempts < RetryLimit
    /\ spawnRetryAttempts' = spawnRetryAttempts + 1
    /\ UNCHANGED <<cmdId, callerVars, queueVars, dataVars, proc, spawnVars, disposed,
                   server, pipeVars>>

\* JediProxy.dispose.
Dispose ==
    /\ "dispose" \in Faults
    /\ Idle
    /\ disposed' = TRUE
    /\ server' = KilledServer
    /\ proc' = 0
    /\ UNCHANGED <<cmdId, callerVars, queueVars, dataVars, spawnVars,
                   spawnRetryAttempts, pipeVars>>

-----------------------------------------------------------------------------
(* Answers.                                                                *)

\* A mutant: the text is parsed as one JSON value.
ParsesAsOne(data) ==
    Len(data) = 2 /\ data[1][2] = 1 /\ data[2] = <<data[1][1], 2>>

\* The text is a sequence of complete responses: JSON.parse accepts each line.
Parses(data) ==
    /\ Len(data) % 2 = 0
    /\ \A i \in 1 .. Len(data) \div 2 :
          /\ data[2 * i - 1][2] = 1
          /\ data[2 * i] = <<data[2 * i - 1][1], 2>>

Parsed(data) == [i \in 1 .. Len(data) \div 2 |-> data[2 * i][1]]

\* A data event of the standard output of process p.  The subscription of a
\* killed process stays until its pipe is drained.
ReadData(p) ==
    /\ Idle
    /\ \E k \in 1 .. Len(stdout[p]) :
          LET data == previousData \o SubSeq(stdout[p], 1, k)
          IN  /\ stdout' = [stdout EXCEPT ![p] = SubSeq(@, k + 1, Len(@))]
              /\ IF Parses(data)
                 THEN previousData' = <<>> /\ responses' = Parsed(data)
                 ELSE previousData' = data /\ UNCHANGED responses
    /\ UNCHANGED <<cmdId, callerVars, queueVars, proc, spawnVars, spawnRetryAttempts,
                   disposed, server, stdin, written, answers>>

\* const index = indexOf(id); if (index) { splice(index, 1); } -- the head
\* (index 0) stays, and index -1 removes the last element.  Ids are queued
\* once (QueueListsCommands), so any position of the id is the first.
Spliced(q, r) ==
    IF q # <<>> /\ q[1] = r THEN q
    ELSE IF r \in Range(q) THEN RemoveAt(q, CHOOSE i \in 1 .. Len(q) : q[i] = r)
    ELSE SubSeq(q, 1, Len(q) - 1)

\* A mutant: one request too many is given up.
ExcessOffByOne(q) == IF Len(q) >= QueueLimit THEN Len(q) - QueueLimit + 1 ELSE 0

\* checkQueueLength drops what exceeds the limit, oldest first.
Excess(q) == IF Len(q) > QueueLimit THEN Len(q) - QueueLimit ELSE 0
Dropped(q) == {q[i] : i \in 1 .. Excess(q)}
Trimmed(q) == SubSeq(q, Excess(q) + 1, Len(q))

\* The answer to a request nobody tracks any more is ignored.
IgnoreResponse ==
    /\ responses # <<>>
    /\ Head(responses) \notin commands
    /\ responses' = Tail(responses)
    /\ UNCHANGED <<cmdId, callerVars, queueVars, previousData, proc, spawnVars,
                   spawnRetryAttempts, disposed, server, pipeVars>>

\* The request was cancelled: its promise resolves with undefined.
ExpireResponse ==
    /\ responses # <<>>
    /\ LET r == Head(responses)
       IN  /\ r \in commands \intersect cancelled
           /\ commands' = commands \ {r}
           /\ commandQueue' = Spliced(commandQueue, r)
           /\ result' = Settle({r}, "undefined")
    /\ responses' = Tail(responses)
    /\ UNCHANGED <<cmdId, phase, waitsFor, sentTo, external, current, cancelled,
                   previousData, proc, spawnVars, spawnRetryAttempts, disposed, server,
                   pipeVars>>

\* The handler of the request's kind (onCompletion, ...) resolves its promise.
Answered(r, outcomes) ==
    [outcomes EXCEPT ![r] = IF @ = None THEN "answer" ELSE @]

\* The handler is called with the answer, and checkQueueLength gives up the oldest requests beyond the limit.
AnswerRequest ==
    /\ responses # <<>>
    /\ LET r == Head(responses)
           q == Spliced(commandQueue, r)
           given_up == Dropped(q) \intersect (commands \ {r})
       IN  /\ r \in commands \ cancelled
           /\ commands' = commands \ ({r} \union given_up)
           /\ commandQueue' = Trimmed(q)
           /\ result' = Answered(r, Settle(given_up, "undefined"))
    /\ responses' = Tail(responses)
    /\ UNCHANGED <<cmdId, phase, waitsFor, sentTo, external, current, cancelled,
                   previousData, proc, spawnVars, spawnRetryAttempts, disposed, server,
                   pipeVars>>

HandleResponse == IgnoreResponse \/ ExpireResponse \/ AnswerRequest

-----------------------------------------------------------------------------
(* The process running completion.py.                                      *)

ServerWrites(p) ==
    /\ server[p] = "alive"
    /\ stdin[p] # <<>>
    /\ stdout' = [stdout EXCEPT ![p] = Append(@, <<Head(stdin[p]), written[p] + 1>>)]
    /\ IF written[p] = 1
       THEN /\ written' = [written EXCEPT ![p] = 0]
            /\ stdin' = [stdin EXCEPT ![p] = Tail(@)]
            /\ answers' = [answers EXCEPT ![Head(stdin[p])] = "written"]
       ELSE /\ written' = [written EXCEPT ![p] = 1]
            /\ UNCHANGED <<stdin, answers>>
    /\ UNCHANGED <<cmdId, callerVars, queueVars, dataVars, proc, spawnVars,
                   spawnRetryAttempts, disposed, server>>

\* _process_request raises: the traceback goes to stderr and nothing else is
\* written.
ServerRaises(p) ==
    /\ "noAnswer" \in Faults
    /\ server[p] = "alive"
    /\ stdin[p] # <<>> /\ written[p] = 0
    /\ stdin' = [stdin EXCEPT ![p] = Tail(@)]
    /\ answers' = [answers EXCEPT ![Head(stdin[p])] = "raised"]
    /\ UNCHANGED <<cmdId, callerVars, queueVars, dataVars, proc, spawnVars,
                   spawnRetryAttempts, disposed, server, stdout, written>>

ServerCrashes(p) ==
    /\ "crash" \in Faults
    /\ server[p] = "alive"
    /\ server' = [server EXCEPT ![p] = "crashed"]
    /\ UNCHANGED <<cmdId, callerVars, queueVars, dataVars, proc, spawnVars,
                   spawnRetryAttempts, disposed, pipeVars>>

-----------------------------------------------------------------------------
Next ==
    \/ \E t \in CommandTypes : SendCommand(t)
    \/ SendNonCancellableCommand
    \/ \E r \in Requests :
          \/ EditorCancels(r)
          \/ AwaitLanguageServer(r)
          \/ WriteCommand(r)
          \/ WriteFails(r)
          \/ SendFails(r)
    \/ StartLanguageServer
    \/ RestartOnChange
    \/ \E n \in Spawns :
          \/ SpawnSucceeds(n)
          \/ SpawnFindsNoPython(n)
          \/ SpawnThrows(n)
          \/ RespawnAfterError(n)
          \/ ErrorAfterLastRetry(n)
          \/ ReadData(n)
          \/ ServerWrites(n)
          \/ ServerRaises(n)
          \/ ServerCrashes(n)
    \/ HandleResponse
    \/ Dispose

Spec == Init /\ [][Next]_vars

\* The event loop runs every callback that is due, and a process answers what
\* it reads.
Fairness ==
    /\ WF_vars(StartLanguageServer)
    /\ WF_vars(HandleResponse)
    /\ \A r \in Requests :
          /\ WF_vars(AwaitLanguageServer(r))
          /\ WF_vars(WriteCommand(r) \/ WriteFails(r) \/ SendFails(r))
    /\ \A n \in Spawns :
          /\ WF_vars(SpawnSucceeds(n) \/ SpawnFindsNoPython(n) \/ SpawnThrows(n))
          /\ WF_vars(ServerWrites(n))
          /\ WF_vars(ReadData(n))

FairSpec == Spec /\ Fairness

-----------------------------------------------------------------------------
(* Properties.                                                             *)

\* Every variable has its type; in particular the error events of dead
\* processes start a bounded number of spawns (jediProxy.ts:357).
TypeOK ==
    /\ cmdId \in 0 .. MaxRequests
    /\ phase \in [Requests -> {"new", "initial", "starting", "sent", "done"}]
    /\ result \in [Requests -> {None, "answer", "undefined"}]
    /\ waitsFor \in [Requests -> 0 .. MaxSpawns]
    /\ sentTo \in [Requests -> 0 .. MaxSpawns]
    /\ external \subseteq Requests
    /\ current \in [CommandTypes -> SUBSET Requests]
    /\ cancelled \subseteq Requests
    /\ commands \subseteq Requests
    /\ commandQueue \in Seq(Requests)
    /\ previousData \in Seq(Pieces)
    /\ responses \in Seq(Requests)
    /\ proc \in 0 .. MaxSpawns
    /\ languageServerStarted \in 0 .. MaxSpawns
    /\ started \in [Spawns -> {"pending", "resolved", "rejected"}]
    /\ spawning \subseteq Spawns
    /\ bootSpawn \in 0 .. MaxSpawns
    /\ initialized \in BOOLEAN
    /\ spawnRetryAttempts \in 0 .. RetryLimit
    /\ disposed \in BOOLEAN
    /\ server \in [Spawns -> {"none", "alive", "killed", "crashed"}]
    /\ stdin \in [Spawns -> Seq(Requests)]
    /\ stdout \in [Spawns -> Seq(Pieces)]
    /\ written \in [Spawns -> {0, 1}]
    /\ answers \in [Requests -> {None, "written", "raised"}]

\* q lists each request of rs once, and nothing else but at its head.
Lists(q, rs) ==
    /\ rs \subseteq Range(q)
    /\ \A i \in 2 .. Len(q) : q[i] \in rs
    /\ \A i, j \in 1 .. Len(q) : q[i] = q[j] => i = j

\* The queue lists each tracked request once; the only other id it can hold is
\* at its head, where the splice of jediProxy.ts:413 leaves it.
QueueListsCommands == Lists(commandQueue, commands)

\* No request is forgotten: one that was written and whose caller still waits
\* is in the map of commands, where an answer, the queue limit or a restart
\* will find it.
NoLostRequest == \A r \in Requests : Pending(r) <=> r \in commands

\* The strengthening that makes the two properties above inductive: what is
\* queued was written, and a promise is not settled before its command is.
PhasesMatchQueue ==
    \A r \in Requests :
       /\ r >= cmdId => phase[r] = "new"
       /\ phase[r] \in {"new", "initial", "starting"} => result[r] = None
       /\ r \in Range(commandQueue) => phase[r] = "sent"

\* The queue never loses a caller, whatever is answered, cancelled, restarted and given up.
QueueInvariant ==
    TypeOK /\ QueueListsCommands /\ NoLostRequest /\ PhasesMatchQueue

\* No caller is left waiting for an answer of a process that restart killed.
NoRequestToKilledServer ==
    disposed \/ \A r \in commands : server[sentTo[r]] # "killed"

\* Nobody can be waiting on a superseded languageServerStarted for ever: only
\* the newest deferred may be pending.
OldDeferredsSettled ==
    \A n \in Spawns : n < languageServerStarted => started[n] # "pending"

\* The editor never gets the answer of an outdated request: an answer settles
\* the latest request of its kind, or one that carries the editor's token.
AnsweredIsLatest ==
    [][\A r \in Requests \ external :
          result[r] # "answer" /\ result'[r] = "answer"
             => \E t \in CommandTypes : r \in current[t]]_vars

\* The queue without the id the splice left at its head.
LiveQueue ==
    IF commandQueue # <<>> /\ Head(commandQueue) \notin commands
    THEN Tail(commandQueue) ELSE commandQueue

\* The queue, the map and the deferreds implement the ledger of open requests:
\* every request is settled once, a withdrawn one is never answered, and what
\* is given up is the oldest beyond the limit.
Ledger == INSTANCE RequestLedger
             WITH Limit <- QueueLimit, open <- LiveQueue, withdrawn <- cancelled,
                  outcome <- result

ImplementsLedger == Ledger!Spec

\* The deferred r waits for is pending and nobody is left who would settle it:
\* its spawnProcess returned without a process, the python path was not valid.
NobodySpawns(r) ==
    /\ phase[r] = "starting" /\ started[waitsFor[r]] = "pending"
    /\ spawning = {} /\ server[waitsFor[r]] = "none"

\* A request that waits for the language server is written or refused, unless
\* the spawn it waits for found no python.
StartingSettles ==
    \A r \in Requests :
       phase[r] = "starting" ~> (phase[r] \in {"sent", "done"} \/ []NobodySpawns(r))

\* The text retained for the next data event has an answer that nothing completes:
\* its process ended in the middle of it, or text of another process follows.
CutAnswerStays ==
    \E i \in 1 .. Len(previousData) :
       LET cut == previousData[i][1]
       IN  /\ previousData[i][2] = 1
           /\ \/ answers[cut] = None /\ server[sentTo[cut]] # "alive"
              \/ i < Len(previousData) /\ sentTo[previousData[i + 1][1]] # sentTo[cut]

\* No answer to r was written in full: its process raised, or ended before.
Unanswered(r) ==
    /\ phase[r] = "sent"
    /\ \/ answers[r] = "raised"
       \/ answers[r] = None /\ server[sentTo[r]] # "alive"

\* A request that was written is settled: an answer that its process wrote in full
\* never gets lost in the pipe, the retained text, the parser or the map, unless an
\* answer that was cut off stays in the text with it for good.
SentSettles ==
    \A r \in Requests :
       phase[r] = "sent" ~> (result[r] # None \/ []CutAnswerStays \/ []Unanswered(r))
=============================================================================
