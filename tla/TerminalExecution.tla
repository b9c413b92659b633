------------------------- MODULE TerminalExecution -------------------------
(***************************************************************************)
(* Running a file and a selection in the terminal of the extension: the    *)
(* provider that starts the REPL once (terminalCodeExecution.ts) and the   *)
(* service that creates and activates the terminal when a text needs it    *)
(* (terminal/service.ts), while the user closes terminals.                 *)
(*                                                                         *)
(* A step is what the extension host does between two timers, events or    *)
(* commands; callers that wait for a promise resume before the next one.   *)
(***************************************************************************)
EXTENDS Naturals, SequencesExt

CONSTANTS
    Files,         \* bound: the calls of executeFile
    Selections,    \* bound: the calls of execute
    Terminals,     \* bound: the terminals the service may create
    Foreign,       \* a terminal the user opened without the extension
    Activations,   \* how many commands activate the environment
    None

Callers == Files \union Selections

Texts == {"run", "repl", "code", "activate"}

ASSUME CallersAssumption ==
    /\ Files \cap Selections = {}
    /\ None \notin Callers \union Terminals \union Texts
    /\ Foreign \notin Terminals \union {None}
    /\ Activations \in Nat

VARIABLES
    terminal,    \* terminal of the service
    unused,      \* the terminals nobody has created yet
    open,        \* the terminals that are open in the editor
    closing,     \* the terminals closed without the event of it
    log,         \* log[t]: the texts t received, each with its sender
    replActive,  \* the caller whose promise replActive is
    started,     \* the callers whose promise of a REPL is resolved
    waiters,     \* the callers that await a promise of a REPL, in their order
    stage,       \* stage[c]: how far the call of c is
    text,        \* text[c]: what c sends once there is a terminal
    left,        \* left[c]: the activation commands c has yet to send
    awaited,     \* awaited[c]: the caller whose promise c awaits
    disturbed    \* history: the calls during which a terminal was closed

serviceVars == <<terminal, unused, open, closing, log>>
promiseVars == <<replActive, started, waiters, awaited>>
callVars == <<stage, text, left>>
vars == <<serviceVars, promiseVars, callVars, disturbed>>

Stages == {"new", "waiting", "activating", "starting", "sent", "failed"}
Own(ts) == ts \ {Foreign}

Init ==
    /\ terminal = None
    /\ unused = Terminals
    /\ open = {Foreign}
    /\ closing = {}
    /\ log = [t \in Terminals |-> <<>>]
    /\ replActive = None
    /\ started = {}
    /\ waiters = <<>>
    /\ stage = [c \in Callers |-> "new"]
    /\ text = [c \in Callers |-> None]
    /\ left = [c \in Callers |-> 0]
    /\ awaited = [c \in Callers |-> None]
    /\ disturbed = {}

-----------------------------------------------------------------------------
(* The terminal service.                                                   *)

\* A text for a terminal that was closed is lost.
Logged(c, what) ==
    IF terminal \in open
    THEN [log EXCEPT ![terminal] = Append(@, [text |-> what, by |-> c])]
    ELSE log

\* After the command that starts Python the caller waits a second for it.
AfterSending(what) == IF what = "repl" THEN "starting" ELSE "sent"

\* sendText and sendCommand, when there is a terminal.
SendNow(c, what) ==
    /\ terminal # None
    /\ log' = Logged(c, what)
    /\ stage' = [stage EXCEPT ![c] = AfterSending(what)]
    /\ UNCHANGED <<terminal, unused, open, closing, text, left>>

\* When there is none, ensureTerminal creates it, keeps it and waits for it.
CreateAndWait(c, what) ==
    /\ terminal = None
    /\ \E t \in unused :
         /\ terminal' = t
         /\ unused' = unused \ {t}
         /\ open' = open \union {t}
    /\ stage' = [stage EXCEPT ![c] = "activating"]
    /\ text' = [text EXCEPT ![c] = what]
    /\ left' = [left EXCEPT ![c] = Activations]
    /\ UNCHANGED <<closing, log>>

Send(c, what) == SendNow(c, what) \/ CreateAndWait(c, what)

-----------------------------------------------------------------------------
(* The provider.                                                           *)

\* The first of the waiters whose promise is resolved, if there is one.
Resumable == {k \in 1..Len(waiters) : awaited[waiters[k]] \in started}
Quiet == Resumable = {}

\* executeFile: the change of the directory goes to the same terminal.
RunFile(c) ==
    /\ Quiet
    /\ stage[c] = "new"
    /\ Send(c, "run")
    /\ UNCHANGED <<promiseVars, disturbed>>

\* execute, when replActive is a promise: wait for it.
AwaitRepl(c) ==
    /\ Quiet
    /\ stage[c] = "new"
    /\ replActive # None
    /\ stage' = [stage EXCEPT ![c] = "waiting"]
    /\ awaited' = [awaited EXCEPT ![c] = replActive]
    /\ waiters' = Append(waiters, c)
    /\ UNCHANGED <<serviceVars, replActive, started, text, left, disturbed>>

\* execute, when it is not: start the REPL, and wait for that.
StartRepl(c) ==
    /\ Quiet
    /\ stage[c] = "new"
    /\ replActive = None
    /\ replActive' = c
    /\ awaited' = [awaited EXCEPT ![c] = c]
    /\ waiters' = Append(waiters, c)
    /\ Send(c, "repl")
    /\ UNCHANGED <<started, disturbed>>

\* A second after Python was started its promise is resolved.
ReplStarted(c) ==
    /\ Quiet
    /\ stage[c] = "starting"
    /\ started' = started \union {c}
    /\ stage' = [stage EXCEPT ![c] = "waiting"]
    /\ UNCHANGED <<serviceVars, replActive, waiters, awaited, text, left, disturbed>>

\* A caller goes on in the order in which they began to wait; the one that
\* found the promise shows the terminal first, which creates one just as well.
Resume ==
    /\ \E k \in Resumable :
         /\ \A j \in Resumable : k <= j
         /\ waiters' = RemoveAt(waiters, k)
         /\ Send(waiters[k], "code")
    /\ UNCHANGED <<replActive, started, awaited, disturbed>>

-----------------------------------------------------------------------------
(* The timers of ensureTerminal, and the user.                             *)

\* One activation command, for whatever the terminal is by now.
Activate(c) ==
    /\ Quiet
    /\ stage[c] = "activating"
    /\ terminal # None
    /\ left[c] > 0
    /\ log' = Logged(c, "activate")
    /\ left' = [left EXCEPT ![c] = @ - 1]
    /\ UNCHANGED <<terminal, unused, open, closing, promiseVars, stage, text, disturbed>>

\* After the last one the text is sent.
Activated(c) ==
    /\ Quiet
    /\ stage[c] = "activating"
    /\ left[c] = 0
    /\ SendNow(c, text[c])
    /\ UNCHANGED <<promiseVars, disturbed>>

\* Without a terminal the call throws; a promise of a REPL then stays pending.
ActivationFails(c) ==
    /\ Quiet
    /\ stage[c] = "activating"
    /\ terminal = None
    /\ stage' = [stage EXCEPT ![c] = IF text[c] = "repl" THEN "waiting" ELSE "failed"]
    /\ UNCHANGED <<serviceVars, promiseVars, text, left, disturbed>>

Began(c) == stage[c] # "new"
Ended(c) == stage[c] \in {"sent", "failed"}
Disturbed == disturbed \union {c \in Callers : Began(c) /\ ~Ended(c)}

\* The user closes a terminal.  Bound: not the last one the service may create.
Close(t) ==
    /\ Quiet
    /\ t \in open
    /\ (t = Foreign \/ unused # {})
    /\ open' = open \ {t}
    /\ closing' = closing \union {t}
    /\ disturbed' = IF t = Foreign THEN disturbed ELSE Disturbed
    /\ UNCHANGED <<terminal, unused, log, promiseVars, callVars>>

\* Mutants: the event is not compared with the terminal; the promise is kept.
ClosesAny(t) == TRUE
ReplKept(t) == replActive

\* terminalCloseHandler, and the listener of the provider it calls.
Closes(t) == t = terminal

ReplAfterClose(t) == IF Closes(t) THEN None ELSE replActive

Closed(t) ==
    /\ Quiet
    /\ t \in closing
    /\ closing' = closing \ {t}
    /\ terminal' = IF Closes(t) THEN None ELSE terminal
    /\ replActive' = ReplAfterClose(t)
    /\ disturbed' = IF Closes(t) THEN Disturbed ELSE disturbed
    /\ UNCHANGED <<unused, open, log, started, waiters, awaited, callVars>>

Next ==
    \/ \E c \in Files : RunFile(c)
    \/ \E c \in Selections : AwaitRepl(c) \/ StartRepl(c) \/ ReplStarted(c)
    \/ Resume
    \/ \E c \in Callers : Activate(c) \/ Activated(c) \/ ActivationFails(c)
    \/ \E t \in Terminals \union {Foreign} : Close(t) \/ Closed(t)

Spec == Init /\ [][Next]_vars

\* Timers fire, events are delivered and promises resume their callers.
FairSpec ==
    /\ Spec
    /\ WF_vars(Resume)
    /\ \A c \in Callers : WF_vars(Activate(c) \/ Activated(c) \/ ActivationFails(c))
    /\ \A c \in Selections : WF_vars(ReplStarted(c))
    /\ \A t \in Terminals : WF_vars(Closed(t))

-----------------------------------------------------------------------------
(* Properties.                                                             *)

\* The type invariant; a caller awaits at most one promise at a time.
TypeOK ==
    /\ terminal \in Terminals \union {None}
    /\ unused \subseteq Terminals
    /\ open \subseteq Terminals \union {Foreign}
    /\ closing \subseteq Terminals \union {Foreign}
    /\ log \in [Terminals -> Seq([text : Texts, by : Callers])]
    /\ replActive \in Selections \union {None}
    /\ started \subseteq Selections
    /\ waiters \in Seq(Selections)
    /\ stage \in [Callers -> Stages]
    /\ text \in [Callers -> Texts \union {None}]
    /\ left \in [Callers -> 0..Activations]
    /\ awaited \in [Callers -> Selections \union {None}]
    /\ disturbed \subseteq Callers

\* However many texts need a terminal at once and whichever terminals the user
\* closes, the service knows the one terminal of its own that is open: none is
\* left behind that later texts and activations would not go to.
OneTerminal ==
    Own(open \union closing) \subseteq {terminal}

\* A terminal is open, closed but not yet reported, reported or not created.
TerminalsMove ==
    /\ open \cap closing = {}
    /\ Own(open \union closing) \cap unused = {}

\* The types, and the one terminal the service knows.
TerminalInvariant == TypeOK /\ OneTerminal /\ TerminalsMove

\* Code only goes to a terminal in which Python was started before, unless a
\* terminal was closed between the call and the code: a REPL that went away with
\* its terminal is started again.
CodeReachesRepl ==
    \A t \in Terminals : \A i \in 1..Len(log[t]) :
        (log[t][i].text = "code" /\ log[t][i].by \notin disturbed)
            => \E j \in 1..(i - 1) : log[t][j].text = "repl"

\* Every call ends, that of a file whatever is closed meanwhile, and that of a
\* selection unless a terminal was closed during it: the promise of a REPL whose
\* terminal is closed while it is activated is never settled.
CallsEnd ==
    \A c \in Callers : Began(c) ~> (Ended(c) \/ c \in disturbed \cap Selections)
=============================================================================
