--------------------------- MODULE DebuggerThreads ---------------------------
(***************************************************************************)
(* The threads of a debugged program and the command loop that stops and   *)
(* resumes them: PythonTools/visualstudio_py_debugger.py.  A thread that   *)
(* stops parks on its block_lock; its block_starting_lock orders the       *)
(* report of the stop before the commands about it.  A step is what a      *)
(* thread does from one lock to the next, or to a variable that another    *)
(* thread tests without a lock.  A report is known to the adapter at once; *)
(* a command waits in inbox until the loop reads it.                       *)
(***************************************************************************)
EXTENDS Integers, Sequences, FiniteSets

CONSTANTS Threads,      \* the threads the program can have
          Main,         \* the one it is launched with
          Evaluations,  \* the evaluations the adapter asks for, one at a time
          Enumerations, \* the expansions of variables it asks for, whatever is under way
          MaxCommands,  \* bound: commands that stop, resume or detach
          Kinds,        \* bound: what each stop of the program may be: HitBreakpoint, RaiseException
          Nothing       \* no work, no owner

Reasons == {"breakpoint", "zombie", "step", "exception", "loaded", "async"}

ASSUME MainAssumption == Main \in Threads
ASSUME NothingAssumption ==
    Nothing \notin Evaluations \union Enumerations \union Threads \union Reasons \union {"loop"}
ASSUME LoopAssumption == "loop" \notin Threads
ASSUME KindsAssumption == Kinds \in Seq(SUBSET {"breakpoint", "zombie", "exception"})

VARIABLES
    thread,             \* the Thread objects, with where each one is
    THREADS,            \* the registered threads
    registryLeaked,     \* THREADS_LOCK was left taken by an exception
    SEND_BREAK_COMPLETE,
    DETACHED,
    breakpoints,        \* BREAKPOINTS is not empty
    loop,               \* the command loop: what it does, and who is left
    inbox,              \* the commands on their way to it
    adapter             \* what the adapter shows stopped, and waits for

Asked == Evaluations \union Enumerations

serverVars == <<SEND_BREAK_COMPLETE, DETACHED, breakpoints>>
vars == <<thread, THREADS, registryLeaked, serverVars, loop, inbox, adapter>>

\* The values of stepping that matter here: STEPPING_INTO, _OVER and _OUT are "step".
Steppings == {"none", "break", "launch", "step"}
Parked == {"marking", "visiting", "waiting", "acquiring", "woken", "working", "worked", "leaving"}
Places == Parked \union {"unborn", "starting", "running", "stacks", "stopping", "untraced", "exited"}

NewThread == [at |-> "unborn", why |-> Nothing, todo |-> {}, stepping |-> "none",
              detach |-> FALSE, is_blocked |-> FALSE, is_working |-> FALSE,
              unblock_work |-> Nothing, block_lock |-> TRUE, block_starting_lock |-> Nothing,
              releases |-> 0]

Init ==
    /\ thread = [t \in Threads |->
                   IF t = Main THEN [NewThread EXCEPT !.at = "running", !.stepping = "launch"]
                               ELSE NewThread]
    /\ THREADS = {Main}
    /\ registryLeaked = FALSE
    /\ SEND_BREAK_COMPLETE = FALSE
    /\ DETACHED = FALSE
    /\ breakpoints = TRUE
    /\ loop = [at |-> "reading", left |-> {}]
    /\ inbox = <<>>
    /\ adapter = [attached |-> TRUE, pausing |-> FALSE, shown |-> {}, asked |-> {},
                  stops |-> 0, commands |-> 0]

-----------------------------------------------------------------------------
(* The threads of the program. *)

\* THREADS_LOCK can be taken: whoever sends takes it for a moment, too.
Registry == ~registryLeaked

\* A registered thread runs and gets its next event; a marked one breaks first: TraceBreak.
Traced(t) == thread[t].at = "running" /\ t \in THREADS /\ thread[t].stepping # "break"

\* The program has reached its first line.
Loaded(t) == Traced(t) /\ thread[t].stepping # "launch"

Becomes(t, object) == thread' = [thread EXCEPT ![t] = object]

\* The bound on the stops of the program.
NextKinds == IF adapter.stops < Len(Kinds) THEN Kinds[adapter.stops + 1] ELSE {}

\* update_all_thread_stacks(self) comes before every stop but that of async_break.
ToStop(t, why, then) ==
    Becomes(t, [thread[t] EXCEPT !.at = "stacks", !.why = why, !.todo = THREADS \ {t},
                                 !.stepping = then])

\* handle_line: the breakpoint is one the adapter has registered, or one it has not.
HitBreakpoint(t) ==
    /\ Traced(t)
    /\ Registry
    /\ ~DETACHED
    /\ breakpoints
    /\ \E why \in NextKinds \ {"exception"} : ToStop(t, why, thread[t].stepping)
    /\ adapter' = [adapter EXCEPT !.stops = @ + 1]
    /\ UNCHANGED <<THREADS, registryLeaked, serverVars, loop, inbox>>

\* handle_exception
RaiseException(t) ==
    /\ "exception" \in NextKinds
    /\ Loaded(t)
    /\ Registry
    /\ ~DETACHED
    /\ ToStop(t, "exception", thread[t].stepping)
    /\ adapter' = [adapter EXCEPT !.stops = @ + 1]
    /\ UNCHANGED <<THREADS, registryLeaked, serverVars, loop, inbox>>

\* block_maybe_attach: the end of a step, or the first line of the program.
CompleteStep(t) ==
    /\ Traced(t)
    /\ Registry
    /\ ~DETACHED
    /\ \/ thread[t].stepping = "step" /\ ToStop(t, "step", "none")
       \/ thread[t].stepping = "launch" /\ ToStop(t, "loaded", "none")
    /\ UNCHANGED <<THREADS, registryLeaked, serverVars, loop, inbox, adapter>>

\* trace_func, for a marked thread: it ceases to trace, or blocks in async_break.
TraceBreak(t) ==
    /\ thread[t].at = "running"
    /\ thread[t].stepping = "break"
    /\ IF thread[t].detach
       THEN Becomes(t, [thread[t] EXCEPT !.at = "untraced"])
       ELSE Becomes(t, [thread[t] EXCEPT !.at = "stopping", !.why = "async",
                                         !.stepping = "none"])
    /\ UNCHANGED <<THREADS, registryLeaked, serverVars, loop, inbox, adapter>>

\* thread_creator: a running thread starts one ...
StartThread(t) ==
    /\ thread[t].at = "unborn"
    /\ ~DETACHED
    /\ \E u \in Threads : Loaded(u)
    /\ Becomes(t, [thread[t] EXCEPT !.at = "starting"])
    /\ UNCHANGED <<THREADS, registryLeaked, serverVars, loop, inbox, adapter>>

\* ... that registers itself in new_thread_wrapper, unmarked.
RegisterThread(t) ==
    /\ thread[t].at = "starting"
    /\ Registry
    /\ Becomes(t, [thread[t] EXCEPT !.at = "running"])
    /\ THREADS' = THREADS \union {t}
    /\ UNCHANGED <<registryLeaked, serverVars, loop, inbox, adapter>>

ExitThread(t) ==
    /\ Loaded(t)
    /\ Registry
    /\ Becomes(t, [thread[t] EXCEPT !.at = "exited"])
    /\ THREADS' = THREADS \ {t}
    /\ adapter' = [adapter EXCEPT !.shown = @ \ {t}]
    /\ UNCHANGED <<registryLeaked, serverVars, loop, inbox>>

\* update_all_thread_stacks passes through the starting lock of each of the other threads.
VisitStack(t, u) ==
    /\ thread[t].at \in {"stacks", "visiting"}
    /\ u \in thread[t].todo
    /\ thread[u].block_starting_lock = Nothing
    /\ Registry
    /\ Becomes(t, [thread[t] EXCEPT !.todo = @ \ {u}])
    /\ UNCHANGED <<THREADS, registryLeaked, serverVars, loop, inbox, adapter>>

StacksVisited(t) ==
    /\ thread[t].at = "stacks"
    /\ thread[t].todo = {}
    /\ Becomes(t, [thread[t] EXCEPT !.at = "stopping"])
    /\ UNCHANGED <<THREADS, registryLeaked, serverVars, loop, inbox, adapter>>

\* A mutant: the thread is not known to be blocked.
HoldingUnblocked(t, place, visits) ==
    Becomes(t, [thread[t] EXCEPT !.block_starting_lock = t, !.why = Nothing, !.at = place,
                                 !.todo = visits])

\* block takes the starting lock and holds it while it tells why it stops.
Holding(t, place, visits) ==
    Becomes(t, [thread[t] EXCEPT !.is_blocked = TRUE, !.block_starting_lock = t,
                                 !.why = Nothing, !.at = place, !.todo = visits])

CanStop(t) ==
    /\ thread[t].at = "stopping"
    /\ thread[t].block_starting_lock = Nothing
    /\ Registry

Shows(t) ==
    adapter' = [adapter EXCEPT !.shown = IF adapter.attached THEN @ \union {t} ELSE @,
                               !.pausing = FALSE]

\* A stop that is reported whatever the adapter asked for.  The adapter shows it; a breakpoint
\* that it does not know and the end of the loading it answers by resuming the thread.
ReportStop(t) ==
    /\ CanStop(t)
    /\ thread[t].why # "async"
    /\ Holding(t, IF thread[t].why \in {"breakpoint", "zombie", "step"}
                  THEN "marking" ELSE "visiting", {})
    /\ IF thread[t].why \in {"zombie", "loaded"}
       THEN /\ inbox' = IF adapter.attached THEN Append(inbox, <<"resume", t>>) ELSE inbox
            /\ UNCHANGED adapter
       ELSE Shows(t) /\ UNCHANGED inbox
    /\ UNCHANGED <<THREADS, registryLeaked, serverVars, loop>>

\* async_break_send: one of the threads tells that the break is complete, and asks for the
\* stacks of the others with its own starting lock in its hands.
ReportBreak(t) ==
    /\ CanStop(t)
    /\ thread[t].why = "async"
    /\ IF SEND_BREAK_COMPLETE
       THEN /\ Holding(t, "visiting", THREADS \ {t})
            /\ Shows(t)
       ELSE /\ Holding(t, "visiting", {})
            /\ UNCHANGED adapter
    /\ SEND_BREAK_COMPLETE' = FALSE
    /\ UNCHANGED <<THREADS, registryLeaked, DETACHED, breakpoints, loop, inbox>>

Mark(ts) == [u \in Threads |-> IF u \in ts THEN [thread[u] EXCEPT !.stepping = "break"]
                                           ELSE thread[u]]

\* mark_all_threads_for_break(skip_thread = self), after the report.
MarkOthers(t) ==
    /\ thread[t].at = "marking"
    /\ Registry
    /\ thread' = [Mark(THREADS \ {t}) EXCEPT ![t] = [thread[t] EXCEPT !.at = "visiting"]]
    /\ UNCHANGED <<THREADS, registryLeaked, serverVars, loop, inbox, adapter>>

\* The stop is told: the starting lock is released.
Park(t) ==
    /\ thread[t].at = "visiting"
    /\ thread[t].todo = {}
    /\ Becomes(t, [thread[t] EXCEPT !.at = "waiting", !.block_starting_lock = Nothing])
    /\ UNCHANGED <<THREADS, registryLeaked, serverVars, loop, inbox, adapter>>

\* while not DETACHED: the test and the wait are two steps.
Wait(t) ==
    /\ thread[t].at = "waiting"
    /\ Becomes(t, [thread[t] EXCEPT !.at = IF DETACHED THEN "leaving" ELSE "acquiring"])
    /\ UNCHANGED <<THREADS, registryLeaked, serverVars, loop, inbox, adapter>>

Acquire(t) ==
    /\ thread[t].at = "acquiring"
    /\ ~thread[t].block_lock
    /\ Becomes(t, [thread[t] EXCEPT !.at = "woken", !.block_lock = TRUE])
    /\ UNCHANGED <<THREADS, registryLeaked, serverVars, loop, inbox, adapter>>

\* Without work to do, the thread has been resumed.
WakeUp(t) ==
    /\ thread[t].at = "woken"
    /\ IF thread[t].unblock_work = Nothing
       THEN Becomes(t, [thread[t] EXCEPT !.at = "leaving", !.releases = @ - 1])
       ELSE Becomes(t, [thread[t] EXCEPT !.at = "working", !.is_working = TRUE])
    /\ UNCHANGED <<THREADS, registryLeaked, serverVars, loop, inbox, adapter>>

\* run_locally or enum_child_locally sends the result ...
DoWork(t) ==
    /\ thread[t].at = "working"
    /\ Registry
    /\ Becomes(t, [thread[t] EXCEPT !.at = "worked"])
    /\ adapter' = IF DETACHED THEN adapter
                  ELSE [adapter EXCEPT !.asked = @ \ {thread[t].unblock_work}]
    /\ UNCHANGED <<THREADS, registryLeaked, serverVars, loop, inbox>>

\* A mutant: the lock is taken back after the work.
WorkDoneLocked(t) ==
    /\ thread[t].at = "worked"
    /\ Becomes(t, [thread[t] EXCEPT !.at = "waiting", !.unblock_work = Nothing,
                                    !.is_working = FALSE, !.block_lock = TRUE])
    /\ UNCHANGED <<THREADS, registryLeaked, serverVars, loop, inbox, adapter>>

\* ... before block forgets the work.
WorkDone(t) ==
    /\ thread[t].at = "worked"
    /\ Becomes(t, [thread[t] EXCEPT !.at = "waiting", !.unblock_work = Nothing,
                                    !.is_working = FALSE])
    /\ UNCHANGED <<THREADS, registryLeaked, serverVars, loop, inbox, adapter>>

Leave(t) ==
    /\ thread[t].at = "leaving"
    /\ thread[t].block_starting_lock = Nothing
    /\ Becomes(t, [thread[t] EXCEPT !.at = "running", !.is_blocked = FALSE])
    /\ UNCHANGED <<THREADS, registryLeaked, serverVars, loop, inbox, adapter>>

-----------------------------------------------------------------------------
(* The command loop.  An exception that is not DebuggerExitException or a  *)
(* socket error is printed, and ends it.                                   *)

Reading == loop.at = "reading" /\ inbox # <<>>
Op == Head(inbox)[1]
Subject == Head(inbox)[2]

Reads(next) == inbox' = Tail(inbox) /\ loop' = next
Reads0 == Reads(loop)
Dead == [loop EXCEPT !.at = "dead"]
Resuming == [at |-> "resuming", left |-> THREADS]

\* unblock: release of a lock that is not taken raises, as the assertion does.
CanUnblock(t) == thread[t].is_blocked /\ thread[t].block_lock

\* command_break_all
BreakAll ==
    /\ Reading /\ Op = "break"
    /\ Registry
    /\ SEND_BREAK_COMPLETE' = TRUE
    /\ thread' = Mark(THREADS)
    /\ Reads0
    /\ UNCHANGED <<THREADS, registryLeaked, DETACHED, breakpoints, adapter>>

\* command_resume_all, and what the step commands do before they call it.
StartResume ==
    /\ Reading /\ Op \in {"continue", "step"}
    /\ Registry
    /\ CASE Op = "continue" -> UNCHANGED thread /\ Reads(Resuming)
         [] Op = "step" /\ Subject \notin THREADS -> UNCHANGED thread /\ Reads0
         [] Op = "step" /\ Subject \in THREADS ->
               IF thread[Subject].is_blocked
               THEN /\ Becomes(Subject, [thread[Subject] EXCEPT !.stepping = "step"])
                    /\ Reads(Resuming)
               ELSE UNCHANGED thread /\ Reads(Dead)
    /\ UNCHANGED <<THREADS, registryLeaked, serverVars, adapter>>

Unmarked(s) == IF s = "break" THEN "none" ELSE s

ResumeNext(t) ==
    /\ loop.at = "resuming"
    /\ t \in loop.left
    /\ thread[t].block_starting_lock = Nothing
    /\ LET clear == [thread[t] EXCEPT !.stepping = Unmarked(@)]
       IN  CASE ~thread[t].is_blocked ->
                  Becomes(t, clear) /\ loop' = [loop EXCEPT !.left = @ \ {t}]
             [] CanUnblock(t) ->
                  /\ Becomes(t, [clear EXCEPT !.block_lock = FALSE, !.releases = @ + 1])
                  /\ loop' = [loop EXCEPT !.left = @ \ {t}]
             [] OTHER ->
                  /\ Becomes(t, [clear EXCEPT !.block_starting_lock = "loop"])
                  /\ loop' = Dead
    /\ UNCHANGED <<THREADS, registryLeaked, serverVars, inbox, adapter>>

\* The loop is through with the threads of a command that visits them all.
Resumed ==
    /\ loop.at = "resuming"
    /\ loop.left = {}
    /\ loop' = [loop EXCEPT !.at = "reading"]
    /\ UNCHANGED <<thread, THREADS, registryLeaked, serverVars, inbox, adapter>>

\* command_resume_thread: THREADS[tid] is read with THREADS_LOCK taken and nothing to free it.
\* (reported_process_loaded is set by an attach only.)
ResumeThread ==
    /\ Reading /\ Op = "resume"
    /\ Registry
    /\ CASE Subject \notin THREADS ->
              registryLeaked' = TRUE /\ Reads(Dead) /\ UNCHANGED thread
         [] Subject \in THREADS /\ ~CanUnblock(Subject) ->
              Reads(Dead) /\ UNCHANGED <<registryLeaked, thread>>
         [] Subject \in THREADS /\ CanUnblock(Subject) ->
              /\ Becomes(Subject, [thread[Subject] EXCEPT !.block_lock = FALSE,
                                                          !.releases = @ + 1])
              /\ Reads0
              /\ UNCHANGED registryLeaked
    /\ UNCHANGED <<THREADS, serverVars, adapter>>

\* A mutant: run_on_thread_no_report is used.
RefusesSilently(e) == UNCHANGED adapter

\* report_execution_error
Refuses(e) == adapter' = [adapter EXCEPT !.asked = @ \ {e}]

\* A mutant: the evaluation before is not asked about.
TakesWorkAlways(t) == thread[t].is_blocked

TakesWork(t) == thread[t].is_blocked /\ ~thread[t].is_working

\* schedule_work; when unblock raises, the starting lock stays with the loop.
Schedule(t, e) ==
    IF CanUnblock(t)
    THEN /\ Becomes(t, [thread[t] EXCEPT !.unblock_work = e, !.block_lock = FALSE])
         /\ Reads0
    ELSE /\ Becomes(t, [thread[t] EXCEPT !.unblock_work = e, !.block_starting_lock = "loop"])
         /\ Reads(Dead)

\* run_on_thread and enum_child_on_thread, under the starting lock of the thread; an unknown
\* thread is not answered for.
Evaluate ==
    /\ Reading /\ Op = "evaluate"
    /\ Registry
    /\ LET t == Subject[1]
           e == Subject[2]
       IN  /\ t \in THREADS => thread[t].block_starting_lock = Nothing
           /\ CASE t \notin THREADS -> Reads0 /\ UNCHANGED <<thread, adapter>>
                [] t \in THREADS /\ TakesWork(t) -> Schedule(t, e) /\ UNCHANGED adapter
                [] t \in THREADS /\ ~TakesWork(t) -> Refuses(e) /\ Reads0 /\ UNCHANGED thread
    /\ UNCHANGED <<THREADS, registryLeaked, serverVars>>

\* command_detach: every thread is told to stop tracing, without its starting lock ...
StartDetach ==
    /\ Reading /\ Op = "detach"
    /\ Registry
    /\ Reads([at |-> "detaching", left |-> THREADS])
    /\ UNCHANGED <<thread, THREADS, registryLeaked, serverVars, adapter>>

DetachNext(t) ==
    /\ loop.at = "detaching"
    /\ t \in loop.left
    /\ LET told == [thread[t] EXCEPT !.detach = TRUE, !.stepping = "break"]
       IN  CASE ~thread[t].is_blocked ->
                  Becomes(t, told) /\ loop' = [loop EXCEPT !.left = @ \ {t}]
             [] CanUnblock(t) ->
                  /\ Becomes(t, [told EXCEPT !.block_lock = FALSE, !.releases = @ + 1])
                  /\ loop' = [loop EXCEPT !.left = @ \ {t}]
             [] OTHER -> Becomes(t, told) /\ loop' = Dead
    /\ UNCHANGED <<THREADS, registryLeaked, serverVars, inbox, adapter>>

\* ... then the registry and the breakpoints are cleared ...
ForgetThreads ==
    /\ loop.at = "detaching"
    /\ loop.left = {}
    /\ Registry
    /\ THREADS' = {}
    /\ breakpoints' = FALSE
    /\ loop' = [loop EXCEPT !.at = "ending"]
    /\ UNCHANGED <<thread, registryLeaked, SEND_BREAK_COMPLETE, DETACHED, inbox, adapter>>

\* ... and only then is the process detached.
DetachProcess ==
    /\ loop.at = "ending"
    /\ DETACHED' = TRUE
    /\ loop' = [loop EXCEPT !.at = "ended"]
    /\ UNCHANGED <<thread, THREADS, registryLeaked, SEND_BREAK_COMPLETE, breakpoints, inbox,
                   adapter>>

-----------------------------------------------------------------------------
(* The adapter (Main.ts and PythonProcess.ts).                             *)

Sends(op, subject) ==
    /\ adapter.attached
    /\ adapter.commands < MaxCommands
    /\ inbox' = Append(inbox, <<op, subject>>)
    /\ UNCHANGED <<thread, THREADS, registryLeaked, serverVars, loop>>

\* The editor offers to pause while it shows nothing stopped; the button is pressed once.
Pause ==
    /\ adapter.shown = {}
    /\ ~adapter.pausing
    /\ Sends("break", Nothing)
    /\ adapter' = [adapter EXCEPT !.commands = @ + 1, !.pausing = TRUE]

\* Continue and the step requests: nothing is shown stopped from then on.
Continue ==
    /\ adapter.shown # {}
    /\ Sends("continue", Nothing)
    /\ adapter' = [adapter EXCEPT !.commands = @ + 1, !.shown = {}]

Step(t) ==
    /\ t \in adapter.shown
    /\ Sends("step", t)
    /\ adapter' = [adapter EXCEPT !.commands = @ + 1, !.shown = {}]

Disconnect ==
    /\ Sends("detach", Nothing)
    /\ adapter' = [adapter EXCEPT !.attached = FALSE, !.commands = @ + 1, !.shown = {}]

\* Watches and hovers over a thread that is shown stopped wait for each other in the adapter
\* (ProcessPendingExecuteCommands); the expansion of a variable does not wait.
AskFor(t, e) ==
    /\ adapter.attached
    /\ e \in Evaluations => adapter.asked \intersect Evaluations = {}
    /\ t \in adapter.shown
    /\ e \notin adapter.asked
    /\ inbox' = Append(inbox, <<"evaluate", <<t, e>>>>)
    /\ adapter' = [adapter EXCEPT !.asked = @ \union {e}]
    /\ UNCHANGED <<thread, THREADS, registryLeaked, serverVars, loop>>

-----------------------------------------------------------------------------
Executes(t) ==
    \/ HitBreakpoint(t) \/ RaiseException(t) \/ StartThread(t) \/ ExitThread(t)

\* What a thread does until it is parked or runs again, once it has been given a reason.
Proceeds(t) ==
    \/ RegisterThread(t) \/ CompleteStep(t) \/ TraceBreak(t) \/ StacksVisited(t) \/ ReportStop(t) \/ ReportBreak(t)
    \/ MarkOthers(t) \/ Park(t) \/ Wait(t) \/ Acquire(t) \/ WakeUp(t) \/ DoWork(t) \/ WorkDone(t)
    \/ Leave(t) \/ (\E u \in Threads : VisitStack(t, u))

Loops ==
    \/ BreakAll \/ StartResume \/ Resumed \/ ResumeThread \/ Evaluate \/ StartDetach
    \/ ForgetThreads \/ DetachProcess
    \/ \E t \in Threads : ResumeNext(t) \/ DetachNext(t)

Asks ==
    \/ Pause \/ Continue \/ Disconnect
    \/ \E t \in Threads : Step(t) \/ (\E e \in Asked : AskFor(t, e))

Next == Asks \/ Loops \/ \E t \in Threads : Executes(t) \/ Proceeds(t)

\* The scheduler runs every thread that can go on, the command loop among them.
Spec == Init /\ [][Next]_vars /\ WF_vars(Loops) /\ \A t \in Threads : WF_vars(Proceeds(t))

-----------------------------------------------------------------------------
(* Properties. *)

ThreadObjects ==
    [at : Places, why : Reasons \union {Nothing}, todo : SUBSET Threads, stepping : Steppings,
     detach : BOOLEAN, is_blocked : BOOLEAN, is_working : BOOLEAN,
     unblock_work : Asked \union {Nothing}, block_lock : BOOLEAN,
     block_starting_lock : Threads \union {"loop", Nothing}, releases : Int]

Commands ==
    ({"break", "continue", "step", "resume", "detach"} \X (Threads \union {Nothing}))
        \union ({"evaluate"} \X (Threads \X Asked))

\* Values of the variables.
TypeOK ==
    /\ thread \in [Threads -> ThreadObjects]
    /\ THREADS \subseteq Threads
    /\ registryLeaked \in BOOLEAN
    /\ SEND_BREAK_COMPLETE \in BOOLEAN
    /\ DETACHED \in BOOLEAN
    /\ breakpoints \in BOOLEAN
    /\ loop \in [at : {"reading", "resuming", "detaching", "ending", "ended", "dead"},
                 left : SUBSET Threads]
    /\ inbox \in Seq(Commands)
    /\ adapter \in [attached : BOOLEAN, pausing : BOOLEAN, shown : SUBSET Threads,
                    asked : SUBSET Asked, stops : Nat, commands : Nat]

\* What the lock and the flags of a thread say is where the thread is.
ParkedAgrees ==
    \A t \in Threads :
        /\ thread[t].is_blocked <=> thread[t].at \in Parked
        /\ thread[t].block_starting_lock = t <=> thread[t].at \in {"marking", "visiting"}
        /\ thread[t].is_working <=> thread[t].at \in {"working", "worked"}

ThreadInvariant == TypeOK /\ ParkedAgrees

\* block: a thread that has done its work "blocks again": it leaves no more often than commands
\* have resumed it, however its evaluations and the stops and resumes of the others interleave.
BlocksAgain == \A t \in Threads : thread[t].releases >= 0

\* A thread that a command has resumed does run again, if the adapter does not ask it for
\* evaluations for ever: no release of its lock is lost between the report of the stop and the
\* wait, nor to an evaluation that arrives between the resume and the wake-up.
ResumedRuns ==
    <>[](\A i \in DOMAIN inbox : inbox[i][1] # "evaluate") =>
        \A t \in Threads :
            (thread[t].at \in Parked /\ thread[t].releases > 0)
                ~> (thread[t].at \notin Parked \/ loop.at = "dead")

\* An evaluation is answered or refused, unless its thread is gone or the loop has ended, or a
\* resume that was under way when the thread stopped has let it run off with the work.
EvaluationSettles ==
    \A e \in Asked :
        (e \in adapter.asked)
            ~> \/ e \notin adapter.asked
               \/ loop.at \in {"dead", "ended"}
               \/ \E t \in Threads : thread[t].at = "exited"
               \/ \E t \in Threads : thread[t].unblock_work = e /\ thread[t].at \notin Parked
=============================================================================
