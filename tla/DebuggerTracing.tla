--------------------------- MODULE DebuggerTracing ---------------------------
(***************************************************************************)
(* One thread of a debugged program under Thread.trace_func and the        *)
(* commands that set breakpoints and steps while it runs:                  *)
(* PythonTools/visualstudio_py_debugger.py.  The program makes calls,      *)
(* imports modules and executes lines as it likes.  A step of the thread   *)
(* ends where the command loop can come in between with effect: how a      *)
(* thread stops and waits is the subject of DebuggerThreads.               *)
(***************************************************************************)
EXTENDS Integers, Sequences, FiniteSets, SequencesExt

CONSTANTS Files,        \* the files of the user
          Main,         \* the one that is launched
          Library,      \* a file that is not debugged
          Renamed,      \* the files whose co_filename is not the name the adapter uses
          Lines,
          Breakpoints,  \* the ids of the breakpoints
          Place,        \* the file and the line of each
          Conditional,  \* those with a condition
          MaxDepth      \* bound: the frames of the thread

ASSUME FilesAssumption == Main \in Files /\ Library \notin Files /\ Renamed \subseteq Files
ASSUME LinesAssumption == Lines \subseteq Nat \ {0}
ASSUME PlaceAssumption == Place \in [Breakpoints -> Files \X Lines]
ASSUME DepthAssumption == MaxDepth \in Nat \ {0}
ASSUME ReasonsAssumption == {"none", "step", "loaded", "break"} \intersect Breakpoints = {}

VARIABLES
    thread,              \* what the thread does, and its stepping state
    stack,               \* its frames, the innermost last
    MODULES,             \* the modules loaded under the debugger
    BREAKPOINTS,         \* the entries <<id, name>> of all lines
    PENDING_BREAKPOINTS,
    is_bound,            \* the breakpoints that are bound
    loop,                \* the breakpoint that command_set_breakpoint works on
    status,              \* what the adapter knows of each breakpoint
    goal,                \* history: the step that the user asked for, and from how deep
    disturbed            \* history: a break or a breakpoint came in between it

breakpointVars == <<BREAKPOINTS, PENDING_BREAKPOINTS, is_bound, loop, status>>
vars == <<thread, stack, MODULES, breakpointVars, goal, disturbed>>

STEPPING_OUT == -1
STEPPING_NONE == 0
STEPPING_BREAK == 1
STEPPING_LAUNCH_BREAK == 2
STEPPING_INTO == 4
STEPPING_OVER == 5
USER_STEPPING == {STEPPING_OUT, STEPPING_INTO, STEPPING_OVER}

Top == Last(stack)
Debugged(frame) == frame.file \in Files
UserDepth(frames) == Cardinality({i \in DOMAIN frames : Debugged(frames[i])})
Frame(f, line, module) == [file |-> f, line |-> line, module |-> module]

LineOf(b) == Place[b][2]
Within(b, f) == Place[b][1] = f
EntriesAt(line) == {e \in BREAKPOINTS : LineOf(e[1]) = line}

\* The name under which a bound breakpoint is entered: co_filename.
Bound(b) == IF Place[b][1] \in Renamed THEN <<b, "loaded">> ELSE <<b, "asked">>

NoGoal == [kind |-> "none", depth |-> 0, line |-> 0]

Init ==
    /\ thread = [at |-> "loading", stepping |-> STEPPING_LAUNCH_BREAK, was |-> STEPPING_NONE,
                 stopped_on_line |-> 0, why |-> "none", complete |-> FALSE,
                 seen |-> {}, due |-> {}]
    /\ stack = <<Frame(Main, 0, TRUE)>>
    /\ MODULES = {Main}
    /\ BREAKPOINTS = {}
    /\ PENDING_BREAKPOINTS = {}
    /\ is_bound = {}
    /\ loop = [at |-> "reading", id |-> "none"]
    /\ status = [b \in Breakpoints |-> "unset"]
    /\ goal = NoGoal
    /\ disturbed = FALSE

-----------------------------------------------------------------------------
(* The thread.                                                             *)


Running == thread.at = "running" /\ stack # <<>>

\* A marked thread does not go on in code that is debugged: AsyncBreak comes first.
Traced(frame) == (thread.stepping = STEPPING_BREAK => ~Debugged(frame))

\* A line is executed before a frame calls or returns.
Begun == ~Debugged(Top) \/ Top.line # 0

\* async_break
AsyncBreak ==
    /\ Running
    /\ thread.stepping = STEPPING_BREAK
    /\ Debugged(Top) \/ Len(stack) < MaxDepth
    /\ thread' = [thread EXCEPT !.at = "stopped", !.why = "break", !.stepping = STEPPING_NONE,
                                !.stopped_on_line = Top.line]
    /\ goal' = NoGoal
    /\ disturbed' = FALSE
    /\ UNCHANGED <<stack, MODULES, breakpointVars>>

\* handle_call: the frame is pushed; that of a module is a new module, too.
Call(f) ==
    /\ Running /\ Begun
    /\ Len(stack) < MaxDepth
    /\ f \in MODULES \union {Library}
    /\ Traced(Frame(f, 0, FALSE))
    /\ stack' = Append(stack, Frame(f, 0, FALSE))
    /\ thread' = [thread EXCEPT !.at = "called"]
    /\ UNCHANGED <<MODULES, breakpointVars, goal, disturbed>>

Import(f) ==
    /\ Running /\ Begun
    /\ Len(stack) < MaxDepth
    /\ f \in Files \ MODULES
    /\ Traced(Frame(f, 0, TRUE))
    /\ stack' = Append(stack, Frame(f, 0, TRUE))
    /\ MODULES' = MODULES \union {f}
    /\ thread' = [thread EXCEPT !.at = "loading"]
    /\ UNCHANGED <<breakpointVars, goal, disturbed>>

\* report_module_load done, the iteration over the pending breakpoints starts.
IteratePending ==
    /\ thread.at = "loading"
    /\ thread' = [thread EXCEPT !.at = "binding", !.seen = PENDING_BREAKPOINTS]
    /\ UNCHANGED <<stack, MODULES, breakpointVars, goal, disturbed>>

\* A mutant: the entries are made under the name the adapter uses.
BindsAsked(bs) ==
    /\ is_bound' = is_bound \union bs
    /\ BREAKPOINTS' = BREAKPOINTS \union {<<b, "asked">> : b \in bs}

\* try_bind_break_point, for those of the module.
Binds(bs) ==
    /\ is_bound' = is_bound \union bs
    /\ BREAKPOINTS' = BREAKPOINTS \union {Bound(b) : b \in bs}

\* A set that has grown meanwhile raises, and a trace function that raises ends the tracing.
BindPending ==
    /\ thread.at = "binding"
    /\ LET matching == {b \in thread.seen : Within(b, Top.file)}
       IN  IF PENDING_BREAKPOINTS = thread.seen
           THEN /\ Binds(matching)
                /\ PENDING_BREAKPOINTS' = PENDING_BREAKPOINTS \ matching
                /\ thread' = [thread EXCEPT !.at = "called", !.seen = {}]
           ELSE /\ \E bs \in SUBSET matching : Binds(bs)
                /\ thread' = [thread EXCEPT !.at = "untraced", !.seen = {}]
                /\ UNCHANGED PENDING_BREAKPOINTS
    /\ UNCHANGED <<stack, MODULES, loop, status, goal, disturbed>>

\* The stepping state is read ...
ReadStepping ==
    /\ thread.at = "called"
    /\ LET counts == /\ Debugged(Top)
                     /\ thread.stepping >= STEPPING_INTO \/ thread.stepping <= STEPPING_OUT
       IN  thread' = IF counts
                     THEN [thread EXCEPT !.at = "entering", !.was = thread.stepping]
                     ELSE [thread EXCEPT !.at = "running"]
    /\ UNCHANGED <<stack, MODULES, breakpointVars, goal, disturbed>>

Entering(stepping, stopped_on_line) ==
    thread' = [thread EXCEPT !.at = "running", !.was = STEPPING_NONE, !.stepping = stepping,
                             !.stopped_on_line = stopped_on_line]

\* A mutant: a line that is the same in the function is not new.
CountCallOn ==
    IF thread.was = STEPPING_INTO
    THEN Entering(STEPPING_OVER, thread.stopped_on_line)
    ELSE Entering(thread.stepping + (IF thread.was >= STEPPING_OVER THEN 1 ELSE -1),
                  thread.stopped_on_line)

\* A mutant: the functions that are called from there are not counted.
CountInto == Entering(IF thread.was = STEPPING_INTO THEN STEPPING_OVER ELSE thread.stepping, 0)

CountCall ==
    IF thread.was = STEPPING_INTO
    THEN Entering(STEPPING_OVER, 0)
    ELSE Entering(thread.stepping + (IF thread.was >= STEPPING_OVER THEN 1 ELSE -1),
                  thread.stopped_on_line)

\* ... and read again to be counted up or down.
EnterFrame ==
    /\ thread.at = "entering"
    /\ CountCall
    /\ UNCHANGED <<stack, MODULES, breakpointVars, goal, disturbed>>

\* handle_line: whether a step is complete is decided here, and the entries of the line are taken.
StepComplete(line) ==
    \/ thread.stepping \in {STEPPING_OVER, STEPPING_INTO} /\ line # thread.stopped_on_line
    \/ thread.stepping = STEPPING_LAUNCH_BREAK

Line(line) ==
    /\ Running /\ Traced(Top)
    /\ Debugged(Top)
    /\ stack' = [stack EXCEPT ![Len(stack)].line = line]
    /\ thread' = [thread EXCEPT !.at = "matching", !.complete = StepComplete(line),
                                !.seen = EntriesAt(line),
                                !.due = {b \in Breakpoints : Place[b] = <<Top.file, line>>
                                                             /\ status[b] = "set"}]
    /\ UNCHANGED <<MODULES, breakpointVars, goal, disturbed>>

\* A mutant: before its module is loaded, a breakpoint is looked for by its line.
MatchesLine(e) == (Within(e[1], Top.file) /\ e = Bound(e[1])) \/ e[1] \notin is_bound

\* The name is co_filename, or alike while the breakpoint is not bound.
Matches(e) == Within(e[1], Top.file) /\ (e = Bound(e[1]) \/ e[1] \notin is_bound)

Stops(why, stepping, stopped_on_line) ==
    thread' = [thread EXCEPT !.at = "stopped", !.why = why, !.stepping = stepping,
                             !.stopped_on_line = stopped_on_line, !.complete = FALSE,
                             !.seen = {}]

\* A breakpoint leaves the stepping state as it is: so does the step of the user.
StopAtBreakpoint(b) ==
    /\ Stops(b, thread.stepping, IF thread.complete THEN thread.stopped_on_line ELSE Top.line)
    /\ disturbed' = (goal # NoGoal)
    /\ UNCHANGED goal

\* block_maybe_attach reads the stepping state again.
StopAfterStep ==
    /\ Stops(IF thread.stepping \in {STEPPING_OVER, STEPPING_INTO} THEN "step" ELSE "loaded",
             STEPPING_NONE, Top.line)
    /\ goal' = NoGoal
    /\ disturbed' = FALSE

\* The last of the entries that are hit is reported; their order is that of a dict.
HandleLine ==
    /\ thread.at = "matching"
    /\ \E true \in SUBSET Conditional :
          LET hits == {e[1] : e \in {x \in thread.seen : Matches(x)}} \ (Conditional \ true)
          IN  \/ hits # {} /\ \E b \in hits : StopAtBreakpoint(b)
              \/ hits = {} /\ thread.complete /\ StopAfterStep
              \/ /\ hits = {} /\ ~thread.complete
                 /\ thread' = [thread EXCEPT !.at = "running", !.seen = {}, !.due = {}]
                 /\ UNCHANGED <<goal, disturbed>>
    /\ UNCHANGED <<stack, MODULES, breakpointVars>>

\* Python 3: the entries of the line grew or shrank under the iteration.
LineRaises ==
    /\ thread.at = "matching"
    /\ Cardinality(EntriesAt(Top.line)) # Cardinality(thread.seen)
    /\ thread' = [thread EXCEPT !.at = "untraced", !.complete = FALSE, !.seen = {}, !.due = {}]
    /\ UNCHANGED <<stack, MODULES, breakpointVars, goal, disturbed>>

\* Back in code that is debugged, or at the end of a module, whoever imports it.
Leaves(caller) == Top.module \/ Debugged(caller)

\* What is left of a step whose function returns to code that is not debugged.
GoalBelow(g) ==
    CASE g.depth = UserDepth(stack) -> [g EXCEPT !.depth = g.depth - 1]
      [] g.kind = "into" /\ g.depth + 1 = UserDepth(stack) -> [g EXCEPT !.kind = "over"]
      [] OTHER -> g

\* handle_return: at the frame where the step began, or that it went into, the step ends ...
Return ==
    /\ Running /\ Traced(Top)
    /\ Begun
    /\ LET caller == IF Len(stack) > 1 THEN stack[Len(stack) - 1] ELSE Top
           ends == /\ Debugged(Top)
                   /\ thread.stepping \in USER_STEPPING
                   /\ Leaves(caller)
           counts == /\ Debugged(Top)
                     /\ thread.stepping > STEPPING_OVER \/ thread.stepping < STEPPING_OUT
       IN  /\ stack' = Front(stack)
           /\ IF ends
              THEN /\ Stops("step", STEPPING_NONE, IF Top.module THEN Top.line + 1 ELSE caller.line)
                   /\ goal' = NoGoal
                   /\ disturbed' = FALSE
              ELSE /\ thread' = IF counts
                                THEN [thread EXCEPT !.at = "leaving", !.was = thread.stepping]
                                ELSE thread
                   /\ goal' = IF Debugged(Top) /\ ~Debugged(caller) THEN GoalBelow(goal) ELSE goal
                   /\ UNCHANGED disturbed
    /\ UNCHANGED <<MODULES, breakpointVars>>

CountReturn == Entering(thread.stepping + (IF thread.was > STEPPING_OVER THEN -1 ELSE 1),
                        thread.stopped_on_line)

\* ... and deeper it only counts, with the stepping state read again.
LeaveFrame ==
    /\ thread.at = "leaving"
    /\ CountReturn
    /\ UNCHANGED <<stack, MODULES, breakpointVars, goal, disturbed>>

-----------------------------------------------------------------------------
(* The command loop.                                                       *)

\* command_set_breakpoint looks through MODULES ...
SearchModules(b) ==
    /\ loop.at = "reading"
    /\ status[b] = "unset"
    /\ loop' = [at |-> IF Place[b][1] \in MODULES THEN "binding" ELSE "adding", id |-> b]
    /\ UNCHANGED <<thread, stack, MODULES, BREAKPOINTS, PENDING_BREAKPOINTS, is_bound, status,
                   goal, disturbed>>

Answers(b) ==
    /\ loop' = [at |-> "reading", id |-> "none"]
    /\ status' = [status EXCEPT ![b] = "set"]

AddBound(b) ==
    /\ loop = [at |-> "binding", id |-> b]
    /\ Binds({b})
    /\ Answers(b)
    /\ UNCHANGED <<thread, stack, MODULES, PENDING_BREAKPOINTS, goal, disturbed>>

\* ... and adds what it has not found there, first to the entries, then to the pending ones.
AddUnbound(b) ==
    /\ loop = [at |-> "adding", id |-> b]
    /\ BREAKPOINTS' = BREAKPOINTS \union {<<b, "asked">>}
    /\ loop' = [loop EXCEPT !.at = "pending"]
    /\ UNCHANGED <<thread, stack, MODULES, PENDING_BREAKPOINTS, is_bound, status, goal, disturbed>>

AddPending(b) ==
    /\ loop = [at |-> "pending", id |-> b]
    /\ PENDING_BREAKPOINTS' = PENDING_BREAKPOINTS \union {b}
    /\ Answers(b)
    /\ UNCHANGED <<thread, stack, MODULES, BREAKPOINTS, is_bound, goal, disturbed>>

\* The first entry of the line with the id.
Removes(b) == IF \E e \in BREAKPOINTS : e[1] = b
              THEN {CHOOSE e \in BREAKPOINTS : e[1] = b} ELSE {}

\* command_remove_breakpoint: another entry and a pending breakpoint are left behind.
RemoveBreakpoint(b) ==
    /\ loop.at = "reading"
    /\ status[b] = "set"
    /\ BREAKPOINTS' = BREAKPOINTS \ Removes(b)
    /\ status' = [status EXCEPT ![b] =
                    IF b \in PENDING_BREAKPOINTS \/ (\E e \in BREAKPOINTS' : e[1] = b)
                    THEN "left" ELSE "removed"]
    /\ UNCHANGED <<thread, stack, MODULES, PENDING_BREAKPOINTS, is_bound, loop, goal, disturbed>>

\* command_break_all
BreakAll ==
    /\ loop.at = "reading"
    /\ thread.at # "untraced"
    /\ thread' = [thread EXCEPT !.stepping = STEPPING_BREAK]
    /\ disturbed' = (goal # NoGoal)
    /\ UNCHANGED <<stack, MODULES, breakpointVars, goal>>

Resumes(stepping) ==
    thread' = [thread EXCEPT !.at = "running", !.stepping = stepping, !.why = "none", !.due = {}]

\* The adapter answers the end of the loading and a breakpoint that it has not registered.
Unknown(why) == why = "loaded" \/ (why \in Breakpoints /\ status[why] # "set")

\* command_resume_thread
ResumeThread ==
    /\ thread.at = "stopped" /\ Unknown(thread.why)
    /\ loop.at = "reading"
    /\ Resumes(thread.stepping)
    /\ UNCHANGED <<stack, MODULES, breakpointVars, goal, disturbed>>

\* command_resume_all.  Nothing tells the thread to forget a step that is not complete.
ResumeAll ==
    /\ thread.at = "stopped" /\ ~Unknown(thread.why)
    /\ loop.at = "reading"
    /\ Resumes(IF thread.stepping = STEPPING_BREAK THEN STEPPING_NONE ELSE thread.stepping)
    /\ UNCHANGED <<stack, MODULES, breakpointVars, goal, disturbed>>

\* command_step_into, command_step_over and command_step_out
Step(kind) ==
    /\ thread.at = "stopped" /\ ~Unknown(thread.why)
    /\ loop.at = "reading"
    /\ Resumes(CASE kind = "into" -> STEPPING_INTO
                 [] kind = "over" -> STEPPING_OVER
                 [] kind = "out" -> STEPPING_OUT)
    /\ goal' = [kind |-> kind, depth |-> UserDepth(stack), line |-> thread.stopped_on_line]
    /\ disturbed' = FALSE
    /\ UNCHANGED <<stack, MODULES, breakpointVars>>

-----------------------------------------------------------------------------
Thread ==
    \/ AsyncBreak \/ IteratePending \/ BindPending \/ ReadStepping \/ EnterFrame
    \/ HandleLine \/ LineRaises \/ Return \/ LeaveFrame
    \/ \E f \in Files \union {Library} : Call(f) \/ Import(f)
    \/ \E line \in Lines : Line(line)

DebuggerLoop ==
    \/ BreakAll \/ ResumeThread \/ ResumeAll
    \/ \E kind \in {"into", "over", "out"} : Step(kind)
    \/ \E b \in Breakpoints : \/ SearchModules(b) \/ AddBound(b) \/ AddUnbound(b)
                              \/ AddPending(b) \/ RemoveBreakpoint(b)

Next == Thread \/ DebuggerLoop

Spec == Init /\ [][Next]_vars

-----------------------------------------------------------------------------
(* Properties.                                                             *)

Stepping == STEPPING_OUT - MaxDepth .. STEPPING_OVER + MaxDepth
Reasons == {"none", "step", "loaded", "break"} \union Breakpoints

\* Values of the variables.
TypeOK ==
    /\ thread \in [at : {"running", "called", "loading", "binding", "entering", "leaving",
                         "matching", "stopped", "untraced"},
                   stepping : Stepping, was : Stepping, stopped_on_line : Nat,
                   why : Reasons, complete : BOOLEAN,
                   seen : SUBSET (Breakpoints \union (Breakpoints \X {"asked", "loaded"})),
                   due : SUBSET Breakpoints]
    /\ stack \in Seq([file : Files \union {Library}, line : Lines \union {0}, module : BOOLEAN])
    /\ Len(stack) <= MaxDepth
    /\ MODULES \subseteq Files
    /\ BREAKPOINTS \subseteq Breakpoints \X {"asked", "loaded"}
    /\ PENDING_BREAKPOINTS \subseteq Breakpoints
    /\ is_bound \subseteq Breakpoints
    /\ loop \in [at : {"reading", "binding", "adding", "pending"}, id : Breakpoints \union {"none"}]
    /\ status \in [Breakpoints -> {"unset", "set", "left", "removed"}]
    /\ goal \in [kind : {"none", "into", "over", "out"}, depth : 0 .. MaxDepth, line : Nat]
    /\ disturbed \in BOOLEAN

Passes == thread.at = "matching" /\ thread'.at = "running"

\* The adapter knows a breakpoint as set, and shows its line as one where the program stops: no
\* thread that is traced executes the line, however setting it, other breakpoints and the import
\* of its module interleave.
BreakpointsStop ==
    [][Passes => \A b \in thread.due \ Conditional : status[b] # "set"]_vars

\* A stop at a breakpoint is on its line, and the breakpoint was not removed when the line was
\* reached, but for those that command_remove_breakpoint leaves behind.
HitsAreSet ==
    thread.at = "stopped" /\ thread.why \in Breakpoints =>
        /\ Place[thread.why] = <<Top.file, Top.line>>
        /\ thread.why \in thread.due \/ status[thread.why] # "removed"

\* The types, and stops at breakpoints only where they are set.
TracingInvariant == TypeOK /\ HitsAreSet

\* A step is complete only where the user asked for one, and in its scope: over never stops in a
\* deeper function, into stops at most one deeper, out only further out.
StepsStopInScope ==
    [][thread'.at = "stopped" /\ thread.at # "stopped" /\ thread'.why = "step" =>
          CASE goal.kind = "none" -> FALSE
            [] goal.kind = "into" -> UserDepth(stack') <= goal.depth + 1
            [] goal.kind = "over" -> UserDepth(stack') <= goal.depth
            [] goal.kind = "out" -> UserDepth(stack') < goal.depth]_vars

Entered == goal.kind = "into" /\ UserDepth(stack) = goal.depth + 1
InScope == goal.kind \in {"into", "over"} /\ UserDepth(stack) <= goal.depth
Elsewhere == Top.line # goal.line

\* The function to step out of, or one that a step began or ended in, returns to its caller.
ReturnsToUser == /\ stack' # <<>> /\ stack' = Front(stack)
                 /\ goal.kind # "none" /\ UserDepth(stack) = goal.depth
                 /\ Debugged(Top) /\ Debugged(Last(stack'))

\* A step that nothing disturbs does stop: at any line of the function that it goes into, at
\* another line in its scope, and when its function returns to code of the user, with all the
\* calls, imports and callbacks of the library in between counted up and down.
StepsStopWhenDue ==
    [][~disturbed => /\ Passes => ~(Entered \/ (InScope /\ Elsewhere))
                     /\ ReturnsToUser => thread'.at = "stopped"]_vars
=============================================================================
