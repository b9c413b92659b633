--------------------------- MODULE PythonProcess ---------------------------
(***************************************************************************)
(* The adapter's end of the connection to the program that is debugged.    *)
(* The program greets with its guid, status and pid; then expressions to   *)
(* evaluate (Executions) and variables to expand (Enumerations) are        *)
(* written with an id of the IdDispenser, and the answers come back as     *)
(* frames whose id says whose answer it is.  The socket delivers all of it *)
(* in whatever pieces it likes.                                            *)
(***************************************************************************)
EXTENDS Integers, Sequences, FiniteSets, SequencesExt

CONSTANTS
    Executions,    \* bound: the calls of ExecuteText of a behaviour
    Enumerations   \* bound: the calls of EnumChildren of a behaviour

Commands == Executions \union Enumerations

\* What the program writes before its first frame.
Greeting == <<"guid", "status", "pid">>

ASSUME DisjointAssumption ==
    /\ Executions \cap Enumerations = {}
    /\ Commands \cap Range(Greeting) = {}

VARIABLES
    freedInts, curValue,      \* the IdDispenser
    id,                       \* id[c]: the id of command c
    progress,                 \* progress[c]: how far command c and its answer are
    outcome,                  \* outcome[c]: how the promise of c settled
    executeCommandsQueue,
    PendingExecuteCommands,   \* the commands in the map, whose keys are their ids
    PendingChildEnumCommands,
    timers,                   \* the timers of the enumerations, the oldest first
    greeted,                  \* how much of the greeting Connect has read
    ended,                    \* the program has ended
    wire,                     \* what the program wrote and the adapter has not got
    buffer,                   \* what the SocketStream has not consumed
    handling                  \* the loop of HandleIncomingData is not at its end

idVars == <<freedInts, curValue, id>>
pendingVars == <<executeCommandsQueue, PendingExecuteCommands, PendingChildEnumCommands>>
streamVars == <<wire, buffer, handling>>
linkVars == <<greeted, ended>>
vars == <<idVars, progress, outcome, pendingVars, timers, linkVars, streamVars>>

\* A message in two parts: the socket may bring the one without the other.
Frame(m) == <<<<m, 1>>, <<m, 2>>>>

Init ==
    /\ freedInts = <<>>
    /\ curValue = 0
    /\ id = [c \in Commands |-> 0]
    /\ progress = [c \in Commands |-> "new"]
    /\ outcome = [c \in Commands |-> "pending"]
    /\ executeCommandsQueue = <<>>
    /\ PendingExecuteCommands = {}
    /\ PendingChildEnumCommands = {}
    /\ timers = <<>>
    /\ greeted = 0
    /\ ended = FALSE
    /\ wire = Frame(Greeting[1]) \o Frame(Greeting[2]) \o Frame(Greeting[3])
    /\ buffer = <<>>
    /\ handling = FALSE

Connected == greeted = Len(Greeting)

\* A callback runs to its end.
Idle == ~handling

-----------------------------------------------------------------------------
(* The IdDispenser.                                                        *)

\* The id freed last is used first.
NewId == IF freedInts # <<>> THEN Last(freedInts) ELSE curValue

Allocate(c) ==
    /\ id' = [id EXCEPT ![c] = NewId]
    /\ IF freedInts # <<>>
       THEN freedInts' = Front(freedInts) /\ UNCHANGED curValue
       ELSE curValue' = curValue + 1 /\ UNCHANGED freedInts

\* A mutant: the counter is taken back without looking which id was freed.
FreeLast(i) == curValue' = curValue - 1 /\ UNCHANGED freedInts

Free(i) ==
    IF i + 1 = curValue
    THEN curValue' = curValue - 1 /\ UNCHANGED freedInts
    ELSE freedInts' = Append(freedInts, i) /\ UNCHANGED curValue

-----------------------------------------------------------------------------
(* Commands.                                                               *)

\* A mutant: the answer is given to whoever waits.
AnyEntry(map, c) == map

\* The entries of a map under the id of command c.
EntriesOf(map, c) == {d \in map : id[d] = id[c]}

\* ProcessPendingExecuteCommands with a queue and a map: one execution at a time.
Runs(queue, pending) == queue # <<>> /\ pending = {}

ProcessPendingExecuteCommands(queue, pending, advanced) ==
    IF Runs(queue, pending)
    THEN /\ executeCommandsQueue' = Tail(queue)
         /\ PendingExecuteCommands' = {Head(queue)}
         /\ progress' = [advanced EXCEPT ![Head(queue)] = "asked"]
    ELSE /\ executeCommandsQueue' = queue
         /\ PendingExecuteCommands' = pending
         /\ progress' = advanced

ExecuteText(c) ==
    /\ Idle
    /\ Connected
    /\ progress[c] = "new"
    /\ Allocate(c)
    /\ ProcessPendingExecuteCommands(Append(executeCommandsQueue, c), PendingExecuteCommands,
                                     [progress EXCEPT ![c] = "queued"])
    /\ UNCHANGED <<outcome, PendingChildEnumCommands, timers, linkVars, streamVars>>

\* The entry replaces one with the same id, if there is one.
EnumChildren(e) ==
    /\ Idle
    /\ Connected
    /\ progress[e] = "new"
    /\ Allocate(e)
    /\ progress' = [progress EXCEPT ![e] = "asked"]
    /\ PendingChildEnumCommands' =
          {d \in PendingChildEnumCommands : id[d] # NewId} \union {e}
    /\ timers' = Append(timers, e)
    /\ UNCHANGED <<outcome, executeCommandsQueue, PendingExecuteCommands, linkVars, streamVars>>

\* A promise settles once.
Settled(cs, value) ==
    [c \in Commands |-> IF c \in cs /\ outcome[c] = "pending" THEN value ELSE outcome[c]]

\* A mutant: the timer rejects where it deletes.
RejectedIfListed(e) == {d \in {e} : EntriesOf(PendingChildEnumCommands, e) # {}}

Rejected(e) == {e}

\* The timer of an enumeration, which nobody clears: it deletes what the map has
\* under the id of e by now, and rejects the promise of e.
TimerFires ==
    /\ Idle
    /\ timers # <<>>
    /\ LET e == Head(timers)
       IN  /\ PendingChildEnumCommands' =
                 PendingChildEnumCommands \ EntriesOf(PendingChildEnumCommands, e)
           /\ outcome' = Settled(Rejected(e), "timedOut")
    /\ timers' = Tail(timers)
    /\ UNCHANGED <<idVars, progress, executeCommandsQueue, PendingExecuteCommands, linkVars,
                   streamVars>>

-----------------------------------------------------------------------------
(* The answers.                                                            *)

\* EXCR and EXCE.  The answer to an execution the map does not have is dropped.
HandleExecutionResult(c) ==
    /\ \E value \in {"resolved", "rejected"} :
          outcome' = Settled(EntriesOf(PendingExecuteCommands, c), value)
    /\ ProcessPendingExecuteCommands(
          executeCommandsQueue,
          PendingExecuteCommands \ EntriesOf(PendingExecuteCommands, c),
          [progress EXCEPT ![c] = "handled"])
    /\ Free(id[c])
    /\ UNCHANGED PendingChildEnumCommands

\* CHLD.
HandleEnumChildren(e) ==
    /\ outcome' = Settled(EntriesOf(PendingChildEnumCommands, e), "resolved")
    /\ PendingChildEnumCommands' =
          PendingChildEnumCommands \ EntriesOf(PendingChildEnumCommands, e)
    /\ progress' = [progress EXCEPT ![e] = "handled"]
    /\ Free(id[e])
    /\ UNCHANGED <<executeCommandsQueue, PendingExecuteCommands>>

HasFrame == Len(buffer) >= 2 /\ buffer[1][2] = 1 /\ buffer[2] = <<buffer[1][1], 2>>

\* A mutant: what was read of an incomplete frame is consumed.
Consumed == Tail(buffer)

\* RollBackTransaction: the next data event reads the frame from its start.
RolledBack == buffer

\* Only part of a message is there, or nothing: no handler has an effect before it
\* has read all of its frame.
HandlePartialFrame ==
    /\ handling
    /\ ~HasFrame
    /\ buffer' = IF buffer = <<>> THEN <<>> ELSE RolledBack
    /\ handling' = FALSE
    /\ UNCHANGED <<idVars, progress, outcome, pendingVars, timers, linkVars, wire>>

GreetingGoesOn == HasFrame /\ ~Connected

\* Connect: each part of the greeting is a transaction of its own.
HandleGreeting ==
    /\ handling
    /\ GreetingGoesOn
    /\ greeted' = greeted + 1
    /\ buffer' = SubSeq(buffer, 3, Len(buffer))
    /\ UNCHANGED <<idVars, progress, outcome, pendingVars, timers, ended, wire, handling>>

\* HandleIncomingData: the frame is handled, and the loop goes on.
HandleFrame ==
    /\ handling
    /\ HasFrame
    /\ Connected
    /\ LET c == buffer[1][1]
       IN  \/ c \in Executions /\ HandleExecutionResult(c)
           \/ c \in Enumerations /\ HandleEnumChildren(c)
    /\ buffer' = SubSeq(buffer, 3, Len(buffer))
    /\ UNCHANGED <<id, timers, linkVars, wire, handling>>

\* A data event of the socket.
DataArrives ==
    /\ Idle
    /\ \E k \in 1 .. Len(wire) :
          /\ buffer' = buffer \o SubSeq(wire, 1, k)
          /\ wire' = SubSeq(wire, k + 1, Len(wire))
    /\ handling' = TRUE
    /\ UNCHANGED <<idVars, progress, outcome, pendingVars, timers, linkVars>>

\* The program answers, in whatever order its threads come to it.
ProgramAnswers(c) ==
    /\ ~ended
    /\ progress[c] = "asked"
    /\ progress' = [progress EXCEPT ![c] = "answered"]
    /\ wire' = wire \o Frame(c)
    /\ UNCHANGED <<idVars, outcome, pendingVars, timers, linkVars, buffer, handling>>

\* What was asked and not answered stays so.
ProgramEnds ==
    /\ ~ended
    /\ ended' = TRUE
    /\ UNCHANGED <<idVars, progress, outcome, pendingVars, timers, greeted, streamVars>>

-----------------------------------------------------------------------------
Next ==
    \/ \E c \in Executions : ExecuteText(c)
    \/ \E e \in Enumerations : EnumChildren(e)
    \/ TimerFires
    \/ HandleGreeting
    \/ HandleFrame
    \/ HandlePartialFrame
    \/ DataArrives
    \/ \E c \in Commands : ProgramAnswers(c)
    \/ ProgramEnds

Spec == Init /\ [][Next]_vars

\* The event loop runs what is due, timers included, and the program answers if it
\* does not end first.
Fairness ==
    /\ WF_vars(TimerFires)
    /\ WF_vars(HandleGreeting \/ HandleFrame \/ HandlePartialFrame)
    /\ WF_vars(DataArrives)
    /\ \A c \in Commands : WF_vars(ProgramAnswers(c))

FairSpec == Spec /\ Fairness
-----------------------------------------------------------------------------
(* Properties.                                                             *)

TypeOK ==
    /\ freedInts \in Seq(Nat)
    /\ curValue \in Nat
    /\ id \in [Commands -> Nat]
    /\ progress \in [Commands -> {"new", "queued", "asked", "answered", "handled"}]
    /\ outcome \in [Commands -> {"pending", "resolved", "rejected", "timedOut"}]
    /\ executeCommandsQueue \in Seq(Executions)
    /\ PendingExecuteCommands \subseteq Executions
    /\ PendingChildEnumCommands \subseteq Enumerations
    /\ timers \in Seq(Enumerations)
    /\ greeted \in 0 .. Len(Greeting)
    /\ ended \in BOOLEAN
    /\ wire \in Seq((Commands \union Range(Greeting)) \X {1, 2})
    /\ buffer \in Seq((Commands \union Range(Greeting)) \X {1, 2})
    /\ handling \in BOOLEAN

\* The commands that hold an id: it is freed when their answer is handled.
Holding == {c \in Commands : progress[c] \in {"queued", "asked", "answered"}}

FreedIds == {freedInts[i] : i \in DOMAIN freedInts}

\* Every id given out and not freed belongs to one command, and every id below the
\* counter is either free or given out: none is shared, none is lost, whatever the
\* order of the answers.
DispenserInvariant ==
    /\ \A i, j \in DOMAIN freedInts : freedInts[i] = freedInts[j] => i = j
    /\ \A c, d \in Holding : id[c] = id[d] => c = d
    /\ \A c \in Holding : id[c] \notin FreedIds
    /\ FreedIds \union {id[c] : c \in Holding} = 0 .. curValue - 1

\* The program is asked to evaluate one expression at a time, and it is asked while
\* there is one to evaluate: no answer leaves the queue waiting for nobody.
ExecutionInvariant ==
    /\ PendingExecuteCommands = {c \in Executions : progress[c] \in {"asked", "answered"}}
    /\ Cardinality(PendingExecuteCommands) <= 1
    /\ Range(executeCommandsQueue) = {c \in Executions : progress[c] = "queued"}
    /\ executeCommandsQueue # <<>> => PendingExecuteCommands # {}

\* The types, the ids and the evaluations of the connection.
ProcessInvariant == TypeOK /\ DispenserInvariant /\ ExecutionInvariant

\* A promise is settled by the answer to its own command, never by the answer to
\* another one that had its id, and whatever pieces the answers came in.
AnswersReachTheirAsker ==
    \A c \in Commands : outcome[c] \in {"resolved", "rejected"} => progress[c] = "handled"

\* An expression is evaluated or the program ends.  (The promise has no timer.)
EveryExecutionSettles ==
    \A c \in Executions : progress[c] # "new" ~> (outcome[c] # "pending" \/ ended)

\* The expansion of a variable settles, the timer sees to it.
EveryEnumerationSettles ==
    \A e \in Enumerations : progress[e] # "new" ~> outcome[e] # "pending"
=============================================================================
