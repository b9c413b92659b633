------------------------ MODULE DebuggerThreadsProofs ------------------------
(***************************************************************************)
(* Proofs about DebuggerThreads, for any number of threads, stops and      *)
(* commands: the flags and locks of a thread say where it is, and, when    *)
(* evaluations come one at a time, no thread resumes by itself.            *)
(***************************************************************************)
EXTENDS DebuggerThreads, SequenceTheorems, TLAPS

\* A command that waits for an evaluation.
Evaluates(command) == command[1] = "evaluate"

\* A thread that has an evaluation to do.
Charged(t) == thread[t].unblock_work # Nothing /\ thread[t].at # "worked"

\* Only one evaluation is under way: in the inbox or with a thread.
OneEvaluation ==
    /\ \A e, f \in adapter.asked : e = f
    /\ \A i \in 1 .. Len(inbox) : Evaluates(inbox[i]) =>
          /\ inbox[i][2][2] \in adapter.asked
          /\ \A j \in 1 .. Len(inbox) : Evaluates(inbox[j]) => i = j
          /\ \A t \in Threads : ~Charged(t)
    /\ \A t \in Threads : Charged(t) =>
          /\ thread[t].unblock_work \in adapter.asked
          /\ \A u \in Threads : Charged(u) => t = u

\* How often block_lock can be taken, and how often that is for work.
Wakes(t) == (IF thread[t].block_lock THEN 0 ELSE 1) + (IF thread[t].at = "woken" THEN 1 ELSE 0)
Work(t) == IF thread[t].unblock_work # Nothing /\ thread[t].at \notin {"working", "worked"}
           THEN 1 ELSE 0

\* Every wake-up that is not for work is a resume.
ResumesCover ==
    \A t \in Threads : thread[t].releases >= 0 /\ thread[t].releases + Work(t) >= Wakes(t)

ReleaseInvariant == ThreadInvariant /\ OneEvaluation /\ ResumesCover

-----------------------------------------------------------------------------
(* Types and flags. *)

\* The first command, and the others.
LEMMA InboxHead ==
    ASSUME NEW S, NEW q \in Seq(S), q # <<>>
    PROVE  /\ Head(q) \in S /\ Tail(q) \in Seq(S) /\ Len(q) \in Nat
           /\ Len(q) >= 1 /\ Head(q) = q[1]
           /\ Len(Tail(q)) = Len(q) - 1
           /\ \A i \in 1 .. Len(q) - 1 : Tail(q)[i] = q[i + 1]
<1>1. Head(q) \in S /\ Tail(q) \in Seq(S)
  BY HeadTailProperties
<1>2. Len(q) \in Nat /\ Len(q) # 0
  BY EmptySeq, LenProperties
<1>3. Head(q) = q[1] /\ Len(Tail(q)) = Len(q) - 1
  BY HeadTailProperties
<1>4. \A i \in 1 .. Len(q) - 1 : Tail(q)[i] = q[i + 1]
  BY <1>3, HeadTailProperties
<1> QED
  BY <1>1, <1>2, <1>3, <1>4

LEMMA InboxAppend ==
    ASSUME NEW S, NEW q \in Seq(S), NEW x \in S
    PROVE  /\ Append(q, x) \in Seq(S) /\ Len(q) \in Nat
           /\ Len(Append(q, x)) = Len(q) + 1
           /\ \A i \in 1 .. Len(q) : Append(q, x)[i] = q[i]
           /\ Append(q, x)[Len(q) + 1] = x
  BY AppendProperties, LenProperties

LEMMA InitOK == Init => ThreadInvariant
<1> SUFFICES ASSUME Init PROVE ThreadInvariant
  OBVIOUS
<1>1. inbox \in Seq(Commands)
  BY DEF Init
<1>2. NewThread \in ThreadObjects
  BY DEF NewThread, ThreadObjects, Places, Parked, Reasons, Steppings
<1>3. [NewThread EXCEPT !.at = "running", !.stepping = "launch"] \in ThreadObjects
  <2>1. "running" \in Places /\ "launch" \in Steppings
    BY DEF Places, Steppings
  <2> QED
    BY <1>2, <2>1 DEF ThreadObjects
<1>4. thread \in [Threads -> ThreadObjects]
  BY <1>2, <1>3 DEF Init
<1>5. TypeOK
  BY <1>1, <1>4, MainAssumption DEF Init, TypeOK
<1>6. ParkedAgrees
  BY NothingAssumption DEF Init, NewThread, ParkedAgrees, Parked
<1> QED
  BY <1>5, <1>6 DEF ThreadInvariant

\* The values that the actions name.
LEMMA Values ==
    /\ "marking" \in Places /\ "visiting" \in Places /\ "waiting" \in Places /\ "acquiring" \in Places
    /\ "woken" \in Places /\ "working" \in Places /\ "worked" \in Places /\ "leaving" \in Places
    /\ "unborn" \in Places /\ "starting" \in Places /\ "running" \in Places /\ "stacks" \in Places
    /\ "stopping" \in Places /\ "untraced" \in Places /\ "exited" \in Places
    /\ "breakpoint" \in Reasons /\ "zombie" \in Reasons /\ "step" \in Reasons
    /\ "exception" \in Reasons /\ "loaded" \in Reasons /\ "async" \in Reasons
    /\ "none" \in Steppings /\ "break" \in Steppings /\ "step" \in Steppings
    /\ Nothing \notin Threads /\ Nothing # "loop" /\ "loop" \notin Threads
  BY NothingAssumption, LoopAssumption DEF Places, Parked, Reasons, Steppings

\* The types of the variables other than thread.
OthersOK ==
    /\ THREADS \subseteq Threads
    /\ registryLeaked \in BOOLEAN
    /\ SEND_BREAK_COMPLETE \in BOOLEAN
    /\ DETACHED \in BOOLEAN
    /\ breakpoints \in BOOLEAN
    /\ loop \in [at : {"reading", "resuming", "detaching", "ending", "ended", "dead"},
                 left : SUBSET Threads]
    /\ inbox \in Seq(Commands)
    /\ adapter \in [attached : BOOLEAN, pausing : BOOLEAN, shown : SUBSET Threads,
                    asked : SUBSET Asked, stops : Nat, commands : Nat]

\* The flags and the starting lock of a thread agree with its place.
Agrees(t, object) ==
    /\ object.is_blocked <=> object.at \in Parked
    /\ object.block_starting_lock = t <=> object.at \in {"marking", "visiting"}
    /\ object.is_working <=> object.at \in {"working", "worked"}

LEMMA Parts ==
    /\ ThreadInvariant <=> /\ thread \in [Threads -> ThreadObjects] /\ OthersOK
                           /\ \A t \in Threads : Agrees(t, thread[t])
    /\ ThreadInvariant' <=> /\ thread' \in [Threads -> ThreadObjects] /\ OthersOK'
                            /\ \A t \in Threads : Agrees(t, thread'[t])
  BY DEF ThreadInvariant, TypeOK, ParkedAgrees, OthersOK, Agrees

\* A step that changes one thread, to an object whose flags agree with its place.
LEMMA OneThreadKeeps ==
    ASSUME ThreadInvariant, NEW t \in Threads, NEW object \in ThreadObjects,
           Becomes(t, object), Agrees(t, object), OthersOK'
    PROVE  ThreadInvariant'
<1>1. thread' = [thread EXCEPT ![t] = object]
  BY DEF Becomes
<1>2. thread' \in [Threads -> ThreadObjects]
  BY <1>1, Parts
<1>3. ASSUME NEW u \in Threads PROVE Agrees(u, thread'[u])
  <2>1. CASE u = t
    BY <1>1, <2>1, Parts
  <2>2. CASE u # t
    BY <1>1, <2>2, Parts
  <2> QED
    BY <2>1, <2>2
<1> QED
  BY <1>2, <1>3, Parts

LEMMA KindsTyped ==
    ASSUME OthersOK
    PROVE  NextKinds \subseteq {"breakpoint", "zombie", "exception"}
<1>1. adapter.stops \in Nat
  BY DEF OthersOK
<1>2. CASE adapter.stops < Len(Kinds)
  <2>1. Len(Kinds) \in Nat
    BY KindsAssumption, LenProperties
  <2>2. adapter.stops + 1 \in 1 .. Len(Kinds)
    BY <1>1, <1>2, <2>1
  <2>3. Kinds[adapter.stops + 1] \in SUBSET {"breakpoint", "zombie", "exception"}
    BY <2>2, KindsAssumption, ElementOfSeq
  <2> QED
    BY <1>2, <2>3 DEF NextKinds
<1>3. CASE ~(adapter.stops < Len(Kinds))
  BY <1>3 DEF NextKinds
<1> QED
  BY <1>2, <1>3

LEMMA ShownTyped ==
    ASSUME OthersOK, NEW t \in Threads, Shows(t)
    PROVE  adapter' \in [attached : BOOLEAN, pausing : BOOLEAN, shown : SUBSET Threads,
                         asked : SUBSET Asked, stops : Nat, commands : Nat]
<1> DEFINE now == IF adapter.attached THEN adapter.shown \union {t} ELSE adapter.shown
<1>1. now \in SUBSET Threads
  BY DEF OthersOK
<1>2. adapter' = [adapter EXCEPT !.shown = now, !.pausing = FALSE]
  BY DEF Shows
<1> HIDE DEF now
<1> QED
  BY <1>1, <1>2 DEF OthersOK

\* What a thread does by itself changes that thread only: here, its stops ...
LEMMA ThreadKeeps ==
    ASSUME ThreadInvariant, NEW t \in Threads,
           Executes(t) \/ (Proceeds(t) /\ ~MarkOthers(t))
    PROVE  ThreadInvariant'
<1>a. thread[t] \in ThreadObjects /\ Agrees(t, thread[t])
  BY Parts
<1>b. OthersOK
  BY Parts
<1>1. CASE StartThread(t)
  <2> DEFINE object == [thread[t] EXCEPT !.at = "starting"]
  <2>1. object \in ThreadObjects
    BY <1>1, <1>a, <1>b, Values DEF ThreadObjects, OthersOK, StartThread
  <2>2. Agrees(t, object)
    BY <1>1, <1>a, Values DEF ThreadObjects, Agrees, Parked, StartThread
  <2>3. Becomes(t, object)
    BY <1>1 DEF StartThread, ToStop
  <2>4. OthersOK'
    BY <1>1, <1>b DEF OthersOK, StartThread, serverVars
  <2> HIDE DEF object
  <2> QED
    BY <2>1, <2>2, <2>3, <2>4, OneThreadKeeps
<1>2. CASE RegisterThread(t)
  <2> DEFINE object == [thread[t] EXCEPT !.at = "running"]
  <2>1. object \in ThreadObjects
    BY <1>2, <1>a, <1>b, Values DEF ThreadObjects, OthersOK, RegisterThread
  <2>2. Agrees(t, object)
    BY <1>2, <1>a, Values DEF ThreadObjects, Agrees, Parked, RegisterThread
  <2>3. Becomes(t, object)
    BY <1>2 DEF RegisterThread, ToStop
  <2>4. OthersOK'
    BY <1>2, <1>b DEF OthersOK, RegisterThread, serverVars
  <2> HIDE DEF object
  <2> QED
    BY <2>1, <2>2, <2>3, <2>4, OneThreadKeeps
<1>3. CASE ExitThread(t)
  <2> DEFINE object == [thread[t] EXCEPT !.at = "exited"]
  <2>1. object \in ThreadObjects
    BY <1>3, <1>a, <1>b, Values DEF ThreadObjects, OthersOK, ExitThread, Loaded, Traced
  <2>2. Agrees(t, object)
    BY <1>3, <1>a, Values DEF ThreadObjects, Agrees, Parked, ExitThread, Loaded, Traced
  <2>3. Becomes(t, object)
    BY <1>3 DEF ExitThread, ToStop
  <2>4. OthersOK'
    BY <1>3, <1>b DEF OthersOK, ExitThread, serverVars
  <2> HIDE DEF object
  <2> QED
    BY <2>1, <2>2, <2>3, <2>4, OneThreadKeeps
<1>4. CASE StacksVisited(t)
  <2> DEFINE object == [thread[t] EXCEPT !.at = "stopping"]
  <2>1. object \in ThreadObjects
    BY <1>4, <1>a, <1>b, Values DEF ThreadObjects, OthersOK, StacksVisited
  <2>2. Agrees(t, object)
    BY <1>4, <1>a, Values DEF ThreadObjects, Agrees, Parked, StacksVisited
  <2>3. Becomes(t, object)
    BY <1>4 DEF StacksVisited, ToStop
  <2>4. OthersOK'
    BY <1>4, <1>b DEF OthersOK, StacksVisited, serverVars
  <2> HIDE DEF object
  <2> QED
    BY <2>1, <2>2, <2>3, <2>4, OneThreadKeeps
<1>5. CASE Park(t)
  <2> DEFINE object == [thread[t] EXCEPT !.at = "waiting", !.block_starting_lock = Nothing]
  <2>1. object \in ThreadObjects
    BY <1>5, <1>a, <1>b, Values DEF ThreadObjects, OthersOK, Park
  <2>2. Agrees(t, object)
    BY <1>5, <1>a, Values DEF ThreadObjects, Agrees, Parked, Park
  <2>3. Becomes(t, object)
    BY <1>5 DEF Park, ToStop
  <2>4. OthersOK'
    BY <1>5, <1>b DEF OthersOK, Park, serverVars
  <2> HIDE DEF object
  <2> QED
    BY <2>1, <2>2, <2>3, <2>4, OneThreadKeeps
<1>6. CASE Wait(t)
  <2> DEFINE object == [thread[t] EXCEPT !.at = IF DETACHED THEN "leaving" ELSE "acquiring"]
  <2>1. object \in ThreadObjects
    BY <1>6, <1>a, <1>b, Values DEF ThreadObjects, OthersOK, Wait
  <2>2. Agrees(t, object)
    BY <1>6, <1>a, Values DEF ThreadObjects, Agrees, Parked, Wait
  <2>3. Becomes(t, object)
    BY <1>6 DEF Wait, ToStop
  <2>4. OthersOK'
    BY <1>6, <1>b DEF OthersOK, Wait, serverVars
  <2> HIDE DEF object
  <2> QED
    BY <2>1, <2>2, <2>3, <2>4, OneThreadKeeps
<1>7. CASE Acquire(t)
  <2> DEFINE object == [thread[t] EXCEPT !.at = "woken", !.block_lock = TRUE]
  <2>1. object \in ThreadObjects
    BY <1>7, <1>a, <1>b, Values DEF ThreadObjects, OthersOK, Acquire
  <2>2. Agrees(t, object)
    BY <1>7, <1>a, Values DEF ThreadObjects, Agrees, Parked, Acquire
  <2>3. Becomes(t, object)
    BY <1>7 DEF Acquire, ToStop
  <2>4. OthersOK'
    BY <1>7, <1>b DEF OthersOK, Acquire, serverVars
  <2> HIDE DEF object
  <2> QED
    BY <2>1, <2>2, <2>3, <2>4, OneThreadKeeps
<1>8. CASE DoWork(t)
  <2> DEFINE object == [thread[t] EXCEPT !.at = "worked"]
  <2>1. object \in ThreadObjects
    BY <1>8, <1>a, <1>b, Values DEF ThreadObjects, OthersOK, DoWork
  <2>2. Agrees(t, object)
    BY <1>8, <1>a, Values DEF ThreadObjects, Agrees, Parked, DoWork
  <2>3. Becomes(t, object)
    BY <1>8 DEF DoWork, ToStop
  <2>4. OthersOK'
    BY <1>8, <1>b DEF OthersOK, DoWork, serverVars
  <2> HIDE DEF object
  <2> QED
    BY <2>1, <2>2, <2>3, <2>4, OneThreadKeeps
<1>9. CASE WorkDone(t)
  <2> DEFINE object == [thread[t] EXCEPT !.at = "waiting", !.unblock_work = Nothing, !.is_working = FALSE]
  <2>1. object \in ThreadObjects
    BY <1>9, <1>a, <1>b, Values DEF ThreadObjects, OthersOK, WorkDone
  <2>2. Agrees(t, object)
    BY <1>9, <1>a, Values DEF ThreadObjects, Agrees, Parked, WorkDone
  <2>3. Becomes(t, object)
    BY <1>9 DEF WorkDone, ToStop
  <2>4. OthersOK'
    BY <1>9, <1>b DEF OthersOK, WorkDone, serverVars
  <2> HIDE DEF object
  <2> QED
    BY <2>1, <2>2, <2>3, <2>4, OneThreadKeeps
<1>10. CASE Leave(t)
  <2> DEFINE object == [thread[t] EXCEPT !.at = "running", !.is_blocked = FALSE]
  <2>1. object \in ThreadObjects
    BY <1>10, <1>a, <1>b, Values DEF ThreadObjects, OthersOK, Leave
  <2>2. Agrees(t, object)
    BY <1>10, <1>a, Values DEF ThreadObjects, Agrees, Parked, Leave
  <2>3. Becomes(t, object)
    BY <1>10 DEF Leave, ToStop
  <2>4. OthersOK'
    BY <1>10, <1>b DEF OthersOK, Leave, serverVars
  <2> HIDE DEF object
  <2> QED
    BY <2>1, <2>2, <2>3, <2>4, OneThreadKeeps
<1>11. CASE RaiseException(t)
  <2> DEFINE object == [thread[t] EXCEPT !.at = "stacks", !.why = "exception", !.todo = THREADS \ {t},
                                                    !.stepping = thread[t].stepping]
  <2>1. object \in ThreadObjects
    BY <1>11, <1>a, <1>b, Values DEF ThreadObjects, OthersOK, RaiseException, Loaded, Traced, ToStop
  <2>2. Agrees(t, object)
    BY <1>11, <1>a, Values DEF ThreadObjects, Agrees, Parked, RaiseException, Loaded, Traced, ToStop
  <2>3. Becomes(t, object)
    BY <1>11 DEF RaiseException, ToStop
  <2>4. OthersOK'
    BY <1>11, <1>b DEF OthersOK, RaiseException, serverVars
  <2> HIDE DEF object
  <2> QED
    BY <2>1, <2>2, <2>3, <2>4, OneThreadKeeps
<1>12. CASE HitBreakpoint(t)
  <2>0. PICK why \in NextKinds \ {"exception"} : ToStop(t, why, thread[t].stepping)
    BY <1>12 DEF HitBreakpoint
  <2>a. why \in Reasons
    BY <1>b, <2>0, KindsTyped, Values
  <2> DEFINE object == [thread[t] EXCEPT !.at = "stacks", !.why = why, !.todo = THREADS \ {t},
                                         !.stepping = thread[t].stepping]
  <2>1. object \in ThreadObjects
    BY <2>a, <1>a, <1>b, Values DEF ThreadObjects, OthersOK
  <2>2. Agrees(t, object)
    BY <1>12, <1>a, Values DEF ThreadObjects, Agrees, Parked, HitBreakpoint, Traced
  <2>3. Becomes(t, object)
    BY <2>0 DEF ToStop
  <2>4. OthersOK'
    BY <1>12, <1>b DEF OthersOK, HitBreakpoint, serverVars
  <2> HIDE DEF object
  <2> QED
    BY <2>1, <2>2, <2>3, <2>4, OneThreadKeeps
<1>13. CASE CompleteStep(t)
  <2>0. OthersOK'
    BY <1>13, <1>b DEF OthersOK, CompleteStep, serverVars, Shows
  <2>1. CASE ToStop(t, "step", "none")
    <3> DEFINE object == [thread[t] EXCEPT !.at = "stacks", !.why = "step", !.todo = THREADS \ {t},
                                           !.stepping = "none"]
    <3>1. object \in ThreadObjects
      BY <1>13, <2>1, <1>a, <1>b, Values DEF ThreadObjects, OthersOK
    <3>2. Agrees(t, object)
      BY <1>13, <2>1, <1>a, Values DEF ThreadObjects, Agrees, Parked, CompleteStep, Traced
    <3>3. Becomes(t, object)
      BY <1>13, <2>1 DEF CompleteStep, ToStop, Holding
    <3> HIDE DEF object
    <3> QED
      BY <2>0, <3>1, <3>2, <3>3, OneThreadKeeps
  <2>2. CASE ToStop(t, "loaded", "none")
    <3> DEFINE object == [thread[t] EXCEPT !.at = "stacks", !.why = "loaded", !.todo = THREADS \ {t},
                                           !.stepping = "none"]
    <3>1. object \in ThreadObjects
      BY <1>13, <2>2, <1>a, <1>b, Values DEF ThreadObjects, OthersOK
    <3>2. Agrees(t, object)
      BY <1>13, <2>2, <1>a, Values DEF ThreadObjects, Agrees, Parked, CompleteStep, Traced
    <3>3. Becomes(t, object)
      BY <1>13, <2>2 DEF CompleteStep, ToStop, Holding
    <3> HIDE DEF object
    <3> QED
      BY <2>0, <3>1, <3>2, <3>3, OneThreadKeeps
  <2> QED
    BY <1>13, <2>1, <2>2 DEF CompleteStep
<1>14. CASE TraceBreak(t)
  <2>0. OthersOK'
    BY <1>14, <1>b DEF OthersOK, TraceBreak, serverVars, Shows
  <2>1. CASE thread[t].detach
    <3> DEFINE object == [thread[t] EXCEPT !.at = "untraced"]
    <3>1. object \in ThreadObjects
      BY <1>14, <2>1, <1>a, <1>b, Values DEF ThreadObjects, OthersOK
    <3>2. Agrees(t, object)
      BY <1>14, <2>1, <1>a, Values DEF ThreadObjects, Agrees, Parked, TraceBreak
    <3>3. Becomes(t, object)
      BY <1>14, <2>1 DEF TraceBreak, ToStop, Holding
    <3> HIDE DEF object
    <3> QED
      BY <2>0, <3>1, <3>2, <3>3, OneThreadKeeps
  <2>2. CASE ~thread[t].detach
    <3> DEFINE object == [thread[t] EXCEPT !.at = "stopping", !.why = "async", !.stepping = "none"]
    <3>1. object \in ThreadObjects
      BY <1>14, <2>2, <1>a, <1>b, Values DEF ThreadObjects, OthersOK
    <3>2. Agrees(t, object)
      BY <1>14, <2>2, <1>a, Values DEF ThreadObjects, Agrees, Parked, TraceBreak
    <3>3. Becomes(t, object)
      BY <1>14, <2>2 DEF TraceBreak, ToStop, Holding
    <3> HIDE DEF object
    <3> QED
      BY <2>0, <3>1, <3>2, <3>3, OneThreadKeeps
  <2> QED
    BY <1>14, <2>1, <2>2 DEF TraceBreak
<1>15. CASE WakeUp(t)
  <2>0. OthersOK'
    BY <1>15, <1>b DEF OthersOK, WakeUp, serverVars, Shows
  <2>1. CASE thread[t].unblock_work = Nothing
    <3> DEFINE less == thread[t].releases - 1
               object == [thread[t] EXCEPT !.at = "leaving", !.releases = less]
    <3>0. less \in Int
      BY <1>a DEF ThreadObjects
    <3> HIDE DEF less
    <3>1. object \in ThreadObjects
      BY <3>0, <1>a, Values DEF ThreadObjects
    <3> USE DEF less
    <3>2. Agrees(t, object)
      BY <1>15, <2>1, <1>a, Values DEF ThreadObjects, Agrees, Parked, WakeUp
    <3>3. Becomes(t, object)
      BY <1>15, <2>1 DEF WakeUp, ToStop, Holding
    <3> HIDE DEF object
    <3> QED
      BY <2>0, <3>1, <3>2, <3>3, OneThreadKeeps
  <2>2. CASE thread[t].unblock_work # Nothing
    <3> DEFINE object == [thread[t] EXCEPT !.at = "working", !.is_working = TRUE]
    <3>1. object \in ThreadObjects
      BY <1>15, <2>2, <1>a, <1>b, Values DEF ThreadObjects, OthersOK
    <3>2. Agrees(t, object)
      BY <1>15, <2>2, <1>a, Values DEF ThreadObjects, Agrees, Parked, WakeUp
    <3>3. Becomes(t, object)
      BY <1>15, <2>2 DEF WakeUp, ToStop, Holding
    <3> HIDE DEF object
    <3> QED
      BY <2>0, <3>1, <3>2, <3>3, OneThreadKeeps
  <2> QED
    BY <1>15, <2>1, <2>2 DEF WakeUp
<1>16. CASE ReportBreak(t)
  <2>0. OthersOK'
    BY <1>16, <1>b, ShownTyped DEF OthersOK, ReportBreak, serverVars
  <2>1. CASE SEND_BREAK_COMPLETE
    <3> DEFINE object == [thread[t] EXCEPT !.is_blocked = TRUE, !.block_starting_lock = t, !.why = Nothing,
                                           !.at = "visiting", !.todo = THREADS \ {t}]
    <3>1. object \in ThreadObjects
      BY <1>16, <2>1, <1>a, <1>b, Values DEF ThreadObjects, OthersOK
    <3>2. Agrees(t, object)
      BY <1>16, <2>1, <1>a, Values DEF ThreadObjects, Agrees, Parked, ReportBreak, CanStop
    <3>3. Becomes(t, object)
      BY <1>16, <2>1 DEF ReportBreak, ToStop, Holding
    <3> HIDE DEF object
    <3> QED
      BY <2>0, <3>1, <3>2, <3>3, OneThreadKeeps
  <2>2. CASE ~SEND_BREAK_COMPLETE
    <3> DEFINE object == [thread[t] EXCEPT !.is_blocked = TRUE, !.block_starting_lock = t, !.why = Nothing,
                                           !.at = "visiting", !.todo = {}]
    <3>1. object \in ThreadObjects
      BY <1>16, <2>2, <1>a, <1>b, Values DEF ThreadObjects, OthersOK
    <3>2. Agrees(t, object)
      BY <1>16, <2>2, <1>a, Values DEF ThreadObjects, Agrees, Parked, ReportBreak, CanStop
    <3>3. Becomes(t, object)
      BY <1>16, <2>2 DEF ReportBreak, ToStop, Holding
    <3> HIDE DEF object
    <3> QED
      BY <2>0, <3>1, <3>2, <3>3, OneThreadKeeps
  <2> QED
    BY <1>16, <2>1, <2>2 DEF ReportBreak
<1>17. CASE ReportStop(t)
  <2>a. inbox' \in Seq(Commands)
    <3>1. <<"resume", t>> \in Commands
      BY DEF Commands
    <3>2. inbox' = inbox \/ inbox' = Append(inbox, <<"resume", t>>)
      BY <1>17 DEF ReportStop
    <3>3. inbox \in Seq(Commands)
      BY <1>b DEF OthersOK
    <3> QED
      BY <3>1, <3>2, <3>3, InboxAppend
  <2>0. OthersOK'
    BY <1>17, <1>b, <2>a, ShownTyped DEF OthersOK, ReportStop, serverVars
  <2>1. CASE thread[t].why \in {"breakpoint", "zombie", "step"}
    <3> DEFINE object == [thread[t] EXCEPT !.is_blocked = TRUE, !.block_starting_lock = t, !.why = Nothing,
                                           !.at = "marking", !.todo = {}]
    <3>1. object \in ThreadObjects
      BY <1>17, <2>1, <1>a, <1>b, Values DEF ThreadObjects, OthersOK
    <3>2. Agrees(t, object)
      BY <1>17, <2>1, <1>a, Values DEF ThreadObjects, Agrees, Parked, ReportStop, CanStop
    <3>3. Becomes(t, object)
      BY <1>17, <2>1 DEF ReportStop, ToStop, Holding
    <3> HIDE DEF object
    <3> QED
      BY <2>0, <3>1, <3>2, <3>3, OneThreadKeeps
  <2>2. CASE thread[t].why \notin {"breakpoint", "zombie", "step"}
    <3> DEFINE object == [thread[t] EXCEPT !.is_blocked = TRUE, !.block_starting_lock = t, !.why = Nothing,
                                           !.at = "visiting", !.todo = {}]
    <3>1. object \in ThreadObjects
      BY <1>17, <2>2, <1>a, <1>b, Values DEF ThreadObjects, OthersOK
    <3>2. Agrees(t, object)
      BY <1>17, <2>2, <1>a, Values DEF ThreadObjects, Agrees, Parked, ReportStop, CanStop
    <3>3. Becomes(t, object)
      BY <1>17, <2>2 DEF ReportStop, ToStop, Holding
    <3> HIDE DEF object
    <3> QED
      BY <2>0, <3>1, <3>2, <3>3, OneThreadKeeps
  <2> QED
    BY <1>17, <2>1, <2>2 DEF ReportStop
<1>18. ASSUME NEW u \in Threads, VisitStack(t, u) PROVE ThreadInvariant'
  <2> DEFINE object == [thread[t] EXCEPT !.todo = @ \ {u}]
  <2>1. object \in ThreadObjects
    BY <1>a DEF ThreadObjects
  <2>2. Agrees(t, object)
    BY <1>a DEF ThreadObjects, Agrees
  <2>3. Becomes(t, object)
    BY <1>18 DEF VisitStack
  <2>4. OthersOK'
    BY <1>18, <1>b DEF OthersOK, VisitStack, serverVars
  <2> HIDE DEF object
  <2> QED
    BY <2>1, <2>2, <2>3, <2>4, OneThreadKeeps
<1> QED
  BY <1>1, <1>2, <1>3, <1>4, <1>5, <1>6, <1>7, <1>8, <1>9, <1>10, <1>11, <1>12, <1>13, <1>14, <1>15, <1>16, <1>17, <1>18 DEF Executes, Proceeds

LEMMA ReadTyped ==
    ASSUME OthersOK, Reading
    PROVE  Head(inbox) \in Commands /\ Tail(inbox) \in Seq(Commands)
  BY InboxHead DEF OthersOK, Reading

LEMMA LoopTyped ==
    ASSUME OthersOK
    PROVE  LET L == [at : {"reading", "resuming", "detaching", "ending", "ended", "dead"},
                     left : SUBSET Threads]
           IN  loop \in L /\ Dead \in L /\ Resuming \in L
  BY DEF OthersOK, Dead, Resuming

\* mark_all_threads_for_break changes nothing else.
LEMMA MarkKeeps ==
    ASSUME ThreadInvariant, NEW ts \in SUBSET Threads
    PROVE  /\ Mark(ts) \in [Threads -> ThreadObjects]
           /\ \A u \in Threads : Agrees(u, Mark(ts)[u])
<1> SUFFICES ASSUME NEW u \in Threads
             PROVE  Mark(ts)[u] \in ThreadObjects /\ Agrees(u, Mark(ts)[u])
  BY DEF Mark
<1>1. thread[u] \in ThreadObjects /\ Agrees(u, thread[u])
  BY Parts
<1> DEFINE object == [thread[u] EXCEPT !.stepping = "break"]
<1>2. object \in ThreadObjects /\ Agrees(u, object)
  BY <1>1, Values DEF ThreadObjects, Agrees
<1> QED
  BY <1>1, <1>2 DEF Mark

\* A thread of the loop: resumed, charged with work, told to detach, or left locked.
LEMMA LoopKeeps ==
    ASSUME ThreadInvariant, Loops
    PROVE  ThreadInvariant'
<1>a. OthersOK /\ THREADS \subseteq Threads
  BY Parts DEF OthersOK
<1>b. ASSUME NEW t \in Threads PROVE thread[t] \in ThreadObjects /\ Agrees(t, thread[t])
  BY Parts
<1>1. CASE BreakAll
  <2>1. OthersOK'
    BY <1>1, <1>a, ReadTyped DEF OthersOK, BreakAll, serverVars, Reads, Reads0
  <2>2. thread' = Mark(THREADS)
    BY <1>1 DEF BreakAll
  <2> QED
    BY <1>a, <2>1, <2>2, MarkKeeps, Parts
<1>2. CASE StartResume
  <2>1. OthersOK'
    BY <1>2, <1>a, ReadTyped, LoopTyped DEF OthersOK, StartResume, serverVars, Reads, Reads0
  <2>2. CASE UNCHANGED thread
    BY <2>1, <2>2, Parts
  <2>3. CASE thread' # thread
    <3>1. Subject \in Threads /\ Becomes(Subject, [thread[Subject] EXCEPT !.stepping = "step"])
      BY <1>2, <1>a, <2>3 DEF StartResume
    <3> DEFINE object == [thread[Subject] EXCEPT !.stepping = "step"]
    <3>2. object \in ThreadObjects /\ Agrees(Subject, object)
      BY <1>b, <3>1, Values DEF ThreadObjects, Agrees
    <3> QED
      BY <2>1, <3>1, <3>2, OneThreadKeeps
  <2> QED
    BY <2>2, <2>3
<1>3. CASE Resumed
  <2>1. OthersOK' /\ UNCHANGED thread
    BY <1>3, <1>a, LoopTyped DEF OthersOK, serverVars, Resumed
  <2> QED
    BY <2>1, Parts
<1>4. CASE ResumeThread
  <2>1. OthersOK'
    BY <1>4, <1>a, ReadTyped, LoopTyped DEF OthersOK, ResumeThread, serverVars, Reads, Reads0
  <2>2. CASE UNCHANGED thread
    BY <2>1, <2>2, Parts
  <2>3. CASE thread' # thread
    <3> DEFINE more == thread[Subject].releases + 1
               object == [thread[Subject] EXCEPT !.block_lock = FALSE, !.releases = more]
    <3>1. Subject \in Threads /\ Becomes(Subject, object)
      BY <1>4, <1>a, <2>3 DEF ResumeThread
    <3>2. thread[Subject] \in ThreadObjects /\ Agrees(Subject, thread[Subject])
      BY <1>b, <3>1
    <3>3. more \in Int
      BY <3>2 DEF ThreadObjects
    <3> HIDE DEF more
    <3>4. object \in ThreadObjects /\ Agrees(Subject, object)
      BY <3>2, <3>3 DEF ThreadObjects, Agrees
    <3> QED
      BY <2>1, <3>1, <3>4, OneThreadKeeps
  <2> QED
    BY <2>2, <2>3
<1>5. CASE Evaluate
  <2>1. OthersOK'
    <3>1. adapter' = adapter \/ \E e \in {Subject[2]} : adapter' = [adapter EXCEPT !.asked = @ \ {e}]
      BY <1>5 DEF Evaluate, Refuses
    <3>2. adapter' \in [attached : BOOLEAN, pausing : BOOLEAN, shown : SUBSET Threads,
                        asked : SUBSET Asked, stops : Nat, commands : Nat]
      BY <1>a, <3>1 DEF OthersOK
    <3>3. inbox' = Tail(inbox) /\ (loop' = loop \/ loop' = Dead) /\ UNCHANGED <<THREADS, registryLeaked, serverVars>>
      BY <1>5 DEF Evaluate, Schedule, Reads, Reads0
    <3> QED
      BY <1>5, <1>a, <3>2, <3>3, ReadTyped, LoopTyped DEF OthersOK, serverVars, Evaluate
  <2>2. CASE UNCHANGED thread
    BY <2>1, <2>2, Parts
  <2>3. CASE thread' # thread
    <3> DEFINE t == Subject[1]
               e == Subject[2]
    <3>1. t \in Threads /\ Schedule(t, e) /\ thread[t].block_starting_lock = Nothing
      BY <1>5, <1>a, <2>3 DEF Evaluate
    <3>2. e \in Asked
      <4>1. Head(inbox) \in Commands /\ Head(inbox)[1] = "evaluate"
        BY <1>5, <1>a, ReadTyped DEF Evaluate, Op
      <4> QED
        BY <4>1 DEF Commands, Subject
    <3> HIDE DEF t, e
    <3>3. thread[t] \in ThreadObjects /\ Agrees(t, thread[t])
      BY <1>b, <3>1
    <3>4. CASE CanUnblock(t)
      <4> DEFINE object == [thread[t] EXCEPT !.unblock_work = e, !.block_lock = FALSE]
      <4>1. object \in ThreadObjects /\ Agrees(t, object)
        BY <3>2, <3>3 DEF ThreadObjects, Agrees
      <4>2. Becomes(t, object)
        BY <3>1, <3>4 DEF Schedule
      <4> QED
        BY <2>1, <3>1, <4>1, <4>2, OneThreadKeeps
    <3>5. CASE ~CanUnblock(t)
      <4> DEFINE object == [thread[t] EXCEPT !.unblock_work = e, !.block_starting_lock = "loop"]
      <4>1. object \in ThreadObjects
        BY <3>2, <3>3 DEF ThreadObjects
      <4>2. Agrees(t, object)
        BY <3>1, <3>3, Values DEF ThreadObjects, Agrees
      <4>3. Becomes(t, object)
        BY <3>1, <3>5 DEF Schedule
      <4> QED
        BY <2>1, <3>1, <4>1, <4>2, <4>3, OneThreadKeeps
    <3> QED
      BY <3>4, <3>5
  <2> QED
    BY <2>2, <2>3
<1>6. CASE StartDetach
  <2>1. OthersOK' /\ UNCHANGED thread
    BY <1>6, <1>a, ReadTyped DEF OthersOK, serverVars, StartDetach, Reads
  <2> QED
    BY <2>1, Parts
<1>7. CASE ForgetThreads
  <2>1. OthersOK' /\ UNCHANGED thread
    BY <1>7, <1>a, LoopTyped DEF OthersOK, serverVars, ForgetThreads
  <2> QED
    BY <2>1, Parts
<1>8. CASE DetachProcess
  <2>1. OthersOK' /\ UNCHANGED thread
    BY <1>8, <1>a, LoopTyped DEF OthersOK, serverVars, DetachProcess
  <2> QED
    BY <2>1, Parts
<1>9. ASSUME NEW t \in Threads, ResumeNext(t) PROVE ThreadInvariant'
  <2>0. loop' = Dead \/ loop' = [loop EXCEPT !.left = @ \ {t}]
    BY <1>9 DEF ResumeNext
  <2>1. OthersOK'
    BY <1>9, <1>a, <2>0, LoopTyped DEF OthersOK, ResumeNext, serverVars
  <2>2. thread[t] \in ThreadObjects /\ Agrees(t, thread[t])
    BY <1>b
  <2> DEFINE base == [thread[t] EXCEPT !.stepping = Unmarked(@)]
             more == thread[t].releases + 1
             object == [base EXCEPT !.block_lock = FALSE, !.releases = more]
             locked == [base EXCEPT !.block_starting_lock = "loop"]
  <2>3. more \in Int
    BY <2>2 DEF ThreadObjects
  <2>4. base \in ThreadObjects /\ Agrees(t, base) /\ base.releases = thread[t].releases
        /\ base.block_starting_lock = thread[t].block_starting_lock
        /\ base.at = thread[t].at
    BY <2>2, Values DEF ThreadObjects, Agrees, Unmarked
  <2>5. Becomes(t, base) \/ Becomes(t, object) \/ (Becomes(t, locked) /\ thread[t].block_starting_lock = Nothing)
    BY <1>9, <2>4 DEF ResumeNext
  <2> HIDE DEF base, more
  <2>6. object \in ThreadObjects /\ Agrees(t, object)
    BY <2>3, <2>4 DEF ThreadObjects, Agrees
  <2>7. locked \in ThreadObjects
    BY <2>4 DEF ThreadObjects
  <2>8. thread[t].block_starting_lock = Nothing => Agrees(t, locked)
    BY <2>4, Values DEF ThreadObjects, Agrees
  <2> HIDE DEF object, locked
  <2> QED
    BY <2>1, <2>4, <2>5, <2>6, <2>7, <2>8, OneThreadKeeps
<1>10. ASSUME NEW t \in Threads, DetachNext(t) PROVE ThreadInvariant'
  <2>0. loop' = Dead \/ loop' = [loop EXCEPT !.left = @ \ {t}]
    BY <1>10 DEF DetachNext
  <2>1. OthersOK'
    BY <1>10, <1>a, <2>0, LoopTyped DEF OthersOK, DetachNext, serverVars
  <2>2. thread[t] \in ThreadObjects /\ Agrees(t, thread[t])
    BY <1>b
  <2> DEFINE base == [thread[t] EXCEPT !.detach = TRUE, !.stepping = "break"]
             more == thread[t].releases + 1
             object == [base EXCEPT !.block_lock = FALSE, !.releases = more]
             locked == [base EXCEPT !.block_starting_lock = "loop"]
  <2>3. more \in Int
    BY <2>2 DEF ThreadObjects
  <2>4. base \in ThreadObjects /\ Agrees(t, base) /\ base.releases = thread[t].releases
        /\ base.block_starting_lock = thread[t].block_starting_lock
        /\ base.at = thread[t].at
    BY <2>2, Values DEF ThreadObjects, Agrees
  <2>5. Becomes(t, base) \/ Becomes(t, object) \/ (Becomes(t, locked) /\ thread[t].block_starting_lock = Nothing)
    BY <1>10, <2>4 DEF DetachNext
  <2> HIDE DEF base, more
  <2>6. object \in ThreadObjects /\ Agrees(t, object)
    BY <2>3, <2>4 DEF ThreadObjects, Agrees
  <2>7. locked \in ThreadObjects
    BY <2>4 DEF ThreadObjects
  <2>8. thread[t].block_starting_lock = Nothing => Agrees(t, locked)
    BY <2>4, Values DEF ThreadObjects, Agrees
  <2> HIDE DEF object, locked
  <2> QED
    BY <2>1, <2>4, <2>5, <2>6, <2>7, <2>8, OneThreadKeeps
<1> QED
  BY <1>1, <1>2, <1>3, <1>4, <1>5, <1>6, <1>7, <1>8, <1>9, <1>10 DEF Loops

AdapterObjects ==
    [attached : BOOLEAN, pausing : BOOLEAN, shown : SUBSET Threads, asked : SUBSET Asked,
     stops : Nat, commands : Nat]

LEMMA AsksKeeps ==
    ASSUME ThreadInvariant, Asks
    PROVE  ThreadInvariant'
<1>a. OthersOK
  BY Parts
<1>b. adapter \in AdapterObjects /\ adapter.commands + 1 \in Nat
  BY <1>a DEF OthersOK, AdapterObjects
<1>1. ASSUME NEW op \in {"break", "continue", "step", "resume", "detach"},
             NEW subject \in Threads \union {Nothing}, Sends(op, subject)
      PROVE  inbox' \in Seq(Commands)
  <2>1. inbox \in Seq(Commands) /\ <<op, subject>> \in Commands
    BY <1>a DEF OthersOK, Commands
  <2> QED
    BY <1>1, <2>1, InboxAppend DEF Sends
<1>2. CASE Pause
  <2>1. inbox' \in Seq(Commands)
    BY <1>1, <1>2 DEF Pause
  <2>2. adapter' \in AdapterObjects
    BY <1>2, <1>b DEF Pause, AdapterObjects
  <2>3. OthersOK' /\ UNCHANGED thread
    BY <1>2, <2>1, <2>2, <1>a DEF Pause, Sends, OthersOK, serverVars, AdapterObjects
  <2> QED
    BY <2>3, Parts
<1>3. CASE Continue
  <2>1. inbox' \in Seq(Commands)
    BY <1>1, <1>3 DEF Continue
  <2>2. adapter' \in AdapterObjects
    BY <1>3, <1>b DEF Continue, AdapterObjects
  <2>3. OthersOK' /\ UNCHANGED thread
    BY <1>3, <2>1, <2>2, <1>a DEF Continue, Sends, OthersOK, serverVars, AdapterObjects
  <2> QED
    BY <2>3, Parts
<1>4. CASE Disconnect
  <2>1. inbox' \in Seq(Commands)
    BY <1>1, <1>4 DEF Disconnect
  <2>2. adapter' \in AdapterObjects
    BY <1>4, <1>b DEF Disconnect, AdapterObjects
  <2>3. OthersOK' /\ UNCHANGED thread
    BY <1>4, <2>1, <2>2, <1>a DEF Disconnect, Sends, OthersOK, serverVars, AdapterObjects
  <2> QED
    BY <2>3, Parts
<1>5. ASSUME NEW t \in Threads, Step(t) PROVE ThreadInvariant'
  <2>1. inbox' \in Seq(Commands)
    BY <1>1, <1>5 DEF Step
  <2>2. adapter' \in AdapterObjects
    BY <1>5, <1>b DEF Step, AdapterObjects
  <2>3. OthersOK' /\ UNCHANGED thread
    BY <1>5, <2>1, <2>2, <1>a DEF Step, Sends, OthersOK, serverVars, AdapterObjects
  <2> QED
    BY <2>3, Parts
<1>6. ASSUME NEW t \in Threads, NEW e \in Asked, AskFor(t, e) PROVE ThreadInvariant'
  <2>1. inbox \in Seq(Commands) /\ <<"evaluate", <<t, e>>>> \in Commands
    BY <1>a DEF OthersOK, Commands
  <2>2. inbox' \in Seq(Commands)
    BY <1>6, <2>1, InboxAppend DEF AskFor
  <2> QED
    BY <1>6, <1>a, <2>2, Parts DEF AskFor, OthersOK, serverVars
<1> QED
  BY <1>2, <1>3, <1>4, <1>5, <1>6 DEF Asks

LEMMA NextKeeps ==
    ASSUME ThreadInvariant, [Next]_vars
    PROVE  ThreadInvariant'
<1>1. CASE UNCHANGED vars
  BY <1>1, Parts DEF vars, serverVars, OthersOK
<1>2. ASSUME NEW t \in Threads, MarkOthers(t) PROVE ThreadInvariant'
  <2>1. Mark(THREADS \ {t}) \in [Threads -> ThreadObjects]
        /\ \A u \in Threads : Agrees(u, Mark(THREADS \ {t})[u])
    BY MarkKeeps, Parts DEF OthersOK
  <2> DEFINE object == [thread[t] EXCEPT !.at = "visiting"]
  <2>2. object \in ThreadObjects /\ Agrees(t, object)
    BY <1>2, Values, Parts DEF ThreadObjects, Agrees, Parked, MarkOthers
  <2>3. thread' = [Mark(THREADS \ {t}) EXCEPT ![t] = object]
    BY <1>2 DEF MarkOthers
  <2>4. OthersOK'
    BY <1>2, Parts DEF MarkOthers, OthersOK, serverVars
  <2> HIDE DEF object
  <2>5. thread' \in [Threads -> ThreadObjects] /\ \A u \in Threads : Agrees(u, thread'[u])
    BY <2>1, <2>2, <2>3
  <2> QED
    BY <2>4, <2>5, Parts
<1>3. ASSUME NEW t \in Threads, Executes(t) \/ Proceeds(t) PROVE ThreadInvariant'
  BY <1>2, <1>3, ThreadKeeps
<1> QED
  BY <1>1, <1>3, LoopKeeps, AsksKeeps DEF Next

\* The locks and the flags of every thread agree with what it does, whatever the others and the
\* command loop do.
THEOREM ThreadsCorrect == Spec => []ThreadInvariant
<1>1. ThreadInvariant /\ [Next]_vars => ThreadInvariant'
  BY NextKeeps
<1> QED
  BY <1>1, InitOK, PTL DEF Spec

-----------------------------------------------------------------------------
(* One evaluation at a time. *)

\* Nothing that counts for ResumesCover happens to the thread.
Quiet == {"woken", "working", "worked"}
Inert(t) ==
    /\ thread'[t].block_lock = thread[t].block_lock
    /\ thread'[t].releases = thread[t].releases
    /\ thread'[t].unblock_work = thread[t].unblock_work
    /\ \/ thread'[t].at = thread[t].at
       \/ thread'[t].at \notin Quiet /\ thread[t].at \notin Quiet

SameWork(t) == Charged(t)' => Charged(t) /\ thread'[t].unblock_work = thread[t].unblock_work

Covered(t) == thread[t].releases >= 0 /\ thread[t].releases + Work(t) >= Wakes(t)

LEMMA InertCovered ==
    ASSUME NEW t \in Threads, Inert(t), Covered(t)
    PROVE  Covered(t)' /\ SameWork(t)
  BY DEF Inert, Covered, SameWork, Charged, Work, Wakes, Quiet

\* No evaluation is added, none is charged to a thread, and none is answered.
LEMMA NothingAsked ==
    ASSUME ThreadInvariant, OneEvaluation, adapter'.asked = adapter.asked,
           \/ inbox' = inbox
           \/ Reading /\ inbox' = Tail(inbox)
           \/ \E x \in Commands : ~Evaluates(x) /\ inbox' = Append(inbox, x),
           \A t \in Threads : SameWork(t)
    PROVE  OneEvaluation'
<1>a. inbox \in Seq(Commands)
  BY Parts DEF OthersOK
<1>1. \A i \in 1 .. Len(inbox') : Evaluates(inbox'[i]) =>
         \E k \in 1 .. Len(inbox) : inbox[k] = inbox'[i] /\ (k = i \/ (k = i + 1 /\ inbox' = Tail(inbox)))
  <2>1. CASE inbox' = inbox
    BY <2>1
  <2>2. CASE Reading /\ inbox' = Tail(inbox)
    <3>1. inbox # <<>>
      BY <2>2 DEF Reading
    <3> QED
      BY <1>a, <2>2, <3>1, InboxHead
  <2>3. CASE \E x \in Commands : ~Evaluates(x) /\ inbox' = Append(inbox, x)
    <3>1. PICK x \in Commands : ~Evaluates(x) /\ inbox' = Append(inbox, x)
      BY <2>3
    <3>2. /\ Len(inbox) \in Nat
          /\ Len(inbox') = Len(inbox) + 1
          /\ \A i \in 1 .. Len(inbox) : inbox'[i] = inbox[i]
          /\ inbox'[Len(inbox) + 1] = x
      BY <1>a, <3>1, InboxAppend
    <3> QED
      BY <3>1, <3>2
  <2> QED
    BY <2>1, <2>2, <2>3
<1>2. ASSUME NEW i \in 1 .. Len(inbox'), Evaluates(inbox'[i])
      PROVE  /\ inbox'[i][2][2] \in adapter.asked
             /\ \A j \in 1 .. Len(inbox') : Evaluates(inbox'[j]) => i = j
             /\ \A t \in Threads : ~Charged(t)
  <2>1. PICK k \in 1 .. Len(inbox) :
           inbox[k] = inbox'[i] /\ (k = i \/ (k = i + 1 /\ inbox' = Tail(inbox)))
    BY <1>1, <1>2
  <2>2. Evaluates(inbox[k])
    BY <1>2, <2>1 DEF Evaluates
  <2>3. inbox[k][2][2] \in adapter.asked /\ \A t \in Threads : ~Charged(t)
    BY <2>2 DEF OneEvaluation
  <2>4. ASSUME NEW j \in 1 .. Len(inbox'), Evaluates(inbox'[j]) PROVE i = j
    <3>1. PICK l \in 1 .. Len(inbox) :
             inbox[l] = inbox'[j] /\ (l = j \/ (l = j + 1 /\ inbox' = Tail(inbox)))
      BY <1>1, <2>4
    <3>2. Evaluates(inbox[l])
      BY <2>4, <3>1 DEF Evaluates
    <3>3. k = l
      BY <2>2, <3>2 DEF OneEvaluation
    <3>4. CASE inbox' = Tail(inbox) /\ Len(inbox) >= 1
      <4>1. inbox # <<>>
        BY <1>a, <3>4, EmptySeq, LenProperties
      <4>2. Len(Tail(inbox)) = Len(inbox) - 1 /\ Len(inbox) \in Nat
            /\ \A m \in 1 .. Len(inbox) - 1 : Tail(inbox)[m] = inbox[m + 1]
        BY <1>a, <4>1, InboxHead
      <4>3. Evaluates(inbox[i + 1]) /\ i + 1 \in 1 .. Len(inbox)
        BY <1>2, <3>4, <4>2
      <4>4. Evaluates(inbox[j + 1]) /\ j + 1 \in 1 .. Len(inbox)
        BY <2>4, <3>4, <4>2
      <4>5. i + 1 = j + 1
        BY <4>3, <4>4 DEF OneEvaluation
      <4> QED
        BY <3>4, <4>2, <4>5
    <3>5. CASE ~(inbox' = Tail(inbox) /\ Len(inbox) >= 1)
      <4>1. Len(inbox) \in Nat
        BY <1>a, LenProperties
      <4>2. Len(inbox) >= 1
        BY <4>1, <2>1
      <4> QED
        BY <2>1, <3>1, <3>3, <3>5, <4>2
    <3> QED
      BY <3>4, <3>5
  <2> QED
    BY <2>1, <2>3, <2>4
<1>3. ASSUME NEW t \in Threads, Charged(t)'
      PROVE  /\ thread'[t].unblock_work \in adapter.asked
             /\ \A u \in Threads : Charged(u)' => t = u
  BY <1>3 DEF SameWork, OneEvaluation
<1>4. \A t \in Threads : ~Charged(t) => ~Charged(t)'
  BY DEF SameWork
<1>5. \A e, f \in adapter.asked : e = f
  BY DEF OneEvaluation
<1> QED
  BY <1>2, <1>3, <1>4, <1>5 DEF OneEvaluation

\* The evaluation at the head of the inbox is the only one.
LEMMA EvaluationTaken ==
    ASSUME ThreadInvariant, OneEvaluation, Reading, Op = "evaluate"
    PROVE  /\ Subject[2] \in adapter.asked
           /\ \A t \in Threads : ~Charged(t)
           /\ \A i \in 1 .. Len(Tail(inbox)) : ~Evaluates(Tail(inbox)[i])
<1>a. inbox \in Seq(Commands) /\ inbox # <<>>
  BY Parts DEF OthersOK, Reading
<1>1. /\ Len(inbox) \in Nat /\ Len(inbox) >= 1 /\ Head(inbox) = inbox[1]
      /\ Len(Tail(inbox)) = Len(inbox) - 1
      /\ \A i \in 1 .. Len(inbox) - 1 : Tail(inbox)[i] = inbox[i + 1]
  BY <1>a, InboxHead
<1>2. 1 \in 1 .. Len(inbox) /\ Evaluates(inbox[1])
  BY <1>1 DEF Op, Evaluates
<1>3. /\ inbox[1][2][2] \in adapter.asked
      /\ \A t \in Threads : ~Charged(t)
      /\ \A j \in 1 .. Len(inbox) : Evaluates(inbox[j]) => j = 1
  BY <1>2 DEF OneEvaluation
<1>4. ASSUME NEW i \in 1 .. Len(Tail(inbox)), Evaluates(Tail(inbox)[i]) PROVE FALSE
  <2>1. i + 1 \in 1 .. Len(inbox) /\ Tail(inbox)[i] = inbox[i + 1]
    BY <1>1
  <2>2. Evaluates(inbox[i + 1])
    BY <1>4, <2>1 DEF Evaluates
  <2>3. i + 1 = 1
    BY <1>3, <2>1, <2>2
  <2> QED
    BY <1>1, <2>3
<1> QED
  BY <1>1, <1>3, <1>4 DEF Subject

\* What the step of one thread leaves alone.
Keeps(t, object) ==
    /\ object.block_lock = thread[t].block_lock
    /\ object.releases = thread[t].releases
    /\ object.unblock_work = thread[t].unblock_work
    /\ object.at = thread[t].at \/ (object.at \notin Quiet /\ thread[t].at \notin Quiet)

LEMMA KeptInert ==
    ASSUME thread \in [Threads -> ThreadObjects], NEW t \in Threads, NEW object,
           Becomes(t, object), Keeps(t, object)
    PROVE  \A u \in Threads : Inert(u)
<1>1. thread'[t] = object /\ \A u \in Threads \ {t} : thread'[u] = thread[u]
  BY DEF Becomes
<1>2. Inert(t)
  BY <1>1 DEF Keeps, Inert
<1>3. \A u \in Threads \ {t} : Inert(u)
  BY <1>1 DEF Inert
<1> QED
  BY <1>2, <1>3

\* The steps of a thread that do not take, use or give up its lock.
LEMMA InertSteps ==
    ASSUME ThreadInvariant, NEW t \in Threads,
           \/ Executes(t)
           \/ Proceeds(t) /\ ~Acquire(t) /\ ~WakeUp(t) /\ ~DoWork(t) /\ ~WorkDone(t)
    PROVE  \A u \in Threads : Inert(u)
<1>a. thread \in [Threads -> ThreadObjects]
  BY Parts
<1>1. CASE HitBreakpoint(t)
  <2>0. PICK why : Becomes(t, [thread[t] EXCEPT !.at = "stacks", !.why = why, !.todo = THREADS \ {t}, !.stepping = thread[t].stepping])
    BY <1>1 DEF HitBreakpoint, ToStop, Traced
  <2> DEFINE object == [thread[t] EXCEPT !.at = "stacks", !.why = why, !.todo = THREADS \ {t}, !.stepping = thread[t].stepping]
  <2>1. Becomes(t, object)
    BY <2>0
  <2>2. Keeps(t, object)
    BY <1>1, <1>a DEF HitBreakpoint, Keeps, Quiet, ThreadObjects, Traced
  <2> HIDE DEF object
  <2> QED
    BY <1>a, <2>1, <2>2, KeptInert
<1>2. CASE RaiseException(t)
  <2>0. PICK why : Becomes(t, [thread[t] EXCEPT !.at = "stacks", !.why = why, !.todo = THREADS \ {t}, !.stepping = thread[t].stepping])
    BY <1>2 DEF RaiseException, ToStop, Loaded, Traced
  <2> DEFINE object == [thread[t] EXCEPT !.at = "stacks", !.why = why, !.todo = THREADS \ {t}, !.stepping = thread[t].stepping]
  <2>1. Becomes(t, object)
    BY <2>0
  <2>2. Keeps(t, object)
    BY <1>2, <1>a DEF RaiseException, Keeps, Quiet, ThreadObjects, Loaded, Traced
  <2> HIDE DEF object
  <2> QED
    BY <1>a, <2>1, <2>2, KeptInert
<1>3. CASE CompleteStep(t)
  <2>0. PICK why : Becomes(t, [thread[t] EXCEPT !.at = "stacks", !.why = why, !.todo = THREADS \ {t}, !.stepping = "none"])
    BY <1>3 DEF CompleteStep, ToStop, Traced
  <2> DEFINE object == [thread[t] EXCEPT !.at = "stacks", !.why = why, !.todo = THREADS \ {t}, !.stepping = "none"]
  <2>1. Becomes(t, object)
    BY <2>0
  <2>2. Keeps(t, object)
    BY <1>3, <1>a DEF CompleteStep, Keeps, Quiet, ThreadObjects, Traced
  <2> HIDE DEF object
  <2> QED
    BY <1>a, <2>1, <2>2, KeptInert
<1>4. CASE TraceBreak(t)
  <2> DEFINE object == IF thread[t].detach
       THEN [thread[t] EXCEPT !.at = "untraced"]
       ELSE [thread[t] EXCEPT !.at = "stopping", !.why = "async", !.stepping = "none"]
  <2>1. Becomes(t, object)
    BY <1>4 DEF TraceBreak
  <2>2. Keeps(t, object)
    BY <1>4, <1>a DEF TraceBreak, Keeps, Quiet, ThreadObjects
  <2> HIDE DEF object
  <2> QED
    BY <1>a, <2>1, <2>2, KeptInert
<1>5. CASE StartThread(t)
  <2> DEFINE object == [thread[t] EXCEPT !.at = "starting"]
  <2>1. Becomes(t, object)
    BY <1>5 DEF StartThread
  <2>2. Keeps(t, object)
    BY <1>5, <1>a DEF StartThread, Keeps, Quiet, ThreadObjects
  <2> HIDE DEF object
  <2> QED
    BY <1>a, <2>1, <2>2, KeptInert
<1>6. CASE RegisterThread(t)
  <2> DEFINE object == [thread[t] EXCEPT !.at = "running"]
  <2>1. Becomes(t, object)
    BY <1>6 DEF RegisterThread
  <2>2. Keeps(t, object)
    BY <1>6, <1>a DEF RegisterThread, Keeps, Quiet, ThreadObjects
  <2> HIDE DEF object
  <2> QED
    BY <1>a, <2>1, <2>2, KeptInert
<1>7. CASE ExitThread(t)
  <2> DEFINE object == [thread[t] EXCEPT !.at = "exited"]
  <2>1. Becomes(t, object)
    BY <1>7 DEF ExitThread, Loaded, Traced
  <2>2. Keeps(t, object)
    BY <1>7, <1>a DEF ExitThread, Keeps, Quiet, ThreadObjects, Loaded, Traced
  <2> HIDE DEF object
  <2> QED
    BY <1>a, <2>1, <2>2, KeptInert
<1>8. CASE StacksVisited(t)
  <2> DEFINE object == [thread[t] EXCEPT !.at = "stopping"]
  <2>1. Becomes(t, object)
    BY <1>8 DEF StacksVisited
  <2>2. Keeps(t, object)
    BY <1>8, <1>a DEF StacksVisited, Keeps, Quiet, ThreadObjects
  <2> HIDE DEF object
  <2> QED
    BY <1>a, <2>1, <2>2, KeptInert
<1>9. CASE ReportStop(t)
  <2>0. PICK place \in {"marking", "visiting"}, visits \in SUBSET Threads : Holding(t, place, visits)
    BY <1>9 DEF ReportStop
  <2> DEFINE object == [thread[t] EXCEPT !.is_blocked = TRUE, !.block_starting_lock = t, !.why = Nothing,
                                 !.at = place, !.todo = visits]
  <2>1. Becomes(t, object)
    BY <2>0 DEF Holding
  <2>2. Keeps(t, object)
    BY <1>9, <1>a, <2>0 DEF ReportStop, CanStop, Keeps, Quiet, ThreadObjects
  <2> HIDE DEF object
  <2> QED
    BY <1>a, <2>1, <2>2, KeptInert
<1>10. CASE ReportBreak(t)
  <2>0. PICK place \in {"marking", "visiting"}, visits \in {{}, THREADS \ {t}} : Holding(t, place, visits)
    BY <1>10 DEF ReportBreak
  <2> DEFINE object == [thread[t] EXCEPT !.is_blocked = TRUE, !.block_starting_lock = t, !.why = Nothing,
                                 !.at = place, !.todo = visits]
  <2>1. Becomes(t, object)
    BY <2>0 DEF Holding
  <2>2. Keeps(t, object)
    BY <1>10, <1>a, <2>0 DEF ReportBreak, CanStop, Keeps, Quiet, ThreadObjects
  <2> HIDE DEF object
  <2> QED
    BY <1>a, <2>1, <2>2, KeptInert
<1>11. CASE Park(t)
  <2> DEFINE object == [thread[t] EXCEPT !.at = "waiting", !.block_starting_lock = Nothing]
  <2>1. Becomes(t, object)
    BY <1>11 DEF Park
  <2>2. Keeps(t, object)
    BY <1>11, <1>a DEF Park, Keeps, Quiet, ThreadObjects
  <2> HIDE DEF object
  <2> QED
    BY <1>a, <2>1, <2>2, KeptInert
<1>12. CASE Wait(t)
  <2> DEFINE object == [thread[t] EXCEPT !.at = IF DETACHED THEN "leaving" ELSE "acquiring"]
  <2>1. Becomes(t, object)
    BY <1>12 DEF Wait
  <2>2. Keeps(t, object)
    BY <1>12, <1>a DEF Wait, Keeps, Quiet, ThreadObjects
  <2> HIDE DEF object
  <2> QED
    BY <1>a, <2>1, <2>2, KeptInert
<1>13. CASE Leave(t)
  <2> DEFINE object == [thread[t] EXCEPT !.at = "running", !.is_blocked = FALSE]
  <2>1. Becomes(t, object)
    BY <1>13 DEF Leave
  <2>2. Keeps(t, object)
    BY <1>13, <1>a DEF Leave, Keeps, Quiet, ThreadObjects
  <2> HIDE DEF object
  <2> QED
    BY <1>a, <2>1, <2>2, KeptInert
<1>14. CASE MarkOthers(t)
  <2>1. \A u \in Threads \ {t} : Inert(u)
    BY <1>14, <1>a DEF MarkOthers, Mark, Inert, ThreadObjects
  <2>2. Inert(t)
    BY <1>14, <1>a DEF MarkOthers, Mark, Inert, Quiet, ThreadObjects
  <2> QED
    BY <2>1, <2>2
<1>15. ASSUME NEW u \in Threads, VisitStack(t, u) PROVE \A v \in Threads : Inert(v)
  <2> DEFINE object == [thread[t] EXCEPT !.todo = @ \ {u}]
  <2>1. Becomes(t, object)
    BY <1>15 DEF VisitStack
  <2>2. Keeps(t, object)
    BY <1>a DEF Keeps, ThreadObjects
  <2> HIDE DEF object
  <2> QED
    BY <1>a, <2>1, <2>2, KeptInert
<1> QED
  BY <1>1, <1>2, <1>3, <1>4, <1>5, <1>6, <1>7, <1>8, <1>9, <1>10, <1>11, <1>12, <1>13, <1>14, <1>15 DEF Executes, Proceeds

\* They do not touch the evaluations that are asked for.
LEMMA InertKeepsAsked ==
    ASSUME ThreadInvariant, NEW t \in Threads,
           \/ Executes(t)
           \/ Proceeds(t) /\ ~DoWork(t)
    PROVE  /\ adapter'.asked = adapter.asked
           /\ inbox' = inbox \/ (\E x \in Commands : ~Evaluates(x) /\ inbox' = Append(inbox, x))
<1>a. OthersOK
  BY Parts
<1>1. CASE ReportStop(t)
  <2>1. adapter'.asked = adapter.asked
    BY <1>1, <1>a DEF ReportStop, Shows, OthersOK
  <2>2. <<"resume", t>> \in Commands /\ ~Evaluates(<<"resume", t>>)
    BY DEF Commands, Evaluates
  <2> QED
    BY <1>1, <2>1, <2>2 DEF ReportStop
<1>2. CASE ReportBreak(t)
  BY <1>2, <1>a DEF ReportBreak, Shows, OthersOK
<1>3. CASE HitBreakpoint(t) \/ RaiseException(t) \/ ExitThread(t) \/ StartThread(t)
  BY <1>3, <1>a DEF HitBreakpoint, RaiseException, ExitThread, StartThread, OthersOK
<1>4. CASE RegisterThread(t) \/ CompleteStep(t) \/ TraceBreak(t) \/ StacksVisited(t)
           \/ MarkOthers(t) \/ Park(t) \/ Wait(t)
  BY <1>4 DEF RegisterThread, CompleteStep, TraceBreak, StacksVisited, MarkOthers, Park, Wait
<1>5. CASE Acquire(t) \/ WakeUp(t) \/ WorkDone(t) \/ Leave(t)
  BY <1>5 DEF Acquire, WakeUp, WorkDone, Leave
<1>6. ASSUME NEW u \in Threads, VisitStack(t, u)
      PROVE  UNCHANGED <<adapter, inbox>>
  BY <1>6 DEF VisitStack
<1> QED
  BY <1>1, <1>2, <1>3, <1>4, <1>5, <1>6 DEF Executes, Proceeds

\* The steps of a thread that take its lock or do its work.
LEMMA WakingCovers ==
    ASSUME ThreadInvariant, NEW t \in Threads, Covered(t),
           Acquire(t) \/ WakeUp(t) \/ DoWork(t) \/ WorkDone(t)
    PROVE  /\ Covered(t)' /\ SameWork(t)
           /\ \A u \in Threads \ {t} : thread'[u] = thread[u]
<1>a. thread \in [Threads -> ThreadObjects] /\ Agrees(t, thread[t])
  BY Parts
<1>b. thread[t].releases \in Int
  BY <1>a DEF ThreadObjects
<1>1. CASE Acquire(t)
  <2>1. thread' = [thread EXCEPT ![t] = [thread[t] EXCEPT !.at = "woken", !.block_lock = TRUE]]
    BY <1>1 DEF Acquire, Becomes
  <2>2. /\ thread'[t].at = "woken" /\ thread'[t].block_lock /\ thread[t].at = "acquiring"
        /\ ~thread[t].block_lock /\ thread'[t].releases = thread[t].releases
        /\ thread'[t].unblock_work = thread[t].unblock_work
    BY <1>1, <1>a, <2>1 DEF Acquire, ThreadObjects
  <2> QED
    BY <1>a, <1>b, <2>1, <2>2 DEF Covered, SameWork, Charged, Work, Wakes
<1>2. CASE WakeUp(t) /\ thread[t].unblock_work = Nothing
  <2> DEFINE less == thread[t].releases - 1
  <2>1. thread' = [thread EXCEPT ![t] = [thread[t] EXCEPT !.at = "leaving", !.releases = less]]
    BY <1>2, <1>a DEF WakeUp, Becomes
  <2>2. less \in Int /\ less = thread[t].releases - 1
    BY <1>b
  <2> HIDE DEF less
  <2>3. /\ thread'[t].at = "leaving" /\ thread'[t].releases = less /\ thread[t].at = "woken"
        /\ thread'[t].block_lock = thread[t].block_lock
        /\ thread'[t].unblock_work = thread[t].unblock_work
    BY <1>2, <1>a, <2>1 DEF WakeUp, ThreadObjects
  <2> QED
    BY <1>2, <1>a, <1>b, <2>1, <2>2, <2>3 DEF Covered, SameWork, Charged, Work, Wakes
<1>3. CASE WakeUp(t) /\ thread[t].unblock_work # Nothing
  <2>1. thread' = [thread EXCEPT ![t] = [thread[t] EXCEPT !.at = "working", !.is_working = TRUE]]
    BY <1>3 DEF WakeUp, Becomes
  <2>2. /\ thread'[t].at = "working" /\ thread[t].at = "woken"
        /\ thread'[t].releases = thread[t].releases
        /\ thread'[t].block_lock = thread[t].block_lock
        /\ thread'[t].unblock_work = thread[t].unblock_work
    BY <1>3, <1>a, <2>1 DEF WakeUp, ThreadObjects
  <2> QED
    BY <1>3, <1>a, <1>b, <2>1, <2>2 DEF Covered, SameWork, Charged, Work, Wakes
<1>4. CASE DoWork(t)
  <2>1. thread' = [thread EXCEPT ![t] = [thread[t] EXCEPT !.at = "worked"]]
    BY <1>4 DEF DoWork, Becomes
  <2>2. /\ thread'[t].at = "worked" /\ thread[t].at = "working"
        /\ thread'[t].releases = thread[t].releases
        /\ thread'[t].block_lock = thread[t].block_lock
        /\ thread'[t].unblock_work = thread[t].unblock_work
    BY <1>4, <1>a, <2>1 DEF DoWork, ThreadObjects
  <2> QED
    BY <1>a, <1>b, <2>1, <2>2 DEF Covered, SameWork, Charged, Work, Wakes
<1>5. CASE WorkDone(t)
  <2>1. thread' = [thread EXCEPT ![t] = [thread[t] EXCEPT !.at = "waiting", !.unblock_work = Nothing,
                                                          !.is_working = FALSE]]
    BY <1>5 DEF WorkDone, Becomes
  <2>2. /\ thread'[t].at = "waiting" /\ thread[t].at = "worked"
        /\ thread'[t].releases = thread[t].releases
        /\ thread'[t].block_lock = thread[t].block_lock
        /\ thread'[t].unblock_work = Nothing
    BY <1>5, <1>a, <2>1 DEF WorkDone, ThreadObjects
  <2> QED
    BY <1>a, <1>b, <2>1, <2>2 DEF Covered, SameWork, Charged, Work, Wakes
<1> QED
  BY <1>1, <1>2, <1>3, <1>4, <1>5

\* The result of an evaluation is sent.
LEMMA WorkAnswered ==
    ASSUME ThreadInvariant, OneEvaluation, NEW t \in Threads, DoWork(t)
    PROVE  OneEvaluation'
<1>a. thread \in [Threads -> ThreadObjects] /\ adapter.asked \subseteq Asked
      /\ adapter = [adapter EXCEPT !.asked = @]
  BY Parts DEF OthersOK
<1>1. /\ thread[t].at = "working" /\ thread'[t].at = "worked"
      /\ \A u \in Threads \ {t} : thread'[u] = thread[u]
      /\ inbox' = inbox
  BY <1>a DEF DoWork, Becomes, ThreadObjects
<1>2. adapter'.asked = adapter.asked \/ adapter'.asked = adapter.asked \ {thread[t].unblock_work}
  BY <1>a, Parts DEF DoWork, OthersOK
<1>3. ~Charged(t)'
  BY <1>1 DEF Charged
<1>4. CASE thread[t].unblock_work = Nothing
  <2>1. adapter'.asked = adapter.asked
    BY <1>2, <1>4, <1>a, NothingAssumption DEF Asked
  <2>2. \A u \in Threads : SameWork(u)
    BY <1>1, <1>3 DEF SameWork, Charged
  <2> QED
    BY <1>1, <2>1, <2>2, NothingAsked
<1>5. CASE thread[t].unblock_work # Nothing
  <2>1. Charged(t)
    BY <1>1, <1>5 DEF Charged
  <2>2. \A u \in Threads \ {t} : ~Charged(u)
    BY <2>1 DEF OneEvaluation
  <2>3. \A u \in Threads : ~Charged(u)'
    BY <1>1, <1>3, <2>2 DEF Charged
  <2>4. \A k \in 1 .. Len(inbox) : ~Evaluates(inbox[k])
    BY <2>1 DEF OneEvaluation
  <2>5. \A e, f \in adapter'.asked : e = f
    BY <1>2 DEF OneEvaluation
  <2> QED
    BY <1>1, <2>3, <2>4, <2>5 DEF OneEvaluation
<1> QED
  BY <1>4, <1>5

LEMMA ThreadsCover ==
    ASSUME ReleaseInvariant, NEW t \in Threads, Executes(t) \/ Proceeds(t)
    PROVE  OneEvaluation' /\ ResumesCover'
<1>a. ThreadInvariant /\ OneEvaluation /\ \A u \in Threads : Covered(u)
  BY DEF ReleaseInvariant, ResumesCover, Covered
<1>1. CASE ~Acquire(t) /\ ~WakeUp(t) /\ ~DoWork(t) /\ ~WorkDone(t)
  <2>1. \A u \in Threads : Inert(u)
    BY <1>1, <1>a, InertSteps
  <2>2. \A u \in Threads : Covered(u)' /\ SameWork(u)
    BY <1>a, <2>1, InertCovered
  <2>3. /\ adapter'.asked = adapter.asked
        /\ inbox' = inbox \/ (\E x \in Commands : ~Evaluates(x) /\ inbox' = Append(inbox, x))
    BY <1>1, <1>a, InertKeepsAsked
  <2>4. OneEvaluation'
    BY <1>a, <2>2, <2>3, NothingAsked
  <2> QED
    BY <2>2, <2>4 DEF ResumesCover, Covered
<1>2. CASE Acquire(t) \/ WakeUp(t) \/ DoWork(t) \/ WorkDone(t)
  <2>1. Covered(t)' /\ SameWork(t) /\ \A u \in Threads \ {t} : thread'[u] = thread[u]
    BY <1>2, <1>a, WakingCovers
  <2>2. \A u \in Threads \ {t} : Inert(u)
    BY <2>1 DEF Inert
  <2>3. \A u \in Threads : Covered(u)' /\ SameWork(u)
    BY <1>a, <2>1, <2>2, InertCovered
  <2>4. CASE DoWork(t)
    BY <1>a, <2>3, <2>4, WorkAnswered DEF ResumesCover, Covered
  <2>5. CASE Acquire(t) \/ WakeUp(t) \/ WorkDone(t)
    <3>1. adapter' = adapter /\ inbox' = inbox
      BY <2>5 DEF Acquire, WakeUp, WorkDone
    <3>2. OneEvaluation'
      BY <1>a, <2>3, <3>1, NothingAsked
    <3> QED
      BY <2>3, <3>2 DEF ResumesCover, Covered
  <2> QED
    BY <1>2, <2>4, <2>5
<1> QED
  BY <1>1, <1>2

\* A command that releases the lock of a thread counts as a resume.
LEMMA ReleaseCovers ==
    ASSUME thread \in [Threads -> ThreadObjects], NEW t \in Threads, NEW object,
           Becomes(t, object), Covered(t),
           thread[t].block_lock, ~object.block_lock,
           object.releases = thread[t].releases + 1,
           object.unblock_work = thread[t].unblock_work, object.at = thread[t].at
    PROVE  /\ Covered(t)' /\ SameWork(t)
           /\ \A u \in Threads \ {t} : Inert(u)
<1>1. thread'[t] = object /\ \A u \in Threads \ {t} : thread'[u] = thread[u]
  BY DEF Becomes
<1>2. thread[t].releases \in Int
  BY DEF ThreadObjects
<1>3. Covered(t)' /\ SameWork(t)
  BY <1>1, <1>2 DEF Covered, SameWork, Charged, Work, Wakes
<1>4. \A u \in Threads \ {t} : Inert(u)
  BY <1>1 DEF Inert
<1> QED
  BY <1>3, <1>4

\* What the loop does to one thread when it resumes it.
LEMMA ResumeCovers ==
    ASSUME ThreadInvariant, \A u \in Threads : Covered(u), NEW t \in Threads,
           ResumeNext(t) \/ DetachNext(t) \/ (ResumeThread /\ t = Subject /\ t \in THREADS)
    PROVE  \A u \in Threads : Covered(u)' /\ SameWork(u)
<1>a. thread \in [Threads -> ThreadObjects] /\ thread[t].releases \in Int
  BY Parts DEF ThreadObjects
<1> DEFINE more == thread[t].releases + 1
           bare == [thread[t] EXCEPT !.stepping = Unmarked(@)]
           told == [thread[t] EXCEPT !.detach = TRUE, !.stepping = "break"]
<1>b. more \in Int /\ more = thread[t].releases + 1
  BY <1>a
<1>c. /\ bare.at = thread[t].at /\ bare.block_lock = thread[t].block_lock
      /\ bare.releases = thread[t].releases /\ bare.unblock_work = thread[t].unblock_work
      /\ told.at = thread[t].at /\ told.block_lock = thread[t].block_lock
      /\ told.releases = thread[t].releases /\ told.unblock_work = thread[t].unblock_work
  BY <1>a DEF ThreadObjects
<1>d. /\ [bare EXCEPT !.block_lock = FALSE, !.releases = more].releases = more
      /\ [told EXCEPT !.block_lock = FALSE, !.releases = more].releases = more
      /\ [thread[t] EXCEPT !.block_lock = FALSE, !.releases = more].releases = more
      /\ [bare EXCEPT !.block_lock = FALSE, !.releases = more].block_lock = FALSE
      /\ [told EXCEPT !.block_lock = FALSE, !.releases = more].block_lock = FALSE
      /\ [thread[t] EXCEPT !.block_lock = FALSE, !.releases = more].block_lock = FALSE
  BY <1>a DEF ThreadObjects
<1>e. /\ [bare EXCEPT !.block_lock = FALSE, !.releases = more].at = thread[t].at
      /\ [told EXCEPT !.block_lock = FALSE, !.releases = more].at = thread[t].at
      /\ [thread[t] EXCEPT !.block_lock = FALSE, !.releases = more].at = thread[t].at
      /\ [bare EXCEPT !.block_lock = FALSE, !.releases = more].unblock_work = thread[t].unblock_work
      /\ [told EXCEPT !.block_lock = FALSE, !.releases = more].unblock_work = thread[t].unblock_work
      /\ [thread[t] EXCEPT !.block_lock = FALSE, !.releases = more].unblock_work = thread[t].unblock_work
  BY <1>a DEF ThreadObjects
<1>f. /\ [bare EXCEPT !.block_starting_lock = "loop"].at = thread[t].at
      /\ [bare EXCEPT !.block_starting_lock = "loop"].block_lock = thread[t].block_lock
      /\ [bare EXCEPT !.block_starting_lock = "loop"].releases = thread[t].releases
      /\ [bare EXCEPT !.block_starting_lock = "loop"].unblock_work = thread[t].unblock_work
  BY <1>a DEF ThreadObjects
<1>1. \/ Becomes(t, bare)
      \/ CanUnblock(t) /\ Becomes(t, [bare EXCEPT !.block_lock = FALSE, !.releases = more])
      \/ Becomes(t, [bare EXCEPT !.block_starting_lock = "loop"])
      \/ Becomes(t, told)
      \/ CanUnblock(t) /\ Becomes(t, [told EXCEPT !.block_lock = FALSE, !.releases = more])
      \/ CanUnblock(t) /\ Becomes(t, [thread[t] EXCEPT !.block_lock = FALSE, !.releases = more])
      \/ UNCHANGED thread
  <2>1. CASE ResumeNext(t)
    <3>1. bare.releases = thread[t].releases
      BY <1>c
    <3> QED
      BY <1>a, <2>1, <3>1 DEF ResumeNext, CanUnblock
  <2>2. CASE DetachNext(t)
    <3>1. told.releases = thread[t].releases
      BY <1>c
    <3> QED
      BY <1>a, <2>2, <3>1 DEF DetachNext, CanUnblock
  <2>3. CASE ResumeThread /\ t = Subject /\ t \in THREADS
    BY <1>a, <2>3 DEF ResumeThread, CanUnblock
  <2> QED
    BY <2>1, <2>2, <2>3
<1> HIDE DEF bare, told, more
<1>2. ASSUME NEW object, Becomes(t, object), object.at = thread[t].at,
             object.block_lock = thread[t].block_lock, object.releases = thread[t].releases,
             object.unblock_work = thread[t].unblock_work
      PROVE  \A u \in Threads : Covered(u)' /\ SameWork(u)
  <2>1. \A u \in Threads : Inert(u)
    BY <1>a, <1>2, KeptInert DEF Keeps
  <2> QED
    BY <2>1, InertCovered
<1>3. ASSUME NEW object, Becomes(t, object), CanUnblock(t), object.at = thread[t].at,
             object.block_lock = FALSE, object.releases = more,
             object.unblock_work = thread[t].unblock_work
      PROVE  \A u \in Threads : Covered(u)' /\ SameWork(u)
  <2>1. Covered(t)' /\ SameWork(t) /\ \A u \in Threads \ {t} : Inert(u)
    BY <1>a, <1>b, <1>3, ReleaseCovers DEF CanUnblock
  <2> QED
    BY <2>1, InertCovered
<1>4. CASE UNCHANGED thread
  BY <1>4 DEF Covered, SameWork, Charged, Work, Wakes
<1> QED
  BY <1>1, <1>2, <1>3, <1>4, <1>c, <1>d, <1>e, <1>f

\* An evaluation is handed to a thread, refused or dropped.
LEMMA EvaluateCovers ==
    ASSUME ThreadInvariant, OneEvaluation, \A u \in Threads : Covered(u), Evaluate
    PROVE  OneEvaluation' /\ \A u \in Threads : Covered(u)'
<1>0. PICK t, e : t = Subject[1] /\ e = Subject[2]
  OBVIOUS
<1>a. thread \in [Threads -> ThreadObjects] /\ inbox' = Tail(inbox) /\ THREADS \subseteq Threads
  BY Parts DEF Evaluate, Schedule, Reads0, Reads, OthersOK
<1>b. Reading /\ Op = "evaluate"
  BY DEF Evaluate
<1>c. e \in adapter.asked /\ e # Nothing
  BY <1>0, <1>b, EvaluationTaken, Parts, NothingAssumption DEF OthersOK, Asked
<1>d. \A u \in Threads : ~Charged(u)
  BY <1>b, EvaluationTaken
<1>e. \A k \in 1 .. Len(inbox') : ~Evaluates(inbox'[k])
  BY <1>a, <1>b, EvaluationTaken
<1>f. \A x, y \in adapter.asked : x = y
  BY DEF OneEvaluation
<1>1. CASE UNCHANGED thread /\ (UNCHANGED adapter \/ Refuses(e))
  <2>1. \A u \in Threads : Covered(u)' /\ ~Charged(u)'
    BY <1>1, <1>d DEF Covered, Charged, Work, Wakes
  <2>2. adapter'.asked \subseteq adapter.asked
    BY <1>1, Parts DEF Refuses, OthersOK
  <2> QED
    BY <1>e, <1>f, <2>1, <2>2 DEF OneEvaluation
<1>2. CASE t \in THREADS /\ TakesWork(t) /\ Schedule(t, e) /\ UNCHANGED adapter
  <2>1. t \in Threads /\ thread[t] \in ThreadObjects /\ Agrees(t, thread[t])
    BY <1>2, <1>a, Parts
  <2>2. thread[t].at \notin {"working", "worked"} /\ thread[t].unblock_work = Nothing
    BY <1>2, <1>d, <2>1 DEF TakesWork, Agrees, Charged
  <2>3. /\ thread'[t].at = thread[t].at /\ thread'[t].releases = thread[t].releases
        /\ thread'[t].unblock_work = e /\ thread[t].releases \in Int
        /\ \A u \in Threads \ {t} : thread'[u] = thread[u]
    BY <1>2, <1>a, <2>1 DEF Schedule, Becomes, ThreadObjects
  <2>4. Covered(t)'
    BY <1>c, <2>1, <2>2, <2>3 DEF Covered, Work, Wakes
  <2>5. \A u \in Threads \ {t} : Covered(u)' /\ ~Charged(u)'
    BY <1>d, <2>3 DEF Covered, Work, Wakes, Charged
  <2>6. \A u \in Threads : Covered(u)'
    BY <2>4, <2>5
  <2>7. \A u \in Threads : Charged(u)' => u = t /\ thread'[u].unblock_work \in adapter'.asked
    BY <1>2, <1>c, <2>3, <2>5
  <2>8. \A x, y \in adapter'.asked : x = y
    BY <1>2, <1>f
  <2>9. OneEvaluation'
    BY <1>e, <2>7, <2>8 DEF OneEvaluation
  <2> QED
    BY <2>6, <2>9
<1>3. \/ UNCHANGED thread /\ (UNCHANGED adapter \/ Refuses(e))
      \/ t \in THREADS /\ TakesWork(t) /\ Schedule(t, e) /\ UNCHANGED adapter
  BY <1>0 DEF Evaluate
<1> QED
  BY <1>1, <1>2, <1>3

LEMMA LoopsCover ==
    ASSUME ReleaseInvariant, Loops
    PROVE  OneEvaluation' /\ ResumesCover'
<1>a. ThreadInvariant /\ OneEvaluation /\ \A u \in Threads : Covered(u)
  BY DEF ReleaseInvariant, ResumesCover, Covered
<1>b. thread \in [Threads -> ThreadObjects] /\ THREADS \subseteq Threads
  BY <1>a, Parts DEF OthersOK
<1>c. SUFFICES ASSUME ~Evaluate PROVE OneEvaluation' /\ \A u \in Threads : Covered(u)'
  BY <1>a, EvaluateCovers DEF ResumesCover, Covered
<1>1. adapter' = adapter /\ (inbox' = inbox \/ (Reading /\ inbox' = Tail(inbox)))
  BY <1>c DEF Loops, BreakAll, StartResume, Resumed, ResumeThread, StartDetach, ForgetThreads,
              DetachProcess, ResumeNext, DetachNext, Reads0, Reads
<1>2. CASE \A u \in Threads : Covered(u)' /\ SameWork(u)
  BY <1>a, <1>1, <1>2, NothingAsked
<1>3. CASE BreakAll
  <2>1. \A u \in Threads : Inert(u)
    BY <1>3, <1>b DEF BreakAll, Mark, Inert, ThreadObjects
  <2> QED
    BY <1>a, <1>2, <2>1, InertCovered
<1>4. CASE UNCHANGED thread
  <2>1. \A u \in Threads : Inert(u)
    BY <1>4 DEF Inert
  <2> QED
    BY <1>a, <1>2, <2>1, InertCovered
<1>5. CASE StartResume /\ ~UNCHANGED thread
  <2> DEFINE object == [thread[Subject] EXCEPT !.stepping = "step"]
  <2>1. Subject \in Threads /\ Becomes(Subject, object)
    BY <1>5, <1>b DEF StartResume
  <2>2. Keeps(Subject, object)
    BY <1>b, <2>1 DEF Keeps, ThreadObjects
  <2> HIDE DEF object
  <2>3. \A u \in Threads : Inert(u)
    BY <1>b, <2>1, <2>2, KeptInert
  <2> QED
    BY <1>a, <1>2, <2>3, InertCovered
<1>6. CASE ResumeThread /\ ~UNCHANGED thread
  <2>1. Subject \in THREADS /\ Subject \in Threads
    BY <1>6, <1>b DEF ResumeThread
  <2> QED
    BY <1>a, <1>2, <1>6, <2>1, ResumeCovers
<1>7. ASSUME NEW t \in Threads, ResumeNext(t) \/ DetachNext(t)
      PROVE  \A u \in Threads : Covered(u)' /\ SameWork(u)
  BY <1>a, <1>7, ResumeCovers
<1>8. CASE Resumed \/ StartDetach \/ ForgetThreads \/ DetachProcess
  BY <1>4, <1>8 DEF Resumed, StartDetach, ForgetThreads, DetachProcess
<1> QED
  BY <1>c, <1>2, <1>3, <1>4, <1>5, <1>6, <1>7, <1>8 DEF Loops

LEMMA AsksCover ==
    ASSUME Enumerations = {}, ReleaseInvariant, Asks
    PROVE  OneEvaluation' /\ ResumesCover'
<1>a. ThreadInvariant /\ OneEvaluation /\ \A u \in Threads : Covered(u)
  BY DEF ReleaseInvariant, ResumesCover, Covered
<1>b. OthersOK
  BY <1>a, Parts
<1>1. UNCHANGED thread
  BY DEF Asks, Pause, Continue, Disconnect, Step, AskFor, Sends
<1>2. \A u \in Threads : Inert(u)
  BY <1>1 DEF Inert
<1>3. \A u \in Threads : Covered(u)' /\ SameWork(u)
  BY <1>a, <1>2, InertCovered
<1>4. CASE Pause \/ Continue \/ Disconnect \/ \E t \in Threads : Step(t)
  <2>1. adapter'.asked = adapter.asked
    BY <1>4, <1>b DEF Pause, Continue, Disconnect, Step, OthersOK
  <2>2. \E op \in {"break", "continue", "detach", "step"}, subject \in Threads \union {Nothing} :
           inbox' = Append(inbox, <<op, subject>>)
    BY <1>4 DEF Pause, Continue, Disconnect, Step, Sends
  <2>3. PICK op \in {"break", "continue", "detach", "step"}, subject \in Threads \union {Nothing} :
           inbox' = Append(inbox, <<op, subject>>)
    BY <2>2
  <2>4. <<op, subject>> \in Commands /\ ~Evaluates(<<op, subject>>)
    BY DEF Commands, Evaluates
  <2> QED
    BY <1>a, <1>3, <2>1, <2>3, <2>4, NothingAsked DEF ResumesCover, Covered
<1>5. ASSUME NEW t \in Threads, NEW e \in Asked, AskFor(t, e) PROVE OneEvaluation'
  <2>1. adapter.asked = {} /\ adapter'.asked = {e}
    BY <1>5, <1>b DEF AskFor, Asked, OthersOK
  <2>2. \A u \in Threads : ~Charged(u)'
    BY <1>a, <1>1, <2>1 DEF OneEvaluation, Charged
  <2>3. \A k \in 1 .. Len(inbox) : ~Evaluates(inbox[k])
    BY <1>a, <2>1 DEF OneEvaluation
  <2> DEFINE x == <<"evaluate", <<t, e>>>>
  <2>4. x \in Commands /\ x[2][2] = e
    BY DEF Commands
  <2>5. inbox' = Append(inbox, x) /\ inbox \in Seq(Commands)
    BY <1>5, <1>b DEF AskFor, OthersOK
  <2> HIDE DEF x
  <2>6. /\ Len(inbox) \in Nat /\ Len(inbox') = Len(inbox) + 1
        /\ \A k \in 1 .. Len(inbox) : inbox'[k] = inbox[k]
        /\ inbox'[Len(inbox) + 1] = x
    BY <2>4, <2>5, InboxAppend
  <2>7. \A k \in 1 .. Len(inbox') : Evaluates(inbox'[k]) => k = Len(inbox) + 1 /\ inbox'[k] = x
    BY <2>3, <2>6 DEF Evaluates
  <2>8. \A k \in 1 .. Len(inbox') : Evaluates(inbox'[k]) => inbox'[k][2][2] \in adapter'.asked
    BY <2>1, <2>4, <2>7
  <2> QED
    BY <2>1, <2>2, <2>7, <2>8 DEF OneEvaluation
<1> QED
  BY <1>3, <1>4, <1>5 DEF Asks, ResumesCover, Covered

LEMMA InitCovers == Init => OneEvaluation /\ ResumesCover
<1> SUFFICES ASSUME Init PROVE OneEvaluation /\ ResumesCover
  OBVIOUS
<1>1. \A t \in Threads : /\ thread[t].unblock_work = Nothing /\ thread[t].block_lock
                         /\ thread[t].releases = 0 /\ thread[t].at # "woken"
  BY DEF Init, NewThread
<1>2. inbox = <<>> /\ adapter.asked = {}
  BY DEF Init
<1>3. \A i \in 1 .. Len(inbox) : FALSE
  BY <1>2
<1>4. \A t \in Threads : ~Charged(t)
  BY <1>1 DEF Charged
<1>5. OneEvaluation
  BY <1>2, <1>3, <1>4 DEF OneEvaluation
<1>6. ResumesCover
  BY <1>1 DEF ResumesCover, Work, Wakes
<1> QED
  BY <1>5, <1>6

\* When the adapter asks for one evaluation at a time, a stopped thread leaves no more often than
\* it is resumed, for any number of threads, stops and commands.
THEOREM ResumesCoverLeaves ==
    ASSUME Enumerations = {}
    PROVE  Spec => []BlocksAgain
<1>1. Init => ReleaseInvariant
  BY InitOK, InitCovers DEF ReleaseInvariant
<1>2. ReleaseInvariant /\ [Next]_vars => ReleaseInvariant'
  <2> SUFFICES ASSUME ReleaseInvariant, [Next]_vars PROVE ReleaseInvariant'
    OBVIOUS
  <2>1. ThreadInvariant'
    BY NextKeeps DEF ReleaseInvariant
  <2>2. CASE UNCHANGED vars
    BY <2>1, <2>2 DEF vars, ReleaseInvariant, OneEvaluation, ResumesCover, Charged, Work, Wakes
  <2>3. CASE Next
    <3>1. OneEvaluation' /\ ResumesCover'
      BY <2>3, ThreadsCover, LoopsCover, AsksCover DEF Next
    <3> QED
      BY <2>1, <3>1 DEF ReleaseInvariant
  <2> QED
    BY <2>2, <2>3
<1>3. ReleaseInvariant => BlocksAgain
  BY DEF ReleaseInvariant, ResumesCover, BlocksAgain
<1> QED
  BY <1>1, <1>2, <1>3, PTL DEF Spec

=============================================================================
