------------------------ MODULE DebuggerTracingProofs ------------------------
(***************************************************************************)
(* Proofs about DebuggerTracing, for any files, breakpoints and depth: the *)
(* stepping state counts how much deeper than its goal the thread is, and  *)
(* the entries of a breakpoint that is set match its line.                 *)
(***************************************************************************)
EXTENDS DebuggerTracing, SequenceTheorems, FiniteSetTheorems, TLAPS

Frames == [file : Files \union {Library}, line : Lines \union {0}, module : BOOLEAN]

\* An entry of b that a line may hold though b was not set when the line was reached: b is left
\* behind, or command_set_breakpoint is between the entries and the pending ones, or past it.
Lingers(b) ==
    \/ status[b] = "left"
    \/ status[b] = "unset" /\ loop = [at |-> "pending", id |-> b]
    \/ status[b] = "set" /\ b \in PENDING_BREAKPOINTS

\* The entry that matches on the line of b.
Entry(b) == IF b \in is_bound THEN Bound(b) ELSE <<b, "asked">>

\* The entries and the pending breakpoints are those that the commands have set or left.
BreakpointsInv ==
    /\ loop.at # "reading" => loop.id \in Breakpoints /\ status[loop.id] = "unset"
    /\ loop.at = "pending" => <<loop.id, "asked">> \in BREAKPOINTS
    /\ \A b \in is_bound : status[b] # "unset"
    /\ \A e \in BREAKPOINTS : status[e[1]] # "removed" /\ (status[e[1]] = "unset" => Lingers(e[1]))
    /\ \A b \in PENDING_BREAKPOINTS : status[b] \in {"set", "left"}
    /\ \A b \in Breakpoints : status[b] = "set" => Entry(b) \in BREAKPOINTS

\* What the thread knows at each stage of a call to its trace function.
StagesInv ==
    /\ thread.at \in {"loading", "binding", "called", "entering", "matching"} => stack # <<>>
    /\ thread.at = "binding" => thread.seen \subseteq PENDING_BREAKPOINTS
    /\ thread.at = "entering" =>
          Debugged(Top) /\ (thread.was >= STEPPING_INTO \/ thread.was <= STEPPING_OUT)
    /\ thread.at = "leaving" => thread.was > STEPPING_OVER \/ thread.was < STEPPING_OUT
    /\ thread.at \in {"entering", "leaving"} => thread.stepping \in {thread.was, STEPPING_BREAK}

\* The entries that handle_line goes through.
LineInv ==
    thread.at = "matching" =>
        /\ Debugged(Top) /\ Top.line \in Lines
        /\ \A e \in thread.seen : /\ e \in Breakpoints \X {"asked", "loaded"}
                                  /\ LineOf(e[1]) = Top.line
                                  /\ Within(e[1], Top.file) => e[1] \in thread.due \/ Lingers(e[1])
        /\ \A b \in thread.due : /\ Place[b] = <<Top.file, Top.line>>
                                 /\ status[b] # "unset"
                                 /\ status[b] = "set" => Entry(b) \in thread.seen

\* A hit is of a breakpoint that was set, or that lingers.
HitInv ==
    thread.at = "stopped" /\ thread.why \in Breakpoints =>
        /\ stack # <<>>
        /\ Place[thread.why] = <<Top.file, Top.line>>
        /\ thread.why \in thread.due \/ Lingers(thread.why)

\* The count of the step, as the stage that counts has read it.
Count == IF thread.at \in {"entering", "leaving"} THEN thread.was ELSE thread.stepping

Counts(n) == n >= STEPPING_INTO \/ n <= STEPPING_OUT

\* The depth that it counts: a frame is counted at the end of its call and of its return.
Counted == UserDepth(stack) + IF thread.at = "leaving" THEN 1
                              ELSE IF /\ thread.at \in {"loading", "binding", "called", "entering"}
                                      /\ Debugged(Top)
                                   THEN -1 ELSE 0

\* A count n at a depth, for a step of the goal g.
Measures(n, depth, g) ==
    \/ g.kind = "into" /\ n = STEPPING_INTO /\ depth = g.depth
    \/ g.kind = "into" /\ n >= STEPPING_OVER /\ n - STEPPING_OVER = depth - (g.depth + 1)
    \/ g.kind = "over" /\ n >= STEPPING_OVER /\ n - STEPPING_OVER = depth - g.depth
    \/ g.kind = "out" /\ n <= STEPPING_OUT /\ STEPPING_OUT - n = depth - g.depth

\* The stepping state counts how much deeper than its goal the thread is.
CountInv ==
    thread.at # "untraced" /\ Counts(Count) => Measures(Count, Counted, goal)

\* A step that nothing disturbs is counted all the time, and knows the line it began on.
GoalInv ==
    thread.at # "untraced" /\ ~disturbed /\ goal.kind # "none" =>
        /\ Counts(Count) /\ thread.stepping = Count
        /\ goal.kind = "into" =>
              thread.stopped_on_line = IF Count = STEPPING_INTO THEN goal.line ELSE 0
        /\ goal.kind = "over" => thread.stopped_on_line \in {goal.line, 0}
        /\ thread.at = "matching" /\ ~thread.complete => ~StepComplete(Top.line)

IInv == TypeOK /\ BreakpointsInv /\ StagesInv /\ LineInv /\ HitInv /\ CountInv /\ GoalInv

-----------------------------------------------------------------------------
(* The depth of a stack. *)

UserFrames(frames) == {i \in DOMAIN frames : Debugged(frames[i])}

LEMMA UserFramesFinite ==
    ASSUME NEW frames \in Seq(Frames)
    PROVE  /\ IsFiniteSet(UserFrames(frames))
           /\ UserFrames(frames) \subseteq 1 .. Len(frames)
           /\ UserDepth(frames) = Cardinality(UserFrames(frames))
           /\ UserDepth(frames) \in 0 .. Len(frames)
<1>1. Len(frames) \in Nat /\ DOMAIN frames = 1 .. Len(frames)
  BY LenProperties
<1>2. IsFiniteSet(1 .. Len(frames)) /\ Cardinality(1 .. Len(frames)) = Len(frames)
  BY <1>1, FS_Interval
<1>3. UserFrames(frames) \in SUBSET (1 .. Len(frames))
  BY <1>1 DEF UserFrames
<1>4. /\ IsFiniteSet(UserFrames(frames))
      /\ Cardinality(UserFrames(frames)) <= Cardinality(1 .. Len(frames))
  BY <1>2, <1>3, FS_Subset
<1>5. Cardinality(UserFrames(frames)) \in Nat
  BY <1>4, FS_CardinalityType
<1>6. UserDepth(frames) = Cardinality(UserFrames(frames))
  BY DEF UserDepth, UserFrames
<1> QED
  BY <1>1, <1>2, <1>3, <1>4, <1>5, <1>6

LEMMA DepthOfCall ==
    ASSUME NEW frames \in Seq(Frames), NEW frame \in Frames
    PROVE  /\ Append(frames, frame) \in Seq(Frames)
           /\ Append(frames, frame) # <<>>
           /\ Len(Append(frames, frame)) = Len(frames) + 1
           /\ Last(Append(frames, frame)) = frame
           /\ UserDepth(Append(frames, frame)) =
                 UserDepth(frames) + IF Debugged(frame) THEN 1 ELSE 0
<1> DEFINE longer == Append(frames, frame)
           n == Len(frames) + 1
<1>1. Len(frames) \in Nat /\ DOMAIN frames = 1 .. Len(frames)
  BY LenProperties
<1>2. /\ longer \in Seq(Frames) /\ Len(longer) = n
      /\ \A i \in 1 .. Len(frames) : longer[i] = frames[i]
      /\ longer[n] = frame
  BY <1>1, AppendProperties
<1>3. DOMAIN longer = 1 .. n
  BY <1>2, LenProperties
<1> HIDE DEF longer
<1>4. UserFrames(longer) = IF Debugged(frame) THEN UserFrames(frames) \union {n}
                                              ELSE UserFrames(frames)
  BY <1>1, <1>2, <1>3 DEF UserFrames
<1>5. n \notin UserFrames(frames)
  BY <1>1, UserFramesFinite
<1>6. Cardinality(UserFrames(frames) \union {n}) = Cardinality(UserFrames(frames)) + 1
  BY <1>5, UserFramesFinite, FS_AddElement
<1>7. UserDepth(longer) = UserDepth(frames) + IF Debugged(frame) THEN 1 ELSE 0
  <2>1. UserDepth(longer) = Cardinality(UserFrames(longer))
    BY <1>2, UserFramesFinite
  <2>2. UserDepth(frames) = Cardinality(UserFrames(frames)) /\ UserDepth(frames) \in Nat
    BY <1>1, UserFramesFinite
  <2> QED
    BY <1>4, <1>6, <2>1, <2>2
<1>8. Last(longer) = frame /\ longer # <<>>
  <2>1. Len(longer) # 0
    BY <1>1, <1>2
  <2> QED
    BY <1>2, <2>1, EmptySeq DEF Last
<1> QED
  BY <1>2, <1>7, <1>8 DEF longer

LEMMA DepthOfReturn ==
    ASSUME NEW frames \in Seq(Frames), frames # <<>>
    PROVE  /\ Front(frames) \in Seq(Frames)
           /\ Len(frames) \in Nat /\ Len(frames) >= 1
           /\ Len(Front(frames)) = Len(frames) - 1
           /\ Last(frames) \in Frames
           /\ Len(frames) > 1 => /\ frames[Len(frames) - 1] \in Frames
                                 /\ Last(Front(frames)) = frames[Len(frames) - 1]
           /\ UserDepth(Front(frames)) =
                 UserDepth(frames) - IF Debugged(Last(frames)) THEN 1 ELSE 0
<1>1. Len(frames) \in Nat /\ Len(frames) >= 1
  BY LenProperties, EmptySeq
<1>2. \A i \in 1 .. Len(frames) : frames[i] \in Frames
  BY ElementOfSeq
<1>3. /\ Front(frames) \in Seq(Frames)
      /\ Len(Front(frames)) = Len(frames) - 1
      /\ \A i \in 1 .. Len(frames) - 1 : Front(frames)[i] = frames[i]
  <2> DEFINE m == Len(frames) - 1
             shorter == SubSeq(frames, 1, m)
  <2>1. m \in Nat /\ m <= Len(frames) /\ \A i \in 1 .. m : frames[i] \in Frames
    BY <1>1, <1>2
  <2> HIDE DEF m
  <2>2. /\ shorter \in Seq(Frames)
        /\ Len(shorter) = IF 1 <= m THEN m - 1 + 1 ELSE 0
        /\ \A i \in 1 .. m - 1 + 1 : shorter[i] = frames[1 + i - 1]
    BY <2>1, SubSeqProperties
  <2> HIDE DEF shorter
  <2>3. Len(shorter) = m /\ \A i \in 1 .. m : shorter[i] = frames[i]
    BY <2>1, <2>2
  <2> QED
    BY <2>2, <2>3 DEF Front, m, shorter
<1>4. Last(frames) \in Frames
  BY <1>1, <1>2 DEF Last
<1>5. frames = Append(Front(frames), Last(frames))
  BY <1>1, <1>3, <1>4, AppendProperties, SeqEqual DEF Last
<1>6. UserDepth(frames) = UserDepth(Front(frames)) + IF Debugged(Last(frames)) THEN 1 ELSE 0
  BY <1>3, <1>4, <1>5, DepthOfCall
<1>7. Len(frames) > 1 => /\ frames[Len(frames) - 1] \in Frames
                         /\ Last(Front(frames)) = frames[Len(frames) - 1]
  BY <1>1, <1>2, <1>3 DEF Last
<1> QED
  BY <1>1, <1>3, <1>4, <1>6, <1>7, UserFramesFinite

LEMMA DepthOfLine ==
    ASSUME NEW frames \in Seq(Frames), frames # <<>>, NEW line \in Lines \union {0}
    PROVE  LET moved == [frames EXCEPT ![Len(frames)].line = line]
           IN  /\ moved \in Seq(Frames) /\ moved # <<>> /\ Len(moved) = Len(frames)
               /\ Last(moved) = [Last(frames) EXCEPT !.line = line]
               /\ UserDepth(moved) = UserDepth(frames)
<1> DEFINE frame == [Last(frames) EXCEPT !.line = line]
           moved == [frames EXCEPT ![Len(frames)].line = line]
<1>1. Len(frames) \in Nat /\ Len(frames) >= 1 /\ Last(frames) \in Frames
  BY DepthOfReturn
<1>2. frame \in Frames /\ frame.file = Last(frames).file
  BY <1>1 DEF Frames
<1>3. moved = [frames EXCEPT ![Len(frames)] = frame]
  BY DEF Last
<1> HIDE DEF frame, moved
<1>4. /\ moved \in Seq(Frames) /\ Len(moved) = Len(frames)
      /\ \A i \in 1 .. Len(frames) : moved[i] = IF i = Len(frames) THEN frame ELSE frames[i]
  BY <1>1, <1>2, <1>3, ExceptSeq
<1>5. DOMAIN moved = 1 .. Len(frames) /\ DOMAIN frames = 1 .. Len(frames)
  BY <1>4, LenProperties
<1>6. \A i \in 1 .. Len(frames) : moved[i].file = frames[i].file
  BY <1>2, <1>4 DEF Last
<1>7. UserFrames(moved) = UserFrames(frames)
  BY <1>5, <1>6 DEF UserFrames, Debugged
<1>8. UserDepth(moved) = UserDepth(frames)
  BY <1>4, <1>7, UserFramesFinite
<1>9. Last(moved) = frame /\ moved # <<>>
  BY <1>1, <1>4, EmptySeq DEF Last
<1> QED
  BY <1>4, <1>8, <1>9 DEF frame, moved

-----------------------------------------------------------------------------
(* Types. *)

LEMMA DepthType ==
    ASSUME TypeOK
    PROVE  UserDepth(stack) \in 0 .. MaxDepth /\ MaxDepth \in Nat /\ Len(stack) \in Nat
<1>1. stack \in Seq(Frames) /\ Len(stack) <= MaxDepth
  BY DEF TypeOK, Frames
<1> QED
  BY <1>1, LenProperties, UserFramesFinite, DepthAssumption

\* The types of the variables other than thread, stack and goal.
OthersOK ==
    /\ MODULES \subseteq Files
    /\ BREAKPOINTS \subseteq Breakpoints \X {"asked", "loaded"}
    /\ PENDING_BREAKPOINTS \subseteq Breakpoints
    /\ is_bound \subseteq Breakpoints
    /\ loop \in [at : {"reading", "binding", "adding", "pending"}, id : Breakpoints \union {"none"}]
    /\ status \in [Breakpoints -> {"unset", "set", "left", "removed"}]
    /\ disturbed \in BOOLEAN

Stages == {"running", "called", "loading", "binding", "entering", "leaving", "matching", "stopped",
           "untraced"}
Seen == SUBSET (Breakpoints \union (Breakpoints \X {"asked", "loaded"}))
Objects == [at : Stages, stepping : Stepping, was : Stepping, stopped_on_line : Nat,
            why : Reasons, complete : BOOLEAN, seen : Seen, due : SUBSET Breakpoints]
Goals == [kind : {"none", "into", "over", "out"}, depth : 0 .. MaxDepth, line : Nat]

LEMMA Types ==
    /\ TypeOK <=> /\ thread \in Objects /\ goal \in Goals /\ OthersOK
                  /\ stack \in Seq(Frames) /\ Len(stack) <= MaxDepth
    /\ TypeOK' <=> /\ thread' \in Objects /\ goal' \in Goals /\ OthersOK'
                   /\ stack' \in Seq(Frames) /\ Len(stack') <= MaxDepth
  BY DEF TypeOK, OthersOK, Objects, Goals, Frames, Stages, Seen

LEMMA Values ==
    /\ STEPPING_NONE \in Stepping /\ STEPPING_BREAK \in Stepping
    /\ STEPPING_LAUNCH_BREAK \in Stepping /\ STEPPING_INTO \in Stepping
    /\ STEPPING_OVER \in Stepping /\ STEPPING_OUT \in Stepping
    /\ Stepping \subseteq Int /\ MaxDepth \in Nat \ {0}
    /\ Lines \subseteq Nat \ {0} /\ Breakpoints \subseteq Reasons
    /\ "none" \in Reasons /\ "step" \in Reasons /\ "loaded" \in Reasons /\ "break" \in Reasons
    /\ "none" \notin Breakpoints /\ "step" \notin Breakpoints
    /\ "loaded" \notin Breakpoints /\ "break" \notin Breakpoints
    /\ NoGoal \in Goals /\ NoGoal.kind = "none"
  BY DepthAssumption, LinesAssumption, ReasonsAssumption
     DEF Stepping, Reasons, Goals, NoGoal, STEPPING_NONE, STEPPING_BREAK, STEPPING_LAUNCH_BREAK,
         STEPPING_INTO, STEPPING_OVER, STEPPING_OUT

LEMMA InitOK == Init => IInv
<1> SUFFICES ASSUME Init PROVE IInv
  OBVIOUS
<1>2. stack \in Seq(Frames) /\ Len(stack) = 1 /\ stack # <<>>
  <2> DEFINE frame == Frame(Main, 0, TRUE)
  <2>1. stack = <<frame>>
    BY DEF Init
  <2>2. frame \in Frames
    BY FilesAssumption DEF Frame, Frames
  <2> HIDE DEF frame
  <2> QED
    BY <2>1, <2>2
<1>3. TypeOK
  <2>1. thread \in Objects
    BY Values DEF Init, Objects, Stages, Seen
  <2>2. OthersOK
    BY FilesAssumption DEF Init, OthersOK
  <2>3. Len(stack) <= MaxDepth
    BY <1>2, DepthAssumption
  <2> QED
    BY <1>2, <2>1, <2>2, <2>3, Values, Types DEF Init
<1>4. BreakpointsInv
  BY DEF Init, BreakpointsInv
<1>5. StagesInv /\ LineInv /\ HitInv
  BY <1>2 DEF Init, StagesInv, LineInv, HitInv
<1>6. CountInv
  BY DEF Init, CountInv, Count, Counts, STEPPING_LAUNCH_BREAK, STEPPING_INTO, STEPPING_OUT
<1>7. GoalInv
  BY DEF Init, GoalInv, NoGoal
<1> QED
  BY <1>3, <1>4, <1>5, <1>6, <1>7 DEF IInv

LEMMA LineType == \A frame \in Frames : frame.line \in Nat
<1> SUFFICES ASSUME NEW frame \in Frames PROVE frame.line \in Nat
  OBVIOUS
<1>1. frame.line \in Lines \union {0}
  BY DEF Frames
<1>2. \A line \in Lines \union {0} : line \in Nat
  BY LinesAssumption
<1> QED
  BY <1>1, <1>2

LEMMA TopType ==
    ASSUME TypeOK, stack # <<>>
    PROVE  /\ Top \in Frames /\ Top.line \in Nat /\ Len(stack) \in Nat /\ Len(stack) >= 1
           /\ Len(stack) > 1 => stack[Len(stack) - 1] \in Frames
<1>1. stack \in Seq(Frames)
  BY Types
<1>2. /\ Last(stack) \in Frames /\ Len(stack) \in Nat /\ Len(stack) >= 1
      /\ Len(stack) > 1 => stack[Len(stack) - 1] \in Frames
  BY <1>1, DepthOfReturn
<1> QED
  BY <1>2, LineType DEF Top

\* The counters stay within the depth of the stack.
LEMMA CountersType ==
    ASSUME IInv
    PROVE  /\ thread.at = "entering" /\ thread.was # STEPPING_INTO =>
                 thread.stepping + (IF thread.was >= STEPPING_OVER THEN 1 ELSE -1) \in Stepping
           /\ thread.at = "leaving" =>
                 thread.stepping + (IF thread.was > STEPPING_OVER THEN -1 ELSE 1) \in Stepping
<1>1. /\ thread.stepping \in Stepping /\ thread.was \in Stepping
      /\ UserDepth(stack) \in 0 .. MaxDepth /\ MaxDepth \in Nat \ {0}
      /\ goal.depth \in 0 .. MaxDepth
  BY DepthType, Values, Types DEF IInv, Objects, Goals
<1>2. ASSUME thread.at = "entering", thread.was # STEPPING_INTO
      PROVE  thread.stepping + (IF thread.was >= STEPPING_OVER THEN 1 ELSE -1) \in Stepping
  <2>1. /\ Count = thread.was /\ Counts(Count)
        /\ thread.stepping \in {thread.was, STEPPING_BREAK}
        /\ Counted = UserDepth(stack) - 1
    BY <1>1, <1>2 DEF IInv, StagesInv, Count, Counts, Counted
  <2>2. \/ thread.was >= STEPPING_OVER /\ thread.was - STEPPING_OVER <= UserDepth(stack) - 1
        \/ thread.was <= STEPPING_OUT /\ STEPPING_OUT - thread.was <= UserDepth(stack) - 1
    BY <1>1, <1>2, <2>1
    DEF IInv, CountInv, Measures, STEPPING_OUT, STEPPING_OVER, STEPPING_INTO, Stepping
  <2> QED
    BY <1>1, <2>1, <2>2 DEF Stepping, STEPPING_OUT, STEPPING_OVER, STEPPING_BREAK
<1>3. ASSUME thread.at = "leaving"
      PROVE  thread.stepping + (IF thread.was > STEPPING_OVER THEN -1 ELSE 1) \in Stepping
  <2>1. /\ thread.was > STEPPING_OVER \/ thread.was < STEPPING_OUT
        /\ thread.stepping \in {thread.was, STEPPING_BREAK}
    BY <1>3 DEF IInv, StagesInv
  <2> QED
    BY <1>1, <2>1 DEF Stepping, STEPPING_OUT, STEPPING_OVER, STEPPING_BREAK
<1> QED
  BY <1>2, <1>3

\* A line is a hit, the end of a step, or is passed when no breakpoint without a condition matches.
LEMMA LineCases ==
    ASSUME HandleLine
    PROVE  \/ \E e \in thread.seen : Matches(e) /\ StopAtBreakpoint(e[1])
           \/ thread.complete /\ StopAfterStep
           \/ /\ ~thread.complete
              /\ thread' = [thread EXCEPT !.at = "running", !.seen = {}, !.due = {}]
              /\ UNCHANGED <<goal, disturbed>>
              /\ \A e \in thread.seen : Matches(e) => e[1] \in Conditional
<1>1. PICK true \in SUBSET Conditional :
        LET hits == {e[1] : e \in {x \in thread.seen : Matches(x)}} \ (Conditional \ true)
        IN  \/ hits # {} /\ \E b \in hits : StopAtBreakpoint(b)
            \/ hits = {} /\ thread.complete /\ StopAfterStep
            \/ /\ hits = {} /\ ~thread.complete
               /\ thread' = [thread EXCEPT !.at = "running", !.seen = {}, !.due = {}]
               /\ UNCHANGED <<goal, disturbed>>
  BY DEF HandleLine
<1> DEFINE hits == {e[1] : e \in {x \in thread.seen : Matches(x)}} \ (Conditional \ true)
<1>2. \A b \in hits : \E e \in thread.seen : Matches(e) /\ b = e[1]
  OBVIOUS
<1>3. hits = {} => \A e \in thread.seen : Matches(e) => e[1] \in Conditional
  OBVIOUS
<1>4. \/ \E b \in hits : StopAtBreakpoint(b)
      \/ thread.complete /\ StopAfterStep
      \/ /\ hits = {} /\ ~thread.complete
         /\ thread' = [thread EXCEPT !.at = "running", !.seen = {}, !.due = {}]
         /\ UNCHANGED <<goal, disturbed>>
  BY <1>1
<1> HIDE DEF hits
<1> QED
  BY <1>2, <1>3, <1>4

LEMMA ThreadKeepsTypes ==
    ASSUME IInv, Thread
    PROVE  TypeOK'
<1>0. /\ TypeOK /\ thread \in Objects /\ goal \in Goals /\ OthersOK
      /\ stack \in Seq(Frames) /\ Len(stack) <= MaxDepth
  BY Types DEF IInv
<1>1. CASE AsyncBreak
  <2>1. thread' \in Objects
    BY <1>0, <1>1, TopType, Values DEF AsyncBreak, Running, Objects, Stages
  <2> QED
    BY <1>0, <1>1, <2>1, Values, Types DEF AsyncBreak, OthersOK, breakpointVars
<1>2. CASE IteratePending
  <2>1. thread' \in Objects
    BY <1>0, <1>2 DEF IteratePending, Objects, Stages, Seen, OthersOK
  <2> QED
    BY <1>0, <1>2, <2>1, Types DEF IteratePending, OthersOK, breakpointVars
<1>3. CASE BindPending
  <2>1. thread' \in Objects
    <3>1. \E at \in {"called", "untraced"} : thread' = [thread EXCEPT !.at = at, !.seen = {}]
      BY <1>3 DEF BindPending
    <3> QED
      BY <1>0, <3>1 DEF Objects, Stages, Seen
  <2>2. ASSUME NEW bs \in SUBSET Breakpoints, Binds(bs)
        PROVE  /\ is_bound' \subseteq Breakpoints
               /\ BREAKPOINTS' \subseteq Breakpoints \X {"asked", "loaded"}
    BY <1>0, <2>2 DEF Binds, Bound, OthersOK
  <2>3. /\ is_bound' \subseteq Breakpoints /\ PENDING_BREAKPOINTS' \subseteq Breakpoints
        /\ BREAKPOINTS' \subseteq Breakpoints \X {"asked", "loaded"}
    <3> DEFINE matching == {b \in thread.seen : Within(b, Top.file)}
    <3>1. matching \subseteq Breakpoints
      BY <1>0, <1>3 DEF BindPending, IInv, StagesInv, OthersOK
    <3>2. CASE PENDING_BREAKPOINTS = thread.seen
      BY <1>0, <1>3, <2>2, <3>1, <3>2 DEF BindPending, OthersOK
    <3>3. CASE PENDING_BREAKPOINTS # thread.seen
      BY <1>0, <1>3, <2>2, <3>1, <3>3 DEF BindPending, OthersOK
    <3> QED
      BY <3>2, <3>3
  <2> QED
    BY <1>0, <1>3, <2>1, <2>3, Types DEF BindPending, OthersOK
<1>4. CASE ReadStepping
  <2>1. thread' \in Objects
    BY <1>0, <1>4 DEF ReadStepping, Objects, Stages
  <2> QED
    BY <1>0, <1>4, <2>1, Types DEF ReadStepping, OthersOK, breakpointVars
<1>5. CASE EnterFrame
  <2>1. thread' \in Objects
    <3>1. PICK n \in Stepping, line \in Nat : Entering(n, line)
      <4>1. thread.at = "entering" /\ CountCall /\ thread.stopped_on_line \in Nat
        BY <1>0, <1>5 DEF EnterFrame, Objects
      <4>2. CASE thread.was = STEPPING_INTO
        BY <4>1, <4>2, Values DEF CountCall
      <4>3. CASE thread.was # STEPPING_INTO
        BY <4>1, <4>3, CountersType DEF CountCall
      <4> QED
        BY <4>2, <4>3
    <3> QED
      BY <1>0, <3>1, Values DEF Entering, Objects, Stages
  <2> QED
    BY <1>0, <1>5, <2>1, Types DEF EnterFrame, OthersOK, breakpointVars
<1>6. CASE HandleLine
  <2>1. /\ stack # <<>> /\ Top.line \in Nat
        /\ \A e \in thread.seen : e[1] \in Breakpoints
    BY <1>0, <1>6, TopType DEF HandleLine, IInv, StagesInv, LineInv
  <2>2. ASSUME NEW b \in Breakpoints, StopAtBreakpoint(b)
        PROVE  thread' \in Objects /\ goal' = goal /\ disturbed' \in BOOLEAN
    BY <1>0, <2>1, <2>2, Values DEF StopAtBreakpoint, Stops, Objects, Stages, Seen
  <2>3. ASSUME StopAfterStep
        PROVE  thread' \in Objects /\ goal' \in Goals /\ disturbed' \in BOOLEAN
    BY <1>0, <2>1, <2>3, Values DEF StopAfterStep, Stops, Objects, Stages, Seen
  <2>4. ASSUME thread' = [thread EXCEPT !.at = "running", !.seen = {}, !.due = {}]
        PROVE  thread' \in Objects
    BY <1>0, <2>4 DEF Objects, Stages, Seen
  <2>5. thread' \in Objects /\ goal' \in Goals /\ disturbed' \in BOOLEAN
    BY <1>0, <1>6, <2>1, <2>2, <2>3, <2>4, LineCases DEF OthersOK
  <2> QED
    BY <1>0, <1>6, <2>5, Types DEF HandleLine, OthersOK, breakpointVars
<1>7. CASE LineRaises
  <2>1. thread' \in Objects
    BY <1>0, <1>7 DEF LineRaises, Objects, Stages, Seen
  <2> QED
    BY <1>0, <1>7, <2>1, Types DEF LineRaises, OthersOK, breakpointVars
<1>8. CASE Return
  <2> DEFINE caller == IF Len(stack) > 1 THEN stack[Len(stack) - 1] ELSE Top
  <2>1. /\ Top \in Frames /\ Top.line \in Nat /\ caller.line \in Nat
        /\ stack' = Front(stack) /\ Front(stack) \in Seq(Frames)
        /\ Len(Front(stack)) <= MaxDepth
    <3>1. stack # <<>> /\ stack' = Front(stack)
      BY <1>8 DEF Return, Running
    <3>2. /\ Top \in Frames /\ Top.line \in Nat
          /\ Len(stack) > 1 => stack[Len(stack) - 1] \in Frames
      BY <1>0, <3>1, TopType
    <3>3. caller.line \in Nat
      BY <3>2, LineType
    <3>4. Front(stack) \in Seq(Frames) /\ Len(Front(stack)) = Len(stack) - 1 /\ Len(stack) \in Nat
      BY <1>0, <3>1, DepthOfReturn
    <3> QED
      BY <1>0, <3>1, <3>2, <3>3, <3>4, Values
  <2>2. \/ /\ Stops("step", STEPPING_NONE, IF Top.module THEN Top.line + 1 ELSE caller.line)
           /\ goal' = NoGoal /\ disturbed' = FALSE
        \/ /\ \/ thread' = [thread EXCEPT !.at = "leaving", !.was = thread.stepping]
              \/ thread' = thread
           /\ (goal' = GoalBelow(goal) /\ Debugged(Top)) \/ goal' = goal
           /\ disturbed' = disturbed
    BY <1>8 DEF Return
  <2> HIDE DEF caller
  <2>3. thread' \in Objects
    <3>1. (IF Top.module THEN Top.line + 1 ELSE caller.line) \in Nat
      BY <2>1
    <3>2. CASE thread' = thread
      BY <1>0, <3>2
    <3>3. CASE thread' = [thread EXCEPT !.at = "leaving", !.was = thread.stepping]
      BY <1>0, <3>3 DEF Objects, Stages
    <3>4. ASSUME NEW line \in Nat, Stops("step", STEPPING_NONE, line)
          PROVE  thread' \in Objects
      BY <1>0, <3>4, Values DEF Stops, Objects, Stages, Seen
    <3> QED
      BY <2>2, <3>1, <3>2, <3>3, <3>4
  <2>4. ASSUME Debugged(Top) PROVE GoalBelow(goal) \in Goals
    <3>1. UserDepth(stack) \in 1 .. MaxDepth
      <4>1. stack # <<>> /\ Top = Last(stack)
        BY <1>8 DEF Return, Running, Top
      <4>2. /\ UserDepth(Front(stack)) = UserDepth(stack) - 1
            /\ Front(stack) \in Seq(Frames)
        BY <1>0, <2>4, <4>1, DepthOfReturn, DepthType
      <4>3. UserDepth(Front(stack)) \in 0 .. Len(Front(stack)) /\ Len(Front(stack)) \in Nat
        BY <4>2, UserFramesFinite, LenProperties
      <4> QED
        BY <1>0, <4>2, <4>3, DepthType
    <3> QED
      <4>1. [goal EXCEPT !.kind = "over"] \in Goals
        BY <1>0 DEF Goals
      <4>2. ASSUME goal.depth = UserDepth(stack)
            PROVE  [goal EXCEPT !.depth = goal.depth - 1] \in Goals
        <5>1. goal.depth - 1 \in 0 .. MaxDepth
          BY <3>1, <4>2, Values
        <5> QED
          BY <1>0, <5>1 DEF Goals
      <4> QED
        BY <1>0, <4>1, <4>2 DEF GoalBelow
  <2>5. OthersOK'
    BY <1>0, <1>8, <2>2 DEF Return, OthersOK, breakpointVars
  <2> QED
    BY <1>0, <2>1, <2>2, <2>3, <2>4, <2>5, Values, Types
<1>9. CASE LeaveFrame
  <2>1. thread' \in Objects
    BY <1>0, <1>9, CountersType, Values
    DEF LeaveFrame, CountReturn, Entering, Objects, Stages
  <2> QED
    BY <1>0, <1>9, <2>1, Types DEF LeaveFrame, OthersOK, breakpointVars
<1>10. ASSUME NEW f \in Files \union {Library}, Call(f) \/ Import(f)
       PROVE  TypeOK'
  <2>1. thread' \in Objects
    BY <1>0, <1>10 DEF Call, Import, Objects, Stages
  <2>2. PICK module \in BOOLEAN :
           stack' = Append(stack, Frame(f, 0, module)) /\ Len(stack) < MaxDepth
    BY <1>10 DEF Call, Import
  <2>3. stack' \in Seq(Frames) /\ Len(stack') <= MaxDepth
    <3>1. Frame(f, 0, module) \in Frames
      BY DEF Frame, Frames
    <3>2. stack' \in Seq(Frames) /\ Len(stack') = Len(stack) + 1
      BY <1>0, <2>2, <3>1, DepthOfCall
    <3> QED
      BY <1>0, <2>2, <3>2, DepthType
  <2>4. OthersOK'
    BY <1>0, <1>10 DEF Call, Import, OthersOK, breakpointVars
  <2> QED
    BY <1>0, <1>10, <2>1, <2>3, <2>4, Types DEF Call, Import
<1>11. ASSUME NEW line \in Lines, Line(line)
       PROVE  TypeOK'
  <2>1. thread' \in Objects
    BY <1>0, <1>11 DEF Line, StepComplete, EntriesAt, OthersOK, Objects, Stages, Seen
  <2>2. stack' \in Seq(Frames) /\ Len(stack') = Len(stack)
    BY <1>0, <1>11, DepthOfLine DEF Line, Running
  <2> QED
    BY <1>0, <1>11, <2>1, <2>2, Types DEF Line, OthersOK, breakpointVars
<1> QED
  BY <1>1, <1>2, <1>3, <1>4, <1>5, <1>6, <1>7, <1>8, <1>9, <1>10, <1>11, Thread DEF Thread

LEMMA LoopKeepsTypes ==
    ASSUME TypeOK, DebuggerLoop
    PROVE  TypeOK'
<1>0. /\ thread \in Objects /\ goal \in Goals /\ OthersOK
      /\ stack \in Seq(Frames) /\ Len(stack) <= MaxDepth
  BY Types
<1>1. CASE BreakAll
  <2>1. thread' \in Objects
    BY <1>0, <1>1, Values DEF BreakAll, Objects
  <2> QED
    BY <1>0, <1>1, <2>1, Types DEF BreakAll, OthersOK, breakpointVars
<1>2. CASE ResumeThread \/ ResumeAll
  <2>1. PICK n \in Stepping : Resumes(n)
    BY <1>0, <1>2, Values DEF ResumeThread, ResumeAll, Objects
  <2>2. thread' \in Objects
    BY <1>0, <2>1, Values DEF Resumes, Objects, Stages
  <2> QED
    BY <1>0, <1>2, <2>2, Types DEF ResumeThread, ResumeAll, OthersOK, breakpointVars
<1>3. ASSUME NEW kind \in {"into", "over", "out"}, Step(kind)
      PROVE  TypeOK'
  <2>1. PICK n \in Stepping : Resumes(n)
    BY <1>3, Values DEF Step
  <2>2. thread' \in Objects
    BY <1>0, <2>1, Values DEF Resumes, Objects, Stages
  <2>3. goal' \in Goals
    BY <1>0, <1>3, DepthType DEF Step, Objects, Goals
  <2> QED
    BY <1>0, <1>3, <2>2, <2>3, Types DEF Step, OthersOK, breakpointVars
<1>4. ASSUME NEW b \in Breakpoints, SearchModules(b)
      PROVE  TypeOK'
  BY <1>0, <1>4, Types DEF SearchModules, OthersOK
<1>5. ASSUME NEW b \in Breakpoints, AddBound(b)
      PROVE  TypeOK'
  BY <1>0, <1>5, Types DEF AddBound, Binds, Bound, Answers, OthersOK
<1>6. ASSUME NEW b \in Breakpoints, AddUnbound(b)
      PROVE  TypeOK'
  BY <1>0, <1>6, Types DEF AddUnbound, OthersOK
<1>7. ASSUME NEW b \in Breakpoints, AddPending(b)
      PROVE  TypeOK'
  BY <1>0, <1>7, Types DEF AddPending, Answers, OthersOK
<1>8. ASSUME NEW b \in Breakpoints, RemoveBreakpoint(b)
      PROVE  TypeOK'
  BY <1>0, <1>8, Types DEF RemoveBreakpoint, OthersOK
<1> QED
  BY <1>1, <1>2, <1>3, <1>4, <1>5, <1>6, <1>7, <1>8, DebuggerLoop DEF DebuggerLoop

-----------------------------------------------------------------------------
(* The entries of the breakpoints. *)

LEMMA BindingKeeps ==
    ASSUME TypeOK, BreakpointsInv, StagesInv, BindPending
    PROVE  BreakpointsInv'
<1> DEFINE matching == {b \in thread.seen : Within(b, Top.file)}
<1>1. matching \subseteq PENDING_BREAKPOINTS
  BY DEF BindPending, StagesInv
<1>2. PICK bs \in SUBSET matching :
         /\ Binds(bs)
         /\ PENDING_BREAKPOINTS' = PENDING_BREAKPOINTS \/ PENDING_BREAKPOINTS' = PENDING_BREAKPOINTS \ bs
  <2>1. CASE PENDING_BREAKPOINTS = thread.seen
    BY <2>1 DEF BindPending
  <2>2. CASE PENDING_BREAKPOINTS # thread.seen
    BY <2>2 DEF BindPending
  <2> QED
    BY <2>1, <2>2
<1>3. UNCHANGED <<loop, status>>
  BY DEF BindPending
<1>4. \A b \in bs : b \in Breakpoints /\ status[b] \in {"set", "left"}
  BY <1>1, <1>2 DEF BreakpointsInv, TypeOK
<1> HIDE DEF matching
<1>5. /\ is_bound' = is_bound \union bs
      /\ BREAKPOINTS' = BREAKPOINTS \union {Bound(b) : b \in bs}
  BY <1>2 DEF Binds
<1>6. \A b : Bound(b)[1] = b
  BY DEF Bound
<1>7. ASSUME NEW e \in BREAKPOINTS'
      PROVE  status[e[1]] # "removed" /\ (status[e[1]] = "unset" => Lingers(e[1])')
  <2>1. CASE e \in BREAKPOINTS
    BY <1>3, <2>1 DEF BreakpointsInv, Lingers
  <2>2. CASE e \notin BREAKPOINTS
    BY <1>4, <1>5, <1>6, <2>2
  <2> QED
    BY <2>1, <2>2
<1>8. ASSUME NEW b \in Breakpoints, status[b] = "set"
      PROVE  Entry(b)' \in BREAKPOINTS'
  BY <1>5, <1>8 DEF Entry, Bound, BreakpointsInv
<1>9. /\ \A b \in is_bound' : status[b] # "unset"
      /\ loop.at = "pending" => <<loop.id, "asked">> \in BREAKPOINTS'
  BY <1>4, <1>5 DEF BreakpointsInv
<1> QED
  BY <1>2, <1>3, <1>7, <1>8, <1>9 DEF BreakpointsInv

LEMMA BreakpointsKeep ==
    ASSUME TypeOK, BreakpointsInv, StagesInv, [Next]_vars
    PROVE  BreakpointsInv'
<1>0. OthersOK
  BY Types
<1>1. ASSUME UNCHANGED breakpointVars
      PROVE  BreakpointsInv'
  BY <1>1 DEF breakpointVars, BreakpointsInv, Lingers, Entry
<1>2. ASSUME NEW b \in Breakpoints, SearchModules(b)
      PROVE  BreakpointsInv'
  <2>1. /\ loop' = [at |-> loop'.at, id |-> b] /\ loop'.at \in {"binding", "adding"}
        /\ status[b] = "unset" /\ loop.at = "reading"
        /\ UNCHANGED <<BREAKPOINTS, PENDING_BREAKPOINTS, is_bound, status>>
    BY <1>2 DEF SearchModules
  <2> QED
    BY <2>1 DEF BreakpointsInv, Lingers, Entry
<1>3. ASSUME NEW b \in Breakpoints, AddBound(b)
      PROVE  BreakpointsInv'
  <2>1. /\ loop.at = "binding" /\ loop.id = b /\ status[b] = "unset"
        /\ loop' = [at |-> "reading", id |-> "none"] /\ status' = [status EXCEPT ![b] = "set"]
        /\ is_bound' = is_bound \union {b} /\ BREAKPOINTS' = BREAKPOINTS \union {Bound(b)}
        /\ PENDING_BREAKPOINTS' = PENDING_BREAKPOINTS
    BY <1>3 DEF AddBound, Answers, Binds, BreakpointsInv
  <2>2. \A e \in BREAKPOINTS : e[1] # b /\ status[e[1]] \notin {"unset", "removed"}
    BY <2>1 DEF BreakpointsInv, Lingers
  <2>3. \A e \in BREAKPOINTS' : status'[e[1]] \notin {"unset", "removed"}
    BY <1>0, <2>1, <2>2 DEF Bound, OthersOK
  <2>4. \A c \in Breakpoints : status'[c] = "set" => Entry(c)' \in BREAKPOINTS'
    BY <1>0, <2>1 DEF BreakpointsInv, Entry, Bound, OthersOK
  <2>5. \A c \in PENDING_BREAKPOINTS' : status'[c] \in {"set", "left"}
    BY <1>0, <2>1 DEF BreakpointsInv, OthersOK
  <2>6. \A c \in is_bound' : status'[c] # "unset"
    BY <1>0, <2>1 DEF BreakpointsInv, OthersOK
  <2> QED
    BY <2>1, <2>3, <2>4, <2>5, <2>6 DEF BreakpointsInv
<1>4. ASSUME NEW b \in Breakpoints, AddUnbound(b)
      PROVE  BreakpointsInv'
  <2>1. /\ loop.at = "adding" /\ loop.id = b /\ status[b] = "unset"
        /\ loop' = [at |-> "pending", id |-> b]
        /\ BREAKPOINTS' = BREAKPOINTS \union {<<b, "asked">>}
        /\ UNCHANGED <<PENDING_BREAKPOINTS, is_bound, status>>
    BY <1>4 DEF AddUnbound, BreakpointsInv
  <2>2. \A e \in BREAKPOINTS : e[1] # b /\ status[e[1]] \notin {"unset", "removed"}
    BY <2>1 DEF BreakpointsInv, Lingers
  <2> QED
    BY <2>1, <2>2 DEF BreakpointsInv, Lingers, Entry
<1>5. ASSUME NEW b \in Breakpoints, AddPending(b)
      PROVE  BreakpointsInv'
  <2>1. /\ loop.at = "pending" /\ loop.id = b /\ status[b] = "unset"
        /\ loop' = [at |-> "reading", id |-> "none"] /\ status' = [status EXCEPT ![b] = "set"]
        /\ PENDING_BREAKPOINTS' = PENDING_BREAKPOINTS \union {b}
        /\ UNCHANGED <<BREAKPOINTS, is_bound>>
    BY <1>5 DEF AddPending, Answers, BreakpointsInv
  <2>2. \A e \in BREAKPOINTS : e[1] # b => status[e[1]] \notin {"unset", "removed"}
    BY <2>1 DEF BreakpointsInv, Lingers
  <2>3. \A e \in BREAKPOINTS' : status'[e[1]] \notin {"unset", "removed"}
    BY <1>0, <2>1, <2>2 DEF OthersOK
  <2>4. \A c \in Breakpoints : status'[c] = "set" => Entry(c)' \in BREAKPOINTS'
    BY <1>0, <2>1 DEF BreakpointsInv, Entry, Bound, OthersOK
  <2>5. \A c \in PENDING_BREAKPOINTS' : status'[c] \in {"set", "left"}
    BY <1>0, <2>1 DEF BreakpointsInv, OthersOK
  <2>6. \A c \in is_bound' : status'[c] # "unset"
    BY <1>0, <2>1 DEF BreakpointsInv, OthersOK
  <2> QED
    BY <2>1, <2>3, <2>4, <2>5, <2>6 DEF BreakpointsInv
<1>6. ASSUME NEW b \in Breakpoints, RemoveBreakpoint(b)
      PROVE  BreakpointsInv'
  <2>1. /\ loop.at = "reading" /\ status[b] = "set"
        /\ BREAKPOINTS' \subseteq BREAKPOINTS
        /\ \A e \in BREAKPOINTS : e[1] # b => e \in BREAKPOINTS'
        /\ UNCHANGED <<PENDING_BREAKPOINTS, is_bound, loop>>
    BY <1>6 DEF RemoveBreakpoint, Removes
  <2>2. status' = [status EXCEPT ![b] =
                    IF b \in PENDING_BREAKPOINTS \/ (\E e \in BREAKPOINTS' : e[1] = b)
                    THEN "left" ELSE "removed"]
    BY <1>6 DEF RemoveBreakpoint
  <2>3. \A e \in BREAKPOINTS' : status'[e[1]] # "removed" /\ status'[e[1]] # "unset"
    BY <1>0, <2>1, <2>2 DEF BreakpointsInv, Lingers, OthersOK
  <2>4. \A c \in PENDING_BREAKPOINTS' : status'[c] \in {"set", "left"}
    BY <1>0, <2>1, <2>2 DEF BreakpointsInv, OthersOK
  <2>5. \A c \in Breakpoints : status'[c] = "set" => c # b /\ Entry(c)' \in BREAKPOINTS'
    BY <1>0, <2>1, <2>2 DEF BreakpointsInv, Entry, Bound, OthersOK
  <2>6. \A c \in is_bound' : status'[c] # "unset"
    BY <1>0, <2>1, <2>2 DEF BreakpointsInv, OthersOK
  <2> QED
    BY <2>1, <2>3, <2>4, <2>5, <2>6 DEF BreakpointsInv
<1>7. Thread => UNCHANGED breakpointVars \/ BindPending
  BY DEF Thread, AsyncBreak, IteratePending, ReadStepping, EnterFrame, HandleLine, LineRaises,
         Return, LeaveFrame, Call, Import, Line
<1>8. CASE Next
  BY <1>1, <1>2, <1>3, <1>4, <1>5, <1>6, <1>7, <1>8, BindingKeeps
  DEF Next, DebuggerLoop, BreakAll, ResumeThread, ResumeAll, Step
<1>9. CASE UNCHANGED vars
  BY <1>1, <1>9 DEF vars
<1> QED
  BY <1>8, <1>9

-----------------------------------------------------------------------------
(* The stages of a call to the trace function, and the entries of a line. *)

LEMMA StagesKeep ==
    ASSUME TypeOK, StagesInv, [Next]_vars
    PROVE  StagesInv'
<1>0. /\ thread \in Objects /\ stack \in Seq(Frames)
      /\ STEPPING_BREAK = 1 /\ STEPPING_NONE = 0 /\ STEPPING_INTO = 4
      /\ STEPPING_OVER = 5 /\ STEPPING_OUT = -1
  BY Types DEF STEPPING_BREAK, STEPPING_NONE, STEPPING_INTO, STEPPING_OVER, STEPPING_OUT
<1>1. ASSUME thread'.at \in {"running", "stopped", "untraced"}
      PROVE  StagesInv'
  BY <1>1 DEF StagesInv
<1>2. CASE IteratePending
  BY <1>0, <1>2 DEF IteratePending, StagesInv, Objects, breakpointVars
<1>3. CASE BindPending
  BY <1>0, <1>3 DEF BindPending, StagesInv, Objects
<1>4. CASE ReadStepping
  <2>1. CASE thread'.at = "running"
    BY <1>1, <2>1
  <2>2. CASE thread'.at # "running"
    <3>1. /\ thread' = [thread EXCEPT !.at = "entering", !.was = thread.stepping]
          /\ Debugged(Top) /\ stack' = stack /\ stack # <<>>
          /\ thread.stepping >= STEPPING_INTO \/ thread.stepping <= STEPPING_OUT
      BY <1>0, <1>4, <2>2 DEF ReadStepping, StagesInv, Objects
    <3>2. /\ thread'.at = "entering" /\ thread'.was = thread.stepping
          /\ thread'.stepping = thread.stepping /\ Debugged(Top)'
      BY <1>0, <3>1 DEF Objects, Top
    <3> QED
      BY <3>1, <3>2 DEF StagesInv
  <2> QED
    BY <2>1, <2>2
<1>5. CASE HandleLine
  BY <1>0, <1>1, <1>5, LineCases DEF StopAtBreakpoint, StopAfterStep, Stops, Objects
<1>6. CASE Return
  <2>1. CASE thread'.at \in {"running", "stopped"}
    BY <1>1, <2>1
  <2>2. CASE thread'.at \notin {"running", "stopped"}
    <3>1. /\ thread' = [thread EXCEPT !.at = "leaving", !.was = thread.stepping]
          /\ thread.stepping > STEPPING_OVER \/ thread.stepping < STEPPING_OUT
      BY <1>0, <1>6, <2>2 DEF Return, Running, Stops, Objects
    <3> QED
      BY <1>0, <3>1 DEF StagesInv, Objects
  <2> QED
    BY <2>1, <2>2
<1>7. ASSUME NEW f \in Files \union {Library}, Call(f) \/ Import(f)
      PROVE  StagesInv'
  <2>1. PICK module \in BOOLEAN : stack' = Append(stack, Frame(f, 0, module))
    BY <1>7 DEF Call, Import
  <2>2. Frame(f, 0, module) \in Frames
    BY DEF Frame, Frames
  <2>3. stack' # <<>>
    BY <1>0, <2>1, <2>2, DepthOfCall
  <2> QED
    BY <1>0, <1>7, <2>3 DEF Call, Import, StagesInv, Objects
<1>8. ASSUME NEW line \in Lines, Line(line)
      PROVE  StagesInv'
  <2>1. stack' # <<>>
    BY <1>0, <1>8, DepthOfLine DEF Line, Running
  <2> QED
    BY <1>0, <1>8, <2>1 DEF Line, StagesInv, Objects
<1>9. CASE BreakAll
  BY <1>0, <1>9 DEF BreakAll, StagesInv, Objects, breakpointVars, Top
<1>10. CASE AsyncBreak \/ EnterFrame \/ LineRaises \/ LeaveFrame
  BY <1>0, <1>1, <1>10
  DEF AsyncBreak, EnterFrame, CountCall, LineRaises, LeaveFrame, CountReturn, Entering, Objects
<1>11. CASE ResumeThread \/ ResumeAll \/ \E kind \in {"into", "over", "out"} : Step(kind)
  BY <1>0, <1>1, <1>11 DEF ResumeThread, ResumeAll, Step, Resumes, Objects
<1>12. ASSUME UNCHANGED <<thread, stack>>, PENDING_BREAKPOINTS \subseteq PENDING_BREAKPOINTS'
       PROVE  StagesInv'
  BY <1>12 DEF StagesInv, Top
<1>13. ASSUME NEW b \in Breakpoints,
              SearchModules(b) \/ AddBound(b) \/ AddUnbound(b) \/ AddPending(b) \/ RemoveBreakpoint(b)
       PROVE  StagesInv'
  BY <1>12, <1>13 DEF SearchModules, AddBound, AddUnbound, AddPending, RemoveBreakpoint
<1>14. CASE UNCHANGED vars
  BY <1>12, <1>14 DEF vars, breakpointVars
<1> QED
  BY <1>2, <1>3, <1>4, <1>5, <1>6, <1>7, <1>8, <1>9, <1>10, <1>11, <1>13, <1>14
  DEF Next, Thread, DebuggerLoop

\* A breakpoint that lingers goes on to do so while the thread does not bind.
LEMMA LingersOn ==
    ASSUME TypeOK, BreakpointsInv, Next, ~BindPending, NEW b \in Breakpoints, Lingers(b)
    PROVE  Lingers(b)'
<1>0. OthersOK
  BY Types
<1>1. ASSUME UNCHANGED breakpointVars
      PROVE  Lingers(b)'
  BY <1>1 DEF breakpointVars, Lingers
<1>2. ASSUME NEW c \in Breakpoints,
             SearchModules(c) \/ AddBound(c) \/ AddUnbound(c) \/ AddPending(c)
      PROVE  Lingers(b)'
  BY <1>0, <1>2
  DEF SearchModules, AddBound, AddUnbound, AddPending, Answers, Lingers, OthersOK, BreakpointsInv
<1>3. ASSUME NEW c \in Breakpoints, RemoveBreakpoint(c)
      PROVE  Lingers(b)'
  BY <1>0, <1>3 DEF RemoveBreakpoint, Lingers, OthersOK
<1> QED
  BY <1>1, <1>2, <1>3
  DEF Next, Thread, AsyncBreak, IteratePending, ReadStepping, EnterFrame, HandleLine, LineRaises,
      Return, LeaveFrame, Call, Import, Line, DebuggerLoop, BreakAll, ResumeThread, ResumeAll, Step

\* A breakpoint that is set stays set, with its entry, or is removed, while the thread does not bind.
LEMMA SetOn ==
    ASSUME TypeOK, BreakpointsInv, Next, ~BindPending, NEW b \in Breakpoints, status[b] # "unset"
    PROVE  /\ status'[b] # "unset"
           /\ status'[b] = "set" => status[b] = "set" /\ Entry(b)' = Entry(b)
<1>0. OthersOK
  BY Types
<1>1. ASSUME UNCHANGED breakpointVars
      PROVE  status'[b] = status[b] /\ Entry(b)' = Entry(b)
  BY <1>1 DEF breakpointVars, Entry, Bound
<1>2. ASSUME NEW c \in Breakpoints, SearchModules(c) \/ AddUnbound(c)
      PROVE  status'[b] = status[b] /\ Entry(b)' = Entry(b)
  BY <1>2 DEF SearchModules, AddUnbound, Entry, Bound
<1>3. ASSUME NEW c \in Breakpoints, AddBound(c) \/ AddPending(c)
      PROVE  status'[b] = status[b] /\ Entry(b)' = Entry(b)
  <2>1. c # b
    BY <1>3 DEF AddBound, AddPending, BreakpointsInv
  <2> QED
    BY <1>0, <1>3, <2>1 DEF AddBound, AddPending, Answers, Binds, Entry, Bound, OthersOK
<1>4. ASSUME NEW c \in Breakpoints, RemoveBreakpoint(c)
      PROVE  /\ status'[b] # "unset" /\ Entry(b)' = Entry(b)
             /\ status'[b] = "set" => status[b] = "set"
  BY <1>0, <1>4 DEF RemoveBreakpoint, Entry, Bound, OthersOK
<1> QED
  BY <1>1, <1>2, <1>3, <1>4
  DEF Next, Thread, AsyncBreak, IteratePending, ReadStepping, EnterFrame, HandleLine, LineRaises,
      Return, LeaveFrame, Call, Import, Line, DebuggerLoop, BreakAll, ResumeThread, ResumeAll, Step

LEMMA LineKeeps ==
    ASSUME TypeOK, BreakpointsInv, StagesInv, LineInv, [Next]_vars
    PROVE  LineInv'
<1>0. thread \in Objects /\ stack \in Seq(Frames) /\ OthersOK
  BY Types
<1>1. ASSUME Next, ~BindPending, thread.at = "matching", thread'.at = "matching",
             stack' = stack, thread'.seen = thread.seen, thread'.due = thread.due
      PROVE  LineInv'
  <2>1. /\ \A e \in thread.seen : e[1] \in Breakpoints
        /\ Top' = Top
    BY <1>1 DEF LineInv, Top
  <2>2. ASSUME NEW e \in thread.seen, Within(e[1], Top.file)
        PROVE  e[1] \in thread.due \/ Lingers(e[1])'
    BY <1>1, <2>1, <2>2, LingersOn DEF LineInv
  <2>3. ASSUME NEW b \in thread.due
        PROVE  status'[b] # "unset" /\ (status'[b] = "set" => Entry(b)' \in thread.seen)
    BY <1>0, <1>1, <2>3, SetOn DEF LineInv, Objects
  <2> QED
    BY <1>1, <2>1, <2>2, <2>3 DEF LineInv
<1>2. ASSUME NEW line \in Lines, Line(line)
      PROVE  LineInv'
  <2>1. /\ stack # <<>> /\ Debugged(Top)
        /\ stack' = [stack EXCEPT ![Len(stack)].line = line]
        /\ UNCHANGED breakpointVars
    BY <1>2 DEF Line, Running
  <2>2. /\ thread'.seen = EntriesAt(line)
        /\ thread'.due = {b \in Breakpoints : Place[b] = <<Top.file, line>> /\ status[b] = "set"}
    BY <1>0, <1>2 DEF Line, Objects
  <2>3. Top' = [Top EXCEPT !.line = line] /\ Top \in Frames
    BY <1>0, <2>1, DepthOfLine, DepthOfReturn DEF Top
  <2>4. Top'.line = line /\ Top'.file = Top.file /\ Debugged(Top)'
    BY <2>1, <2>3 DEF Frames, Debugged
  <2>5. \A e \in EntriesAt(line) : e \in BREAKPOINTS /\ LineOf(e[1]) = line
    BY DEF EntriesAt
  <2>6. \A e \in BREAKPOINTS : e \in Breakpoints \X {"asked", "loaded"} /\ e[1] \in Breakpoints
    BY <1>0 DEF OthersOK
  <2>7. \A b \in Breakpoints :
            Within(b, Top.file) /\ LineOf(b) = line <=> Place[b] = <<Top.file, line>>
    BY PlaceAssumption DEF Within, LineOf
  <2>8. ASSUME NEW e \in thread'.seen
        PROVE  /\ e \in Breakpoints \X {"asked", "loaded"} /\ LineOf(e[1]) = line
               /\ Within(e[1], Top.file) => e[1] \in thread'.due \/ Lingers(e[1])'
    <3>1. /\ e \in BREAKPOINTS /\ e[1] \in Breakpoints /\ LineOf(e[1]) = line
          /\ e \in Breakpoints \X {"asked", "loaded"}
      BY <2>2, <2>5, <2>6, <2>8
    <3>2. status[e[1]] \in {"set", "left"} \/ Lingers(e[1])
      BY <1>0, <3>1 DEF BreakpointsInv, OthersOK
    <3> QED
      BY <2>1, <2>2, <2>7, <3>1, <3>2 DEF Lingers, breakpointVars
  <2>9. ASSUME NEW b \in thread'.due
        PROVE  /\ Place[b] = <<Top.file, line>> /\ status'[b] # "unset"
               /\ Entry(b)' \in thread'.seen
    <3>1. b \in Breakpoints /\ Place[b] = <<Top.file, line>> /\ status[b] = "set"
      BY <2>2, <2>9
    <3>2. Entry(b) \in BREAKPOINTS /\ LineOf(Entry(b)[1]) = line
      BY <2>7, <3>1 DEF BreakpointsInv, Entry, Bound
    <3> QED
      BY <2>1, <2>2, <3>1, <3>2 DEF EntriesAt, Entry, Bound, breakpointVars
  <2> QED
    BY <2>4, <2>8, <2>9 DEF LineInv
<1>3. ASSUME thread'.at # "matching"
      PROVE  LineInv'
  BY <1>3 DEF LineInv
<1>4. CASE Thread
  <2>1. AsyncBreak \/ IteratePending \/ BindPending \/ ReadStepping \/ LineRaises =>
           thread'.at # "matching"
    BY <1>0 DEF AsyncBreak, IteratePending, BindPending, ReadStepping, LineRaises, Objects
  <2>2. EnterFrame \/ LeaveFrame => thread'.at # "matching"
    BY <1>0 DEF EnterFrame, CountCall, LeaveFrame, CountReturn, Entering, Objects
  <2>3. ASSUME HandleLine PROVE thread'.at # "matching"
    <3>1. ASSUME NEW b, StopAtBreakpoint(b) PROVE thread'.at # "matching"
      BY <1>0, <3>1 DEF StopAtBreakpoint, Stops, Objects
    <3>2. ASSUME StopAfterStep PROVE thread'.at # "matching"
      BY <1>0, <3>2 DEF StopAfterStep, Stops, Objects
    <3>3. ASSUME thread' = [thread EXCEPT !.at = "running", !.seen = {}, !.due = {}]
          PROVE  thread'.at # "matching"
      BY <1>0, <3>3 DEF Objects
    <3> QED
      BY <2>3, <3>1, <3>2, <3>3, LineCases
  <2>4. Return => thread'.at # "matching"
    BY <1>0 DEF Return, Running, Stops, Objects
  <2>5. \A f : Call(f) \/ Import(f) => thread'.at # "matching"
    BY <1>0 DEF Call, Import, Objects
  <2> QED
    BY <1>2, <1>3, <1>4, <2>1, <2>2, <2>3, <2>4, <2>5 DEF Thread
<1>5. CASE DebuggerLoop
  <2>1. CASE thread'.at = "matching"
    <3>1. /\ stack' = stack /\ thread.at = "matching"
          /\ thread'.seen = thread.seen /\ thread'.due = thread.due
      BY <1>0, <1>5, <2>1
      DEF DebuggerLoop, BreakAll, ResumeThread, ResumeAll, Step, Resumes, SearchModules, AddBound,
          AddUnbound, AddPending, RemoveBreakpoint, Objects
    <3> QED
      BY <1>1, <1>5, <2>1, <3>1 DEF Next, BindPending
  <2> QED
    BY <1>3, <2>1
<1>6. CASE UNCHANGED vars
  BY <1>6 DEF vars, breakpointVars, LineInv, Lingers, Entry, Top
<1> QED
  BY <1>4, <1>5, <1>6 DEF Next

LEMMA HitKeeps ==
    ASSUME TypeOK, BreakpointsInv, StagesInv, LineInv, HitInv, [Next]_vars
    PROVE  HitInv'
<1>0. thread \in Objects /\ stack \in Seq(Frames) /\ OthersOK
  BY Types
<1>1. ASSUME thread'.at # "stopped" \/ thread'.why \notin Breakpoints
      PROVE  HitInv'
  BY <1>1 DEF HitInv
<1>2. ASSUME Next, ~BindPending, thread.at = "stopped", thread'.at = "stopped", stack' = stack,
             thread'.why = thread.why, thread'.due = thread.due
      PROVE  HitInv'
  BY <1>2, LingersOn DEF HitInv, Top
<1>3. ASSUME NEW e \in thread.seen, HandleLine, Matches(e), StopAtBreakpoint(e[1])
      PROVE  HitInv'
  <2>1. /\ thread.at = "matching" /\ stack # <<>>
        /\ UNCHANGED <<stack, breakpointVars>>
    BY <1>3 DEF HandleLine, StagesInv
  <2>2. e[1] \in Breakpoints /\ LineOf(e[1]) = Top.line /\ Within(e[1], Top.file)
    BY <1>3, <2>1 DEF LineInv, Matches
  <2>3. Place[e[1]] = <<Top.file, Top.line>>
    BY <2>2, PlaceAssumption DEF LineOf, Within
  <2>4. e[1] \in thread.due \/ Lingers(e[1])
    BY <2>1, <2>2 DEF LineInv
  <2>5. thread'.why = e[1] /\ thread'.due = thread.due
    BY <1>0, <1>3 DEF StopAtBreakpoint, Stops, Objects
  <2> QED
    BY <2>1, <2>3, <2>4, <2>5 DEF HitInv, Lingers, Top, breakpointVars
<1>4. CASE HandleLine
  <2>1. ASSUME StopAfterStep PROVE thread'.why \notin Breakpoints
    BY <1>0, <2>1, Values DEF StopAfterStep, Stops, Objects
  <2>2. ASSUME thread' = [thread EXCEPT !.at = "running", !.seen = {}, !.due = {}]
        PROVE  thread'.at # "stopped"
    BY <1>0, <2>2 DEF Objects
  <2> QED
    BY <1>1, <1>3, <1>4, <2>1, <2>2, LineCases
<1>5. CASE Thread /\ ~HandleLine
  <2>1. AsyncBreak \/ IteratePending \/ BindPending \/ ReadStepping \/ LineRaises =>
           thread'.at # "stopped" \/ thread'.why \notin Breakpoints
    BY <1>0, Values
    DEF AsyncBreak, IteratePending, BindPending, ReadStepping, LineRaises, Objects
  <2>2. EnterFrame \/ LeaveFrame => thread'.at # "stopped"
    BY <1>0 DEF EnterFrame, CountCall, LeaveFrame, CountReturn, Entering, Objects
  <2>3. Return => thread'.at # "stopped" \/ thread'.why \notin Breakpoints
    BY <1>0, Values DEF Return, Running, Stops, Objects
  <2>4. \A f : Call(f) \/ Import(f) => thread'.at # "stopped"
    BY <1>0 DEF Call, Import, Objects
  <2>5. \A line : Line(line) => thread'.at # "stopped"
    BY <1>0 DEF Line, Objects
  <2> QED
    BY <1>1, <1>5, <2>1, <2>2, <2>3, <2>4, <2>5 DEF Thread
<1>6. CASE DebuggerLoop
  <2>1. \/ thread'.at # "stopped"
        \/ /\ stack' = stack /\ thread.at = "stopped"
           /\ thread'.why = thread.why /\ thread'.due = thread.due
    BY <1>0, <1>6
    DEF DebuggerLoop, BreakAll, ResumeThread, ResumeAll, Step, Resumes, SearchModules, AddBound,
        AddUnbound, AddPending, RemoveBreakpoint, Objects
  <2>2. CASE thread'.at = "stopped"
    <3>1. ~BindPending
      BY <2>1, <2>2 DEF BindPending
    <3> QED
      BY <1>2, <1>6, <2>1, <2>2, <3>1 DEF Next
  <2> QED
    BY <1>1, <2>2
<1>7. CASE UNCHANGED vars
  BY <1>7 DEF vars, breakpointVars, HitInv, Lingers, Top
<1> QED
  BY <1>4, <1>5, <1>6, <1>7 DEF Next

-----------------------------------------------------------------------------
(* The count of a step. *)

CountingInv == CountInv /\ GoalInv

LEMMA Numbers ==
    /\ STEPPING_OUT = -1 /\ STEPPING_NONE = 0 /\ STEPPING_BREAK = 1 /\ STEPPING_LAUNCH_BREAK = 2
    /\ STEPPING_INTO = 4 /\ STEPPING_OVER = 5
  BY DEF STEPPING_OUT, STEPPING_NONE, STEPPING_BREAK, STEPPING_LAUNCH_BREAK, STEPPING_INTO,
         STEPPING_OVER

LEMMA Quantities ==
    ASSUME TypeOK
    PROVE  /\ UserDepth(stack) \in Nat /\ Counted \in Int /\ goal.depth \in Nat
           /\ thread.stepping \in Int /\ thread.was \in Int /\ Count \in Int
<1>1. UserDepth(stack) \in Nat
  BY DepthType
<1>2. thread \in Objects /\ goal \in Goals
  BY Types
<1>3. Counted \in Int
  BY <1>1 DEF Counted
<1>4. thread.stepping \in Int /\ thread.was \in Int
  BY <1>2, Values DEF Objects
<1>5. goal.depth \in Nat
  BY <1>2, Values DEF Goals
<1> QED
  BY <1>1, <1>3, <1>4, <1>5 DEF Count

\* A step that leaves the count, its depth and the goal as they are.
LEMMA SameCount ==
    ASSUME TypeOK, CountingInv,
           thread'.at # "untraced" => thread.at # "untraced",
           Count' = Count, Counted' = Counted, goal' = goal,
           thread'.stepping = thread.stepping,
           thread'.stopped_on_line = thread.stopped_on_line,
           ~disturbed' => ~disturbed,
           thread'.at = "matching" /\ ~thread'.complete => ~StepComplete(Top.line)'
    PROVE  CountingInv'
<1>1. CountInv'
  BY DEF CountingInv, CountInv, Counts, Measures
<1>2. GoalInv'
  BY DEF CountingInv, GoalInv, Counts
<1> QED
  BY <1>1, <1>2 DEF CountingInv

\* A step after which no goal is left.
LEMMA NoCount ==
    ASSUME TypeOK', thread'.at \notin {"entering", "leaving"}, thread'.stepping = STEPPING_NONE,
           goal' = NoGoal
    PROVE  CountingInv'
  BY Numbers, Values DEF CountingInv, CountInv, GoalInv, Count, Counts

LEMMA EnteringKeepsCount ==
    ASSUME IInv, EnterFrame
    PROVE  CountingInv'
<1>0. thread \in Objects /\ goal \in Goals /\ TypeOK
  BY Types DEF IInv
<1>1. /\ thread.at = "entering" /\ Counts(thread.was) /\ UNCHANGED <<stack, goal, disturbed>>
      /\ Count = thread.was /\ Counted = UserDepth(stack) - 1
      /\ thread.stepping \in {thread.was, STEPPING_BREAK}
      /\ UserDepth(stack) \in Nat
  BY <1>0, Quantities DEF IInv, StagesInv, EnterFrame, Counts, Count, Counted
<1>2. Measures(thread.was, UserDepth(stack) - 1, goal)
  BY <1>1 DEF IInv, CountInv
<1>3. PICK n \in Int, line \in Nat :
         /\ Entering(n, line)
         /\ thread.was = STEPPING_INTO => n = STEPPING_OVER /\ line = 0
         /\ thread.was # STEPPING_INTO =>
               /\ n = thread.stepping + (IF thread.was >= STEPPING_OVER THEN 1 ELSE -1)
               /\ line = thread.stopped_on_line
  <2>1. CASE thread.was = STEPPING_INTO
    BY <1>0, <2>1, Values DEF EnterFrame, CountCall
  <2>2. CASE thread.was # STEPPING_INTO
    <3>1. thread.stepping + (IF thread.was >= STEPPING_OVER THEN 1 ELSE -1) \in Int
      BY <1>0, Quantities
    <3> QED
      BY <1>0, <2>2, <3>1 DEF EnterFrame, CountCall, Objects
  <2> QED
    BY <2>1, <2>2
<1>4. thread'.at = "running" /\ thread'.stepping = n /\ thread'.stopped_on_line = line
  BY <1>0, <1>3 DEF Entering, Objects
<1>5. Count' = n /\ Counted' = UserDepth(stack)
  BY <1>1, <1>4 DEF Count, Counted
<1>6. Counts(n) => Measures(n, UserDepth(stack), goal)
  <2>1. CASE thread.was = STEPPING_INTO
    BY <1>0, <1>1, <1>2, <1>3, <2>1, Quantities, Numbers DEF Measures, Counts
  <2>2. CASE thread.was # STEPPING_INTO
    BY <1>0, <1>1, <1>2, <1>3, <2>2, Quantities, Numbers DEF Measures, Counts
  <2> QED
    BY <2>1, <2>2
<1>7. CountInv'
  BY <1>1, <1>4, <1>5, <1>6 DEF CountInv, Counts, Measures
<1>8. ASSUME ~disturbed, goal.kind # "none"
      PROVE  /\ Counts(n)
             /\ goal.kind = "into" => n # STEPPING_INTO /\ line = 0
             /\ goal.kind = "over" => line \in {goal.line, 0}
  <2>1. /\ thread.stepping = thread.was
        /\ goal.kind = "into" =>
              thread.stopped_on_line = IF thread.was = STEPPING_INTO THEN goal.line ELSE 0
        /\ goal.kind = "over" => thread.stopped_on_line \in {goal.line, 0}
    BY <1>1, <1>8 DEF IInv, GoalInv
  <2>2. CASE thread.was = STEPPING_INTO
    BY <1>0, <1>1, <1>2, <1>3, <2>1, <2>2, Quantities, Numbers DEF Measures, Counts
  <2>3. CASE thread.was # STEPPING_INTO
    BY <1>0, <1>1, <1>2, <1>3, <2>1, <2>3, Quantities, Numbers DEF Measures, Counts
  <2> QED
    BY <2>2, <2>3
<1>9. GoalInv'
  BY <1>1, <1>4, <1>5, <1>8 DEF GoalInv, Counts
<1> QED
  BY <1>7, <1>9 DEF CountingInv

LEMMA LeavingKeepsCount ==
    ASSUME IInv, LeaveFrame
    PROVE  CountingInv'
<1>0. thread \in Objects /\ goal \in Goals /\ TypeOK
  BY Types DEF IInv
<1>1. /\ thread.at = "leaving" /\ UNCHANGED <<stack, goal, disturbed>>
      /\ thread.was > STEPPING_OVER \/ thread.was < STEPPING_OUT
      /\ Count = thread.was /\ Counted = UserDepth(stack) + 1
      /\ thread.stepping \in {thread.was, STEPPING_BREAK}
      /\ UserDepth(stack) \in Nat
  BY <1>0, Quantities DEF IInv, StagesInv, LeaveFrame, Count, Counted
<1>2. Measures(thread.was, UserDepth(stack) + 1, goal)
  <2>1. Counts(thread.was)
    BY <1>0, <1>1, Quantities, Numbers DEF Counts
  <2> QED
    BY <1>1, <2>1 DEF IInv, CountInv
<1> DEFINE n == thread.stepping + (IF thread.was > STEPPING_OVER THEN -1 ELSE 1)
<1>3. /\ thread'.at = "running" /\ thread'.stepping = n
      /\ thread'.stopped_on_line = thread.stopped_on_line
  BY <1>0 DEF LeaveFrame, CountReturn, Entering, Objects
<1>4. Count' = n /\ Counted' = UserDepth(stack) /\ n \in Int
  BY <1>0, <1>1, <1>3, Quantities DEF Count, Counted
<1>5. Counts(n) => Measures(n, UserDepth(stack), goal)
  BY <1>0, <1>1, <1>2, Quantities, Numbers DEF Measures, Counts
<1>6. ASSUME thread.stepping = thread.was
      PROVE  Counts(n) /\ n # STEPPING_INTO
  BY <1>0, <1>1, <1>6, Quantities, Numbers DEF Counts
<1>7. thread.was # STEPPING_INTO
  BY <1>0, <1>1, Quantities, Numbers
<1> HIDE DEF n
<1>8. CountInv'
  BY <1>1, <1>3, <1>4, <1>5 DEF CountInv, Counts, Measures
<1>9. ASSUME ~disturbed, goal.kind # "none"
      PROVE  /\ Counts(n)
             /\ goal.kind = "into" => n # STEPPING_INTO /\ thread.stopped_on_line = 0
             /\ goal.kind = "over" => thread.stopped_on_line \in {goal.line, 0}
  BY <1>1, <1>6, <1>7, <1>9 DEF IInv, GoalInv
<1>10. GoalInv'
  BY <1>1, <1>3, <1>4, <1>9 DEF GoalInv, Counts
<1> QED
  BY <1>8, <1>10 DEF CountingInv

LEMMA CallsKeepCount ==
    ASSUME IInv, NEW f \in Files \union {Library}, Call(f) \/ Import(f)
    PROVE  CountingInv'
<1>0. /\ thread \in Objects /\ stack \in Seq(Frames) /\ TypeOK /\ CountingInv
      /\ UserDepth(stack) \in Nat
  BY Types, DepthType DEF IInv, CountingInv
<1>1. PICK module \in BOOLEAN : stack' = Append(stack, Frame(f, 0, module))
  BY DEF Call, Import
<1>2. Frame(f, 0, module) \in Frames
  BY DEF Frame, Frames
<1>3. /\ Top' = Frame(f, 0, module)
      /\ UserDepth(stack') = UserDepth(stack) + IF Debugged(Top)' THEN 1 ELSE 0
  BY <1>0, <1>1, <1>2, DepthOfCall DEF Top
<1>4. /\ thread.at = "running" /\ thread'.at \in {"called", "loading"}
      /\ thread'.stepping = thread.stepping /\ thread'.stopped_on_line = thread.stopped_on_line
      /\ UNCHANGED <<goal, disturbed>>
  BY <1>0 DEF Call, Import, Running, Objects
<1>5. Count' = Count
  BY <1>4 DEF Count
<1>6. Counted' = UserDepth(stack)'+ IF Debugged(Top)' THEN -1 ELSE 0
  BY <1>4 DEF Counted
<1>7. Counted = UserDepth(stack)
  BY <1>0, <1>4 DEF Counted
<1>8. Counted' = Counted
  BY <1>0, <1>3, <1>6, <1>7
<1> QED
  BY <1>0, <1>4, <1>5, <1>8, SameCount

LEMMA LinesKeepCount ==
    ASSUME IInv, NEW line \in Lines, Line(line)
    PROVE  CountingInv'
<1>0. /\ thread \in Objects /\ stack \in Seq(Frames) /\ TypeOK /\ CountingInv
      /\ UserDepth(stack) \in Nat
  BY Types, DepthType DEF IInv, CountingInv
<1>1. /\ thread.at = "running" /\ stack # <<>>
      /\ stack' = [stack EXCEPT ![Len(stack)].line = line]
      /\ UNCHANGED <<goal, disturbed>>
  BY DEF Line, Running
<1>2. /\ thread'.at = "matching" /\ thread'.complete = StepComplete(line)
      /\ thread'.stepping = thread.stepping /\ thread'.stopped_on_line = thread.stopped_on_line
  BY <1>0 DEF Line, Objects
<1>3. Top' = [Top EXCEPT !.line = line] /\ UserDepth(stack') = UserDepth(stack) /\ Top \in Frames
  BY <1>0, <1>1, DepthOfLine, DepthOfReturn DEF Top
<1>4. Top'.line = line
  BY <1>3 DEF Frames
<1>5. Count' = Count
  BY <1>1, <1>2 DEF Count
<1>6. Counted' = Counted
  BY <1>0, <1>1, <1>2, <1>3 DEF Counted
<1>7. StepComplete(Top.line)' <=> StepComplete(line)
  BY <1>2, <1>4 DEF StepComplete
<1> QED
  BY <1>0, <1>1, <1>2, <1>5, <1>6, <1>7, SameCount

LEMMA StagesKeepCount ==
    ASSUME IInv, IteratePending \/ BindPending \/ ReadStepping \/ LineRaises
    PROVE  CountingInv'
<1>0. /\ thread \in Objects /\ TypeOK /\ CountingInv /\ UserDepth(stack) \in Nat
  BY Types, DepthType DEF IInv, CountingInv
<1>1. ASSUME thread'.at = "untraced"
      PROVE  CountingInv'
  BY <1>1 DEF CountingInv, CountInv, GoalInv
<1>2. CASE IteratePending
  <2>1. /\ thread.at = "loading" /\ thread'.at = "binding"
        /\ thread'.stepping = thread.stepping
        /\ thread'.stopped_on_line = thread.stopped_on_line
        /\ UNCHANGED <<stack, goal, disturbed>>
    BY <1>0, <1>2 DEF IteratePending, Objects
  <2>2. Count' = Count /\ Counted' = Counted
    BY <2>1 DEF Count, Counted, Top
  <2> QED
    BY <1>0, <2>1, <2>2, SameCount
<1>3. CASE BindPending /\ thread'.at # "untraced"
  <2>1. /\ thread.at = "binding" /\ thread'.at = "called"
        /\ thread'.stepping = thread.stepping
        /\ thread'.stopped_on_line = thread.stopped_on_line
        /\ UNCHANGED <<stack, goal, disturbed>>
    BY <1>0, <1>3 DEF BindPending, Objects
  <2>2. Count' = Count /\ Counted' = Counted
    BY <2>1 DEF Count, Counted, Top
  <2> QED
    BY <1>0, <2>1, <2>2, SameCount
<1>4. CASE ReadStepping
  <2>1. /\ thread.at = "called" /\ UNCHANGED <<stack, goal, disturbed>>
        /\ thread'.stepping = thread.stepping
        /\ thread'.stopped_on_line = thread.stopped_on_line
        /\ \/ /\ Debugged(Top) /\ Counts(thread.stepping)
              /\ thread'.at = "entering" /\ thread'.was = thread.stepping
           \/ /\ ~(Debugged(Top) /\ Counts(thread.stepping))
              /\ thread'.at = "running"
    BY <1>0, <1>4 DEF ReadStepping, Counts, Objects
  <2>2. Count = thread.stepping /\ Count' = thread.stepping
    BY <2>1 DEF Count
  <2>3. CASE thread'.at = "entering" \/ ~Debugged(Top)
    <3>1. Counted' = Counted
      BY <1>0, <2>1, <2>3 DEF Counted, Top
    <3> QED
      BY <1>0, <2>1, <2>2, <3>1, SameCount
  <2>4. CASE ~Counts(thread.stepping)
    BY <1>0, <2>1, <2>2, <2>4 DEF CountingInv, CountInv, GoalInv, Counts
  <2> QED
    BY <2>1, <2>3, <2>4
<1>5. CASE LineRaises
  BY <1>0, <1>1, <1>5 DEF LineRaises, Objects
<1> QED
  BY <1>1, <1>2, <1>3, <1>4, <1>5

LEMMA StopsKeepCount ==
    ASSUME IInv, AsyncBreak \/ HandleLine, TypeOK'
    PROVE  CountingInv'
<1>0. /\ thread \in Objects /\ TypeOK /\ CountingInv
      /\ STEPPING_NONE = 0 /\ STEPPING_INTO = 4 /\ STEPPING_OUT = -1
  BY Types, Numbers DEF IInv, CountingInv
<1>1. CASE AsyncBreak
  BY <1>0, <1>1, NoCount DEF AsyncBreak, Objects
<1>2. ASSUME StopAfterStep
      PROVE  CountingInv'
  BY <1>0, <1>2, NoCount DEF StopAfterStep, Stops, Objects
<1>3. ASSUME NEW b, StopAtBreakpoint(b), thread.at = "matching", stack' = stack
      PROVE  CountingInv'
  <2>1. /\ thread'.at = "stopped" /\ thread'.stepping = thread.stepping
        /\ goal' = goal /\ disturbed' = (goal # NoGoal)
    BY <1>0, <1>3 DEF StopAtBreakpoint, Stops, Objects
  <2>2. Count' = Count /\ Counted' = Counted
    BY <1>3, <2>1 DEF Count, Counted
  <2>3. CountInv'
    BY <1>0, <1>3, <2>1, <2>2 DEF CountingInv, CountInv, Counts, Measures
  <2>4. GoalInv'
    BY <2>1, Values DEF GoalInv
  <2> QED
    BY <2>3, <2>4 DEF CountingInv
<1>4. ASSUME thread' = [thread EXCEPT !.at = "running", !.seen = {}, !.due = {}],
             thread.at = "matching", UNCHANGED <<stack, goal, disturbed>>
      PROVE  CountingInv'
  <2>1. /\ thread'.at = "running" /\ thread'.stepping = thread.stepping
        /\ thread'.stopped_on_line = thread.stopped_on_line
    BY <1>0, <1>4 DEF Objects
  <2>2. Count' = Count /\ Counted' = Counted
    BY <1>4, <2>1 DEF Count, Counted
  <2> QED
    BY <1>0, <1>4, <2>1, <2>2, SameCount
<1>5. CASE HandleLine
  <2>1. thread.at = "matching" /\ stack' = stack
    BY <1>5 DEF HandleLine
  <2> QED
    BY <1>2, <1>3, <1>4, <1>5, <2>1, LineCases
<1> QED
  BY <1>1, <1>5

\* A return that ends no step: from deeper, or to code that is not debugged.
LEMMA ReturnCases ==
    ASSUME TypeOK, Return
    PROVE  LET caller == IF Len(stack) > 1 THEN stack[Len(stack) - 1] ELSE Top
           IN  /\ thread.at = "running" /\ stack # <<>> /\ stack' = Front(stack)
               /\ stack' # <<>> => caller = Last(stack')
               /\ UserDepth(stack') = UserDepth(stack) - IF Debugged(Top) THEN 1 ELSE 0
               /\ \/ /\ Stops("step", STEPPING_NONE,
                               IF Top.module THEN Top.line + 1 ELSE caller.line)
                     /\ goal' = NoGoal /\ disturbed' = FALSE
                     /\ Debugged(Top) /\ thread.stepping \in USER_STEPPING
                  \/ /\ Debugged(Top)
                     /\ thread.stepping > STEPPING_OVER \/ thread.stepping < STEPPING_OUT
                     /\ thread' = [thread EXCEPT !.at = "leaving", !.was = thread.stepping]
                     /\ goal' \in {goal, GoalBelow(goal)} /\ disturbed' = disturbed
                  \/ /\ ~Debugged(Top) /\ UNCHANGED <<thread, goal, disturbed>>
                  \/ /\ Debugged(Top) /\ ~Debugged(caller) /\ thread' = thread
                     /\ thread.stepping \in USER_STEPPING
                     /\ goal' = GoalBelow(goal) /\ disturbed' = disturbed
                  \/ /\ Debugged(Top) /\ thread' = thread
                     /\ ~Counts(thread.stepping)
                     /\ goal' \in {goal, GoalBelow(goal)} /\ disturbed' = disturbed
<1> DEFINE caller == IF Len(stack) > 1 THEN stack[Len(stack) - 1] ELSE Top
           ends == /\ Debugged(Top) /\ thread.stepping \in USER_STEPPING /\ Leaves(caller)
           counts == /\ Debugged(Top)
                     /\ thread.stepping > STEPPING_OVER \/ thread.stepping < STEPPING_OUT
<1>1. /\ thread.at = "running" /\ stack # <<>> /\ stack' = Front(stack)
      /\ IF ends
         THEN /\ Stops("step", STEPPING_NONE, IF Top.module THEN Top.line + 1 ELSE caller.line)
              /\ goal' = NoGoal
              /\ disturbed' = FALSE
         ELSE /\ thread' = IF counts
                           THEN [thread EXCEPT !.at = "leaving", !.was = thread.stepping]
                           ELSE thread
              /\ goal' = IF Debugged(Top) /\ ~Debugged(caller) THEN GoalBelow(goal) ELSE goal
              /\ disturbed' = disturbed
  BY DEF Return, Running
<1>2. stack \in Seq(Frames) /\ thread.stepping \in Int
  BY Types, Quantities
<1>3. UserDepth(stack') = UserDepth(stack) - IF Debugged(Top) THEN 1 ELSE 0
  BY <1>1, <1>2, DepthOfReturn DEF Top
<1>4. stack' # <<>> => caller = Last(stack')
  <2>1. /\ Len(stack') = Len(stack) - 1 /\ stack' \in Seq(Frames) /\ Len(stack) \in Nat
        /\ Len(stack) > 1 => Last(stack') = stack[Len(stack) - 1]
    BY <1>1, <1>2, DepthOfReturn
  <2>2. stack' # <<>> => Len(stack) > 1
    <3>1. stack' # <<>> => Len(stack') # 0
      BY <2>1, EmptySeq
    <3> QED
      BY <2>1, <3>1, LenProperties
  <2> QED
    BY <2>1, <2>2
<1> HIDE DEF caller
<1>5. \/ thread.stepping \in USER_STEPPING
      \/ thread.stepping > STEPPING_OVER \/ thread.stepping < STEPPING_OUT
      \/ ~Counts(thread.stepping)
  BY <1>2, Numbers DEF Counts, USER_STEPPING
<1>6. ~Leaves(caller) => ~Debugged(caller)
  BY DEF Leaves
<1>7. /\ ends => Debugged(Top) /\ thread.stepping \in USER_STEPPING
      /\ counts => /\ Debugged(Top)
                   /\ thread.stepping > STEPPING_OVER \/ thread.stepping < STEPPING_OUT
      /\ ~ends /\ ~counts /\ Debugged(Top) =>
            (thread.stepping \in USER_STEPPING /\ ~Debugged(caller)) \/ ~Counts(thread.stepping)
  BY <1>5, <1>6
<1> HIDE DEF ends, counts
<1>8. \/ /\ ends /\ goal' = NoGoal /\ disturbed' = FALSE
         /\ Stops("step", STEPPING_NONE, IF Top.module THEN Top.line + 1 ELSE caller.line)
      \/ /\ ~ends /\ counts /\ disturbed' = disturbed
         /\ thread' = [thread EXCEPT !.at = "leaving", !.was = thread.stepping]
         /\ goal' = IF Debugged(Top) /\ ~Debugged(caller) THEN GoalBelow(goal) ELSE goal
      \/ /\ ~ends /\ ~counts /\ thread' = thread /\ disturbed' = disturbed
         /\ goal' = IF Debugged(Top) /\ ~Debugged(caller) THEN GoalBelow(goal) ELSE goal
  BY <1>1
<1> QED
  BY <1>1, <1>3, <1>4, <1>7, <1>8 DEF caller

\* Between deeper functions, the goal stays.
LEMMA DeeperGoal ==
    ASSUME TypeOK, Measures(thread.stepping, UserDepth(stack), goal),
           thread.stepping > STEPPING_OVER \/ thread.stepping < STEPPING_OUT
    PROVE  GoalBelow(goal) = goal
<1>1. UserDepth(stack) # goal.depth
  BY Quantities, Numbers DEF Measures
<1>2. goal.kind = "into" => goal.depth + 1 # UserDepth(stack)
  BY Quantities, Numbers DEF Measures
<1> QED
  BY <1>1, <1>2 DEF GoalBelow

\* Out of a function that a step began in or went into, the goal is the function below.
LEMMA GoalOfCaller ==
    ASSUME TypeOK, Measures(thread.stepping, UserDepth(stack), goal),
           thread.stepping \in USER_STEPPING
    PROVE  LET below == GoalBelow(goal)
           IN  /\ Measures(thread.stepping, UserDepth(stack) - 1, below)
               /\ below.line = goal.line
               /\ below.kind = goal.kind \/ (below.kind = "over" /\ thread.stepping = STEPPING_OVER
                                                             /\ goal.kind = "into")
               /\ below.kind = "into" => thread.stepping = STEPPING_INTO
<1>1. /\ goal \in Goals /\ UserDepth(stack) \in Nat /\ goal.depth \in Nat
      /\ thread.stepping \in Int
  BY Types, Quantities
<1>2. CASE goal.depth = UserDepth(stack)
  <2>1. GoalBelow(goal) = [goal EXCEPT !.depth = goal.depth - 1]
    BY <1>1, <1>2 DEF GoalBelow
  <2>2. /\ GoalBelow(goal).kind = goal.kind /\ GoalBelow(goal).line = goal.line
        /\ GoalBelow(goal).depth = goal.depth - 1
    BY <1>1, <2>1 DEF Goals
  <2> QED
    BY <1>1, <1>2, <2>2, Numbers DEF Measures, USER_STEPPING
<1>3. CASE goal.depth # UserDepth(stack)
  <2>1. /\ goal.kind = "into" /\ thread.stepping = STEPPING_OVER
        /\ goal.depth + 1 = UserDepth(stack)
    BY <1>1, <1>3, Numbers DEF Measures, USER_STEPPING
  <2>2. GoalBelow(goal) = [goal EXCEPT !.kind = "over"]
    BY <1>3, <2>1 DEF GoalBelow
  <2>3. /\ GoalBelow(goal).kind = "over" /\ GoalBelow(goal).line = goal.line
        /\ GoalBelow(goal).depth = goal.depth
    BY <1>1, <2>2 DEF Goals
  <2> QED
    BY <1>1, <2>1, <2>3, Numbers DEF Measures, USER_STEPPING
<1> QED
  BY <1>2, <1>3

LEMMA ReturnsKeepCount ==
    ASSUME IInv, Return, TypeOK'
    PROVE  CountingInv'
<1>0. /\ thread \in Objects /\ goal \in Goals /\ TypeOK /\ CountInv /\ GoalInv /\ CountingInv
      /\ UserDepth(stack) \in Nat /\ thread.stepping \in Int
  BY Types, Quantities DEF IInv, CountingInv
<1> DEFINE caller == IF Len(stack) > 1 THEN stack[Len(stack) - 1] ELSE Top
<1>1. /\ thread.at = "running"
      /\ UserDepth(stack') = UserDepth(stack) - IF Debugged(Top) THEN 1 ELSE 0
  BY <1>0, ReturnCases
<1>2. Count = thread.stepping /\ Counted = UserDepth(stack)
  BY <1>0, <1>1 DEF Count, Counted
<1>3. Counts(thread.stepping) => Measures(thread.stepping, UserDepth(stack), goal)
  BY <1>0, <1>1, <1>2 DEF CountInv
<1>4. CASE /\ Stops("step", STEPPING_NONE, IF Top.module THEN Top.line + 1 ELSE caller.line)
           /\ goal' = NoGoal
  BY <1>0, <1>4, NoCount DEF Stops, Objects
<1>5. CASE /\ Debugged(Top)
           /\ thread.stepping > STEPPING_OVER \/ thread.stepping < STEPPING_OUT
           /\ thread' = [thread EXCEPT !.at = "leaving", !.was = thread.stepping]
           /\ goal' \in {goal, GoalBelow(goal)} /\ disturbed' = disturbed
  <2>1. Counts(thread.stepping)
    BY <1>0, <1>5, Numbers DEF Counts
  <2>2. goal' = goal
    BY <1>0, <1>3, <1>5, <2>1, DeeperGoal
  <2>3. /\ thread'.at = "leaving" /\ thread'.was = thread.stepping
        /\ thread'.stepping = thread.stepping
        /\ thread'.stopped_on_line = thread.stopped_on_line
    BY <1>0, <1>5 DEF Objects
  <2>4. Count' = Count /\ Counted' = Counted
    BY <1>0, <1>1, <1>2, <1>5, <2>3 DEF Count, Counted
  <2> QED
    BY <1>0, <1>1, <1>5, <2>2, <2>3, <2>4, SameCount
<1>6. CASE ~Debugged(Top) /\ UNCHANGED <<thread, goal, disturbed>>
  <2>1. Count' = Count /\ Counted' = Counted
    BY <1>0, <1>1, <1>2, <1>6 DEF Count, Counted
  <2> QED
    BY <1>0, <1>1, <1>6, <2>1, SameCount
<1>7. CASE /\ Debugged(Top) /\ thread' = thread /\ thread.stepping \in USER_STEPPING
           /\ goal' = GoalBelow(goal) /\ disturbed' = disturbed
  <2>1. Counts(thread.stepping)
    BY <1>7, Numbers DEF Counts, USER_STEPPING
  <2>2. Count' = thread.stepping /\ Counted' = UserDepth(stack) - 1
    BY <1>0, <1>1, <1>7 DEF Count, Counted
  <2>3. /\ Measures(thread.stepping, UserDepth(stack) - 1, goal')
        /\ goal'.line = goal.line
        /\ goal'.kind = goal.kind \/ (goal'.kind = "over" /\ thread.stepping = STEPPING_OVER
                                                      /\ goal.kind = "into")
        /\ goal'.kind = "into" => thread.stepping = STEPPING_INTO
    BY <1>0, <1>3, <1>7, <2>1, GoalOfCaller
  <2>4. CountInv'
    BY <1>1, <1>7, <2>2, <2>3 DEF CountInv, Counts, Measures
  <2>5. GoalInv'
    BY <1>0, <1>1, <1>2, <1>7, <2>1, <2>2, <2>3, Numbers DEF GoalInv, Counts
  <2> QED
    BY <2>4, <2>5 DEF CountingInv
<1>8. CASE /\ thread' = thread /\ ~Counts(thread.stepping)
           /\ goal' \in {goal, GoalBelow(goal)} /\ disturbed' = disturbed
  <2>1. Count' = thread.stepping
    BY <1>1, <1>8 DEF Count
  <2>2. goal.kind = "none" => goal' = goal \/ goal'.kind = "none"
    BY <1>0, <1>8 DEF GoalBelow, Goals
  <2>3. disturbed \/ goal.kind = "none"
    BY <1>0, <1>1, <1>2, <1>8 DEF GoalInv
  <2>4. CountInv'
    BY <1>8, <2>1 DEF CountInv, Counts
  <2>5. GoalInv'
    BY <1>8, <2>2, <2>3 DEF GoalInv
  <2> QED
    BY <2>4, <2>5 DEF CountingInv
<1> HIDE DEF caller
<1> QED
  BY <1>0, <1>4, <1>5, <1>6, <1>7, <1>8, ReturnCases DEF caller

LEMMA LoopKeepsCount ==
    ASSUME IInv, DebuggerLoop
    PROVE  CountingInv'
<1>0. /\ thread \in Objects /\ goal \in Goals /\ TypeOK /\ CountInv /\ GoalInv /\ CountingInv
      /\ UserDepth(stack) \in Nat /\ thread.stepping \in Int
  BY Types, Quantities DEF IInv, CountingInv
<1>1. CASE BreakAll
  <2>1. /\ thread'.at = thread.at /\ thread.at # "untraced" /\ thread'.was = thread.was
        /\ thread'.stepping = STEPPING_BREAK /\ UNCHANGED <<stack, goal>>
        /\ disturbed' = (goal # NoGoal)
    BY <1>0, <1>1 DEF BreakAll, Objects
  <2>2. Counted' = Counted
    BY <2>1 DEF Counted, Top
  <2>3. GoalInv'
    BY <2>1, Values DEF GoalInv
  <2>4. Count' = Count \/ Count' = STEPPING_BREAK
    BY <2>1 DEF Count
  <2>5. ~Counts(STEPPING_BREAK)
    BY Numbers DEF Counts
  <2>6. CountInv'
    BY <1>0, <2>1, <2>2, <2>4, <2>5 DEF CountInv, Counts, Measures
  <2> QED
    BY <2>3, <2>6 DEF CountingInv
<1>2. CASE ResumeThread \/ ResumeAll
  <2>1. PICK n \in Int :
           /\ Resumes(n) /\ thread.at = "stopped" /\ UNCHANGED <<stack, goal, disturbed>>
           /\ n = thread.stepping \/ (thread.stepping = STEPPING_BREAK /\ n = STEPPING_NONE)
    BY <1>0, <1>2, Numbers DEF ResumeThread, ResumeAll
  <2>2. /\ thread'.at = "running" /\ thread'.stepping = n
        /\ thread'.stopped_on_line = thread.stopped_on_line
    BY <1>0, <2>1 DEF Resumes, Objects
  <2>3. Count' = n /\ Count = thread.stepping /\ Counted' = Counted
    BY <2>1, <2>2 DEF Count, Counted
  <2>4. CASE n = thread.stepping
    BY <1>0, <2>1, <2>2, <2>3, <2>4, SameCount
  <2>5. CASE thread.stepping = STEPPING_BREAK /\ n = STEPPING_NONE
    <3>1. ~Counts(n) /\ ~Counts(thread.stepping)
      BY <2>5, Numbers DEF Counts
    <3>2. disturbed \/ goal.kind = "none"
      BY <1>0, <2>1, <2>3, <3>1 DEF GoalInv
    <3> QED
      BY <2>1, <2>3, <3>1, <3>2 DEF CountingInv, CountInv, GoalInv, Counts
  <2> QED
    BY <2>1, <2>4, <2>5
<1>3. ASSUME NEW kind \in {"into", "over", "out"}, Step(kind)
      PROVE  CountingInv'
  <2>1. PICK n \in Int :
           /\ Resumes(n) /\ thread.at = "stopped" /\ UNCHANGED stack
           /\ n = CASE kind = "into" -> STEPPING_INTO
                    [] kind = "over" -> STEPPING_OVER
                    [] kind = "out" -> STEPPING_OUT
    BY <1>3, Numbers DEF Step
  <2>2. goal' = [kind |-> kind, depth |-> UserDepth(stack), line |-> thread.stopped_on_line]
    BY <1>3 DEF Step
  <2>3. /\ thread'.at = "running" /\ thread'.stepping = n
        /\ thread'.stopped_on_line = thread.stopped_on_line
    BY <1>0, <2>1 DEF Resumes, Objects
  <2>4. Count' = n /\ Counted' = UserDepth(stack)
    BY <1>0, <2>1, <2>3 DEF Count, Counted
  <2>5. /\ Counts(n) /\ Measures(n, UserDepth(stack), goal')
        /\ kind = "into" => n = STEPPING_INTO
    BY <1>0, <2>1, <2>2, Numbers DEF Counts, Measures
  <2>6. CountInv'
    BY <2>3, <2>4, <2>5 DEF CountInv, Counts, Measures
  <2>7. GoalInv'
    BY <2>2, <2>3, <2>4, <2>5 DEF GoalInv, Counts
  <2> QED
    BY <2>6, <2>7 DEF CountingInv
<1>4. ASSUME NEW b \in Breakpoints,
             SearchModules(b) \/ AddBound(b) \/ AddUnbound(b) \/ AddPending(b) \/ RemoveBreakpoint(b)
      PROVE  CountingInv'
  <2>1. UNCHANGED <<thread, stack, goal, disturbed>>
    BY <1>4 DEF SearchModules, AddBound, AddUnbound, AddPending, RemoveBreakpoint
  <2> QED
    BY <1>0, <2>1 DEF CountingInv, CountInv, GoalInv, Counts, Count, Counted, Measures, StepComplete, Top
<1> QED
  BY <1>1, <1>2, <1>3, <1>4, DebuggerLoop DEF DebuggerLoop

-----------------------------------------------------------------------------
(* The inductive invariant, and what it says of every step. *)

LEMMA NextKeeps ==
    ASSUME IInv, [Next]_vars
    PROVE  IInv'
<1>1. TypeOK'
  <2>1. CASE UNCHANGED vars
    BY <2>1 DEF vars, breakpointVars, IInv, TypeOK
  <2> QED
    BY <2>1, ThreadKeepsTypes, LoopKeepsTypes DEF Next, IInv
<1>2. BreakpointsInv' /\ StagesInv' /\ LineInv' /\ HitInv'
  BY BreakpointsKeep, StagesKeep, LineKeeps, HitKeeps DEF IInv
<1>3. CountingInv'
  <2>1. CASE UNCHANGED vars
    BY <2>1
    DEF vars, breakpointVars, IInv, CountingInv, CountInv, GoalInv, Counts, Count, Counted, Measures,
        StepComplete, Top
  <2>2. CASE Thread
    BY <1>1, <2>2, EnteringKeepsCount, LeavingKeepsCount, CallsKeepCount, LinesKeepCount,
       StagesKeepCount, StopsKeepCount, ReturnsKeepCount DEF Thread
  <2>3. CASE DebuggerLoop
    BY <2>3, LoopKeepsCount
  <2> QED
    BY <2>1, <2>2, <2>3 DEF Next
<1> QED
  BY <1>1, <1>2, <1>3 DEF IInv, CountingInv

LEMMA InvariantHolds == Spec => []IInv
<1>1. Init => IInv
  BY InitOK
<1>2. IInv /\ [Next]_vars => IInv'
  BY NextKeeps
<1> QED
  BY <1>1, <1>2, PTL DEF Spec

LEMMA InvariantImplies == IInv => TracingInvariant
<1> SUFFICES ASSUME IInv PROVE TracingInvariant
  OBVIOUS
<1>1. ASSUME thread.at = "stopped", thread.why \in Breakpoints
      PROVE  /\ Place[thread.why] = <<Top.file, Top.line>>
             /\ thread.why \in thread.due \/ status[thread.why] # "removed"
  BY <1>1 DEF IInv, HitInv, Lingers
<1> QED
  BY <1>1 DEF IInv, TracingInvariant, HitsAreSet

\* The variables have their types - the stepping state never counts further than the depth of the
\* stack -, and a thread that stops at a breakpoint is on its line and found it set, but for those
\* that command_remove_breakpoint leaves behind, for any files, breakpoints and depth.
THEOREM HitsAreOfBreakpoints == Spec => []TracingInvariant
  BY InvariantHolds, InvariantImplies, PTL

LEMMA PassedLine ==
    ASSUME IInv, Next, Passes
    PROVE  /\ thread.at = "matching" /\ ~thread.complete
           /\ \A e \in thread.seen : Matches(e) => e[1] \in Conditional
           /\ UNCHANGED stack
<1>0. thread \in Objects
  BY Types DEF IInv
<1>1. HandleLine
  <2>1. CASE Thread
    <3>1. AsyncBreak \/ IteratePending \/ BindPending \/ ReadStepping \/ EnterFrame \/ LeaveFrame
              \/ Return => FALSE
      BY DEF Passes, AsyncBreak, IteratePending, BindPending, ReadStepping, EnterFrame, LeaveFrame,
             Return, Running
    <3>2. LineRaises => thread'.at # "running"
      BY <1>0 DEF LineRaises, Objects
    <3>3. \A f : Call(f) \/ Import(f) => FALSE
      BY DEF Passes, Call, Import, Running
    <3>4. \A line : Line(line) => FALSE
      BY DEF Passes, Line, Running
    <3> QED
      BY <2>1, <3>1, <3>2, <3>3, <3>4 DEF Thread, Passes
  <2>2. CASE DebuggerLoop
    <3>1. BreakAll => thread'.at = thread.at
      BY <1>0 DEF BreakAll, Objects
    <3>2. ResumeThread \/ ResumeAll \/ (\E kind \in {"into", "over", "out"} : Step(kind)) => FALSE
      BY DEF Passes, ResumeThread, ResumeAll, Step
    <3>3. \A b : SearchModules(b) \/ AddBound(b) \/ AddUnbound(b) \/ AddPending(b) \/ RemoveBreakpoint(b)
              => thread' = thread
      BY DEF SearchModules, AddBound, AddUnbound, AddPending, RemoveBreakpoint
    <3> QED
      BY <2>2, <3>1, <3>2, <3>3 DEF DebuggerLoop, Passes
  <2> QED
    BY <2>1, <2>2 DEF Next
<1>2. ASSUME StopAfterStep PROVE thread'.at = "stopped"
  BY <1>0, <1>2 DEF StopAfterStep, Stops, Objects
<1>3. ASSUME NEW b, StopAtBreakpoint(b) PROVE thread'.at = "stopped"
  BY <1>0, <1>3 DEF StopAtBreakpoint, Stops, Objects
<1>4. ~thread.complete /\ \A e \in thread.seen : Matches(e) => e[1] \in Conditional
  BY <1>1, <1>2, <1>3, LineCases DEF Passes
<1> QED
  BY <1>1, <1>4 DEF HandleLine, Passes

\* A thread that is traced executes no line of a breakpoint that the adapter knows as set, however
\* setting it, other breakpoints and the import of its module interleave.
THEOREM SetBreakpointsStop == Spec => BreakpointsStop
<1>1. ASSUME IInv, [Next]_vars
      PROVE  [Passes => \A b \in thread.due \ Conditional : status[b] # "set"]_vars
  <2> SUFFICES ASSUME Next, Passes, NEW b \in thread.due \ Conditional, status[b] = "set"
               PROVE  FALSE
    BY <1>1
  <2>1. /\ thread.at = "matching"
        /\ \A e \in thread.seen : Matches(e) => e[1] \in Conditional
    BY <1>1, PassedLine
  <2>2. Place[b] = <<Top.file, Top.line>> /\ Entry(b) \in thread.seen
    BY <1>1, <2>1 DEF IInv, LineInv
  <2>3. Matches(Entry(b)) /\ Entry(b)[1] = b
    BY <2>2 DEF Matches, Entry, Bound, Within
  <2> QED
    BY <2>1, <2>2, <2>3
<1> QED
  BY <1>1, InvariantHolds, PTL DEF Spec, BreakpointsStop

\* A step that stops the thread is one that the user asked for, and stops in its scope.
THEOREM StepsStayInScope == Spec => StepsStopInScope
<1> DEFINE InScopeOfGoal == CASE goal.kind = "none" -> FALSE
                              [] goal.kind = "into" -> UserDepth(stack') <= goal.depth + 1
                              [] goal.kind = "over" -> UserDepth(stack') <= goal.depth
                              [] goal.kind = "out" -> UserDepth(stack') < goal.depth
           Ends == thread'.at = "stopped" /\ thread.at # "stopped" /\ thread'.why = "step"
<1>1. ASSUME IInv, [Next]_vars
      PROVE  [Ends => InScopeOfGoal]_vars
  <2> SUFFICES ASSUME Next, Ends PROVE InScopeOfGoal
    BY <1>1
  <2>0. /\ thread \in Objects /\ goal \in Goals /\ TypeOK
        /\ UserDepth(stack) \in Nat /\ goal.depth \in Nat /\ thread.stepping \in Int
    BY <1>1, Types, Quantities DEF IInv
  <2>1. ASSUME StopAfterStep, thread.at = "matching", stack' = stack
        PROVE  InScopeOfGoal
    <3>1. thread.stepping \in {STEPPING_OVER, STEPPING_INTO}
      BY <2>0, <2>1 DEF StopAfterStep, Stops, Objects
    <3>2. Count = thread.stepping /\ Counted = UserDepth(stack) /\ Counts(Count)
      BY <2>0, <2>1, <3>1, Numbers DEF Count, Counted, Counts
    <3>3. Measures(thread.stepping, UserDepth(stack), goal)
      BY <1>1, <2>1, <3>2 DEF IInv, CountInv
    <3>4. /\ goal.kind = "into" => UserDepth(stack') <= goal.depth + 1
          /\ goal.kind = "over" => UserDepth(stack') <= goal.depth
          /\ goal.kind = "out" => UserDepth(stack') < goal.depth
          /\ goal.kind \in {"into", "over", "out"}
      BY <2>0, <2>1, <3>1, <3>3, Numbers DEF Measures
    <3> QED
      BY <3>4
  <2>2. ASSUME Return
        PROVE  InScopeOfGoal
    <3>1. /\ thread.at = "running"
          /\ UserDepth(stack') = UserDepth(stack) - 1
          /\ thread.stepping \in USER_STEPPING
      <4>1. /\ thread.at = "running"
            /\ UserDepth(stack') = UserDepth(stack) - IF Debugged(Top) THEN 1 ELSE 0
            /\ \/ Debugged(Top) /\ thread.stepping \in USER_STEPPING
               \/ thread' = [thread EXCEPT !.at = "leaving", !.was = thread.stepping]
               \/ thread' = thread
        BY <2>0, <2>2, ReturnCases
      <4> QED
        BY <2>0, <4>1 DEF Objects
    <3>2. Count = thread.stepping /\ Counted = UserDepth(stack) /\ Counts(Count)
      BY <2>0, <3>1, Numbers DEF Count, Counted, Counts, USER_STEPPING
    <3>3. Measures(thread.stepping, UserDepth(stack), goal)
      BY <1>1, <3>1, <3>2 DEF IInv, CountInv
    <3>4. /\ goal.kind = "into" => UserDepth(stack') <= goal.depth + 1
          /\ goal.kind = "over" => UserDepth(stack') <= goal.depth
          /\ goal.kind = "out" => UserDepth(stack') < goal.depth
          /\ goal.kind \in {"into", "over", "out"}
      BY <2>0, <3>1, <3>3, Numbers DEF Measures, USER_STEPPING
    <3> QED
      BY <3>4
  <2>3. CASE HandleLine
    <3>1. thread.at = "matching" /\ stack' = stack
      BY <2>3 DEF HandleLine
    <3>2. ASSUME NEW e \in thread.seen, StopAtBreakpoint(e[1])
          PROVE  FALSE
      <4>1. thread'.why = e[1]
        BY <2>0, <3>2 DEF StopAtBreakpoint, Stops, Objects
      <4>2. e[1] \in Breakpoints
        BY <1>1, <3>1 DEF IInv, LineInv
      <4> QED
        BY <4>1, <4>2, Values
    <3>3. thread' # [thread EXCEPT !.at = "running", !.seen = {}, !.due = {}]
      BY <2>0 DEF Objects
    <3> QED
      BY <2>1, <2>3, <3>1, <3>2, <3>3, LineCases
  <2>4. CASE Thread /\ ~HandleLine /\ ~Return
    <3>1. AsyncBreak \/ IteratePending \/ BindPending \/ ReadStepping \/ LineRaises => ~Ends
      BY <2>0 DEF AsyncBreak, IteratePending, BindPending, ReadStepping, LineRaises, Objects
    <3>2. EnterFrame \/ LeaveFrame => ~Ends
      BY <2>0 DEF EnterFrame, CountCall, LeaveFrame, CountReturn, Entering, Objects
    <3>3. \A f : Call(f) \/ Import(f) => ~Ends
      BY <2>0 DEF Call, Import, Objects
    <3>4. \A line : Line(line) => ~Ends
      BY <2>0 DEF Line, Objects
    <3> HIDE DEF InScopeOfGoal, Ends
    <3> QED
      BY <2>4, <3>1, <3>2, <3>3, <3>4 DEF Thread
  <2>5. CASE DebuggerLoop
    <3>1. BreakAll => thread'.at = thread.at
      BY <2>0 DEF BreakAll, Objects
    <3>2. ResumeThread \/ ResumeAll \/ (\E kind \in {"into", "over", "out"} : Step(kind))
             => thread.at = "stopped"
      BY DEF ResumeThread, ResumeAll, Step
    <3>3. \A b : SearchModules(b) \/ AddBound(b) \/ AddUnbound(b) \/ AddPending(b) \/ RemoveBreakpoint(b)
              => thread' = thread
      BY DEF SearchModules, AddBound, AddUnbound, AddPending, RemoveBreakpoint
    <3> QED
      BY <2>5, <3>1, <3>2, <3>3 DEF DebuggerLoop
  <2> QED
    BY <2>2, <2>3, <2>4, <2>5 DEF Next
<1> QED
  BY <1>1, InvariantHolds, PTL DEF Spec, StepsStopInScope

\* A step that nothing disturbs stops at any line of the function that it goes into, at another
\* line in its scope, and when its function returns to code of the user.
THEOREM StepsStopInTime == Spec => StepsStopWhenDue
<1> DEFINE Due == /\ Passes => ~(Entered \/ (InScope /\ Elsewhere))
                  /\ ReturnsToUser => thread'.at = "stopped"
<1>1. ASSUME IInv, [Next]_vars
      PROVE  [~disturbed => Due]_vars
  <2> SUFFICES ASSUME Next, ~disturbed PROVE Due
    BY <1>1
  <2>0. /\ thread \in Objects /\ goal \in Goals /\ TypeOK /\ stack \in Seq(Frames)
        /\ UserDepth(stack) \in Nat /\ goal.depth \in Nat /\ thread.stepping \in Int
    BY <1>1, Types, Quantities DEF IInv
  <2>1. ASSUME Passes, Entered \/ (InScope /\ Elsewhere)
        PROVE  FALSE
    <3>1. thread.at = "matching" /\ ~thread.complete
      BY <1>1, <2>1, PassedLine
    <3>2. goal.kind \in {"into", "over"}
      BY <2>1 DEF Entered, InScope
    <3>3. /\ Counts(thread.stepping) /\ Count = thread.stepping /\ Counted = UserDepth(stack)
          /\ goal.kind = "into" =>
                thread.stopped_on_line = IF thread.stepping = STEPPING_INTO THEN goal.line ELSE 0
          /\ goal.kind = "over" => thread.stopped_on_line \in {goal.line, 0}
          /\ ~StepComplete(Top.line)
      BY <1>1, <2>0, <3>1, <3>2 DEF IInv, GoalInv, Count, Counted
    <3>4. Measures(thread.stepping, UserDepth(stack), goal)
      BY <1>1, <3>1, <3>3 DEF IInv, CountInv
    <3>5. Top.line # 0
      BY <1>1, <3>1, LinesAssumption DEF IInv, LineInv
    <3>6. /\ thread.stepping \in {STEPPING_OVER, STEPPING_INTO}
          /\ Top.line # thread.stopped_on_line
      <4>1. CASE Entered
        BY <2>0, <3>2, <3>3, <3>4, <3>5, <4>1, Numbers DEF Entered, Measures
      <4>2. CASE InScope /\ Elsewhere
        BY <2>0, <3>2, <3>3, <3>4, <3>5, <4>2, Numbers DEF InScope, Elsewhere, Measures
      <4> QED
        BY <2>1, <4>1, <4>2
    <3> QED
      BY <3>3, <3>6 DEF StepComplete
  <2>2. ASSUME ReturnsToUser
        PROVE  thread'.at = "stopped"
    <3>1. Return
      <4>1. stack # <<>> /\ Len(stack') = Len(stack) - 1 /\ Len(stack) \in Nat
        <5>1. CASE stack = <<>>
          BY <2>2, <5>1 DEF ReturnsToUser, Front
        <5>2. CASE stack # <<>>
          BY <2>0, <2>2, <5>2, DepthOfReturn DEF ReturnsToUser
        <5> QED
          BY <5>1, <5>2
      <4>2. ASSUME NEW f \in Files \union {Library}, Call(f) \/ Import(f)
            PROVE  FALSE
        <5>1. PICK module \in BOOLEAN : stack' = Append(stack, Frame(f, 0, module))
          BY <4>2 DEF Call, Import
        <5>2. Frame(f, 0, module) \in Frames
          BY DEF Frame, Frames
        <5> QED
          BY <2>0, <4>1, <5>1, <5>2, DepthOfCall
      <4>3. ASSUME NEW line \in Lines, Line(line)
            PROVE  FALSE
        BY <2>0, <4>1, <4>3, DepthOfLine DEF Line
      <4>4. stack' # stack
        BY <4>1
      <4> QED
        BY <4>2, <4>3, <4>4
        DEF Next, Thread, AsyncBreak, IteratePending, BindPending, ReadStepping, EnterFrame,
            HandleLine, LineRaises, LeaveFrame, DebuggerLoop, BreakAll, ResumeThread, ResumeAll,
            Step, SearchModules, AddBound, AddUnbound, AddPending, RemoveBreakpoint
    <3>2. thread.at = "running"
      BY <3>1 DEF Return, Running
    <3>3. /\ Counts(thread.stepping) /\ Count = thread.stepping /\ Counted = UserDepth(stack)
      BY <1>1, <2>0, <2>2, <3>2 DEF IInv, GoalInv, Count, Counted, ReturnsToUser
    <3>4. Measures(thread.stepping, UserDepth(stack), goal)
      BY <1>1, <3>2, <3>3 DEF IInv, CountInv
    <3>5. thread.stepping \in USER_STEPPING /\ Debugged(Top)
      BY <2>0, <2>2, <3>4, Numbers DEF ReturnsToUser, Measures, USER_STEPPING
    <3>6. ~(thread.stepping > STEPPING_OVER \/ thread.stepping < STEPPING_OUT)
      BY <3>5, Numbers DEF USER_STEPPING
    <3>7. PICK line : Stops("step", STEPPING_NONE, line)
      BY <2>0, <2>2, <3>1, <3>3, <3>5, <3>6, ReturnCases DEF ReturnsToUser
    <3> QED
      BY <2>0, <3>7 DEF Stops, Objects
  <2> QED
    BY <2>1, <2>2
<1> QED
  BY <1>1, InvariantHolds, PTL DEF Spec, StepsStopWhenDue

=============================================================================
