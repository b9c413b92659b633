---------------------- MODULE TerminalExecutionProofs ----------------------
(***************************************************************************)
(* Proofs about TerminalExecution: the service knows the one terminal that *)
(* is open, and code reaches a terminal in which Python was started.       *)
(***************************************************************************)
EXTENDS TerminalExecution, SequenceTheorems, TLAPS

-----------------------------------------------------------------------------
(* Sequences.                                                              *)

LEMMA RemoveAtProperties ==
    ASSUME NEW S, NEW q \in Seq(S), NEW i \in 1 .. Len(q)
    PROVE  /\ RemoveAt(q, i) \in Seq(S)
           /\ Len(RemoveAt(q, i)) = Len(q) - 1
           /\ \A j \in 1 .. Len(q) - 1 :
                 RemoveAt(q, i)[j] = IF j < i THEN q[j] ELSE q[j + 1]
<1> DEFINE front == SubSeq(q, 1, i - 1)
           rest == SubSeq(q, i + 1, Len(q))
<1>1. Len(q) \in Nat
  BY LenProperties
<1>2. \A j \in 1 .. Len(q) : q[j] \in S
  BY ElementOfSeq
<1>3. /\ front \in Seq(S)
      /\ Len(front) = i - 1
      /\ \A j \in 1 .. i - 1 : front[j] = q[j]
  BY <1>1, <1>2, SubSeqProperties
<1>4. /\ rest \in Seq(S)
      /\ Len(rest) = Len(q) - i
      /\ \A j \in 1 .. Len(q) - i : rest[j] = q[i + j]
  BY <1>1, <1>2, SubSeqProperties
<1> HIDE DEF front, rest
<1>5. RemoveAt(q, i) = front \o rest
  BY DEF RemoveAt, front, rest
<1>6. /\ front \o rest \in Seq(S)
      /\ Len(front \o rest) = Len(front) + Len(rest)
      /\ \A j \in 1 .. Len(front) + Len(rest) :
            (front \o rest)[j] = IF j <= Len(front) THEN front[j] ELSE rest[j - Len(front)]
  BY <1>3, <1>4, ConcatProperties
<1>7. Len(front) + Len(rest) = Len(q) - 1
  BY <1>1, <1>3, <1>4
<1>8. ASSUME NEW j \in 1 .. Len(q) - 1
      PROVE  (front \o rest)[j] = IF j < i THEN q[j] ELSE q[j + 1]
  <2>1. (front \o rest)[j] = IF j <= Len(front) THEN front[j] ELSE rest[j - Len(front)]
    BY <1>6, <1>7
  <2>2. CASE j < i
    BY <1>1, <1>3, <2>1, <2>2
  <2>3. CASE ~(j < i)
    <3>1. j - Len(front) \in 1 .. Len(q) - i /\ i + (j - Len(front)) = j + 1
      BY <1>1, <1>3, <2>3
    <3> QED
      BY <1>1, <1>3, <1>4, <2>1, <2>3, <3>1
  <2> QED
    BY <2>2, <2>3
<1> QED
  BY <1>5, <1>6, <1>7, <1>8

-----------------------------------------------------------------------------
(* What the argument is about.                                             *)

Active(c) == Began(c) /\ ~Ended(c)

HasRepl == \E i \in 1..Len(log[terminal]) : log[terminal][i].text = "repl"

\* The promise of p is that of a REPL that is in the terminal or will be.
Underway(p) == (stage[p] = "activating" /\ text[p] = "repl") \/ HasRepl

\* The promise that the next selection awaits is one of the open terminal.
PromiseIsKept ==
    replActive # None =>
        /\ terminal # None
        /\ terminal \in open => Underway(replActive)

\* So is the promise that a selection awaits, unless a terminal was closed.
AwaitedIsKept ==
    \A c \in Selections : (Active(c) /\ c \notin disturbed) =>
        /\ terminal # None
        /\ awaited[c] \in Selections
        /\ stage[c] = "activating" => text[c] = "repl"
        /\ terminal \in open => Underway(awaited[c])

\* A promise that is resolved is one of a REPL that was started.
StartedBegan ==
    \A c \in started : /\ stage[c] \notin {"new", "starting"}
                       /\ stage[c] = "activating" => text[c] = "code"

\* Only selections type code, and who waits for a terminal has a text for it.
FilesRun ==
    /\ \A c \in Files : text[c] \in {"run", None}
    /\ \A c \in Callers : stage[c] = "activating" => text[c] \in {"run", "repl", "code"}

\* Who activates a terminal and waits for a promise waits for its own.
KnowsOwn(c) == stage[c] = "activating" => text[c] = "repl" /\ awaited[c] = c

\* Who waits has yet to send code.
WaitersWait ==
    /\ \A i \in 1..Len(waiters) : Active(waiters[i])
    /\ \A i, j \in 1..Len(waiters) : waiters[i] = waiters[j] => i = j
    /\ \A i \in 1..Len(waiters) : KnowsOwn(waiters[i])

ReplInv == /\ TerminalInvariant /\ PromiseIsKept /\ AwaitedIsKept /\ StartedBegan
           /\ FilesRun /\ WaitersWait /\ CodeReachesRepl

-----------------------------------------------------------------------------
(* Sending.                                                                *)

\* The log of the terminal grows by a text, which may be the command that starts
\* Python, and may be code when that is there.
LEMMA LogGrows ==
    ASSUME TypeOK, CodeReachesRepl, NEW c \in Callers, NEW what \in Texts,
           log' = Logged(c, what), UNCHANGED <<terminal, disturbed>>,
           (terminal \in open /\ what = "code" /\ c \notin disturbed) => HasRepl
    PROVE  /\ log' \in [Terminals -> Seq([text : Texts, by : Callers])]
           /\ CodeReachesRepl'
           /\ HasRepl /\ terminal \in Terminals => HasRepl'
           /\ terminal \in open /\ what = "repl" => HasRepl'
<1> DEFINE e == [text |-> what, by |-> c]
           R == [text : Texts, by : Callers]
<1>1. CASE terminal \notin open
  <2>1. log' = log
    BY <1>1 DEF Logged
  <2> QED
    BY <1>1, <2>1 DEF TypeOK, CodeReachesRepl, HasRepl
<1>2. CASE terminal \in open
  <2>1. terminal \in Terminals
    BY <1>2, CallersAssumption DEF TypeOK
  <2>2. e \in R /\ e.text = what /\ e.by = c
    OBVIOUS
  <2> HIDE DEF e
  <2>3. log' = [log EXCEPT ![terminal] = Append(@, e)]
    BY <1>2 DEF Logged, e
  <2>4. log[terminal] \in Seq(R) /\ log \in [Terminals -> Seq(R)]
    BY <2>1 DEF TypeOK
  <2> HIDE DEF R
  <2>5. PICK n \in Nat : n = Len(log[terminal])
    BY <2>4, LenProperties
  <2>6. /\ Append(log[terminal], e) \in Seq(R)
        /\ Len(Append(log[terminal], e)) = n + 1
        /\ \A i \in 1..n : Append(log[terminal], e)[i] = log[terminal][i]
        /\ Append(log[terminal], e)[n + 1] = e
    BY <2>2, <2>4, <2>5, AppendProperties
  <2>7. log'[terminal] = Append(log[terminal], e)
    BY <2>1, <2>3, <2>4
  <2>8. \A t \in Terminals : t # terminal => log'[t] = log[t]
    BY <2>3, <2>4
  <2>9. log' \in [Terminals -> Seq(R)]
    BY <2>1, <2>3, <2>4, <2>6
  <2>10. HasRepl => HasRepl'
    BY <2>5, <2>6, <2>7 DEF HasRepl
  <2>11. what = "repl" => HasRepl'
    BY <2>2, <2>6, <2>7 DEF HasRepl
  <2>12. ASSUME NEW t \in Terminals, NEW i \in 1..Len(log'[t]),
                log'[t][i].text = "code", log'[t][i].by \notin disturbed
         PROVE  \E j \in 1..(i - 1) : log'[t][j].text = "repl"
    <3>1. CASE t # terminal
      BY <2>8, <2>12, <3>1 DEF CodeReachesRepl
    <3>2. CASE t = terminal /\ i <= n
      <4>0. i \in 1..n
        BY <2>6, <2>7, <2>12, <3>2
      <4>1. i \in 1..Len(log[terminal]) /\ log'[t][i] = log[terminal][i]
        BY <2>5, <2>6, <2>7, <3>2, <4>0
      <4>2. PICK j \in 1..(i - 1) : log[terminal][j].text = "repl"
        BY <2>1, <2>12, <3>2, <4>1 DEF CodeReachesRepl
      <4>3. log'[t][j] = log[terminal][j]
        BY <2>6, <2>7, <3>2, <4>2
      <4> QED
        BY <4>2, <4>3
    <3>3. CASE t = terminal /\ i = n + 1
      <4>1. what = "code" /\ c \notin disturbed
        BY <2>2, <2>6, <2>7, <2>12, <3>3
      <4>2. PICK j \in 1..n : log[terminal][j].text = "repl"
        BY <1>2, <2>5, <4>1 DEF HasRepl
      <4>3. log'[t][j] = log[terminal][j]
        BY <2>6, <2>7, <3>3
      <4> QED
        BY <3>3, <4>2, <4>3
    <3> QED
      BY <2>5, <2>6, <2>7, <3>1, <3>2, <3>3
  <2>13. CodeReachesRepl'
    BY <2>12 DEF CodeReachesRepl
  <2> QED
    BY <1>2, <2>9, <2>10, <2>11, <2>13 DEF R
<1> QED
  BY <1>1, <1>2

\* The part of TypeOK that sending is about, and the rest.
ServiceTyped ==
    /\ terminal \in Terminals \union {None}
    /\ unused \subseteq Terminals
    /\ open \subseteq Terminals \union {Foreign}
    /\ closing \subseteq Terminals \union {Foreign}
    /\ log \in [Terminals -> Seq([text : Texts, by : Callers])]
    /\ stage \in [Callers -> Stages]
    /\ text \in [Callers -> Texts \union {None}]
    /\ left \in [Callers -> 0..Activations]

PromisesTyped ==
    /\ replActive \in Selections \union {None}
    /\ started \subseteq Selections
    /\ waiters \in Seq(Selections)
    /\ awaited \in [Callers -> Selections \union {None}]
    /\ disturbed \subseteq Callers

LEMMA TypeOKSplit == TypeOK <=> ServiceTyped /\ PromisesTyped
BY DEF TypeOK, ServiceTyped, PromisesTyped

Service == ServiceTyped /\ OneTerminal /\ TerminalsMove

LEMMA InvariantSplit == TerminalInvariant <=> Service /\ PromisesTyped
BY TypeOKSplit DEF TerminalInvariant, Service

\* A text is sent to the terminal there is, or one is created for it.
LEMMA SendEffect ==
    ASSUME TerminalInvariant, CodeReachesRepl, NEW c \in Callers,
           NEW what \in {"run", "repl", "code"}, Send(c, what), UNCHANGED disturbed,
           (terminal \in open /\ what = "code" /\ c \notin disturbed) => HasRepl
    PROVE  /\ Service' /\ CodeReachesRepl'
           /\ \A d \in Callers : d # c =>
                stage'[d] = stage[d] /\ text'[d] = text[d]
           /\ \/ /\ terminal # None /\ UNCHANGED <<terminal, open, text>>
                 /\ stage'[c] = AfterSending(what)
                 /\ HasRepl => HasRepl'
                 /\ (terminal \in open /\ what = "repl") => HasRepl'
              \/ /\ terminal = None /\ terminal' # None
                 /\ stage'[c] = "activating" /\ text'[c] = what
<1> USE DEF TerminalInvariant, Service
<1>1. CASE SendNow(c, what)
  <2>1. /\ log' \in [Terminals -> Seq([text : Texts, by : Callers])]
        /\ CodeReachesRepl'
        /\ HasRepl /\ terminal \in Terminals => HasRepl'
        /\ terminal \in open /\ what = "repl" => HasRepl'
    BY <1>1, LogGrows DEF SendNow, Texts
  <2>2. AfterSending(what) \in Stages
    BY DEF AfterSending, Stages
  <2>3. terminal # None /\ terminal \in Terminals
    BY <1>1 DEF SendNow, TypeOK
  <2>4. ServiceTyped'
    BY <1>1, <2>1, <2>2, TypeOKSplit DEF SendNow, ServiceTyped
  <2>5. OneTerminal' /\ TerminalsMove'
    BY <1>1 DEF SendNow, OneTerminal, TerminalsMove, Own
  <2>6. stage'[c] = AfterSending(what) /\ \A d \in Callers : d # c => stage'[d] = stage[d]
    BY <1>1 DEF SendNow, TypeOK
  <2> QED
    BY <1>1, <2>1, <2>3, <2>4, <2>5, <2>6 DEF SendNow
<1>2. CASE CreateAndWait(c, what)
  <2>1. PICK t \in unused : /\ terminal' = t /\ unused' = unused \ {t} /\ open' = open \union {t}
    BY <1>2 DEF CreateAndWait
  <2>2. t \in Terminals /\ t # None /\ t # Foreign
    BY <2>1, CallersAssumption DEF TypeOK
  <2>3. ServiceTyped'
    <3>1. /\ stage' \in [Callers -> Stages] /\ text' \in [Callers -> Texts \union {None}]
          /\ log' = log /\ closing' = closing
      BY <1>2 DEF CreateAndWait, TypeOK, Texts, Stages
    <3>2. left' \in [Callers -> 0..Activations]
      BY <1>2, CallersAssumption DEF CreateAndWait, TypeOK
    <3> QED
      BY <2>1, <2>2, <3>1, <3>2 DEF TypeOK, ServiceTyped
  <2>4. OneTerminal' /\ TerminalsMove'
    BY <1>2, <2>1, <2>2, CallersAssumption DEF CreateAndWait, OneTerminal, TerminalsMove, Own, TypeOK
  <2>5. CodeReachesRepl'
    BY <1>2 DEF CreateAndWait, CodeReachesRepl
  <2>6. /\ stage'[c] = "activating" /\ text'[c] = what
        /\ \A d \in Callers : d # c => stage'[d] = stage[d] /\ text'[d] = text[d]
    BY <1>2 DEF CreateAndWait, TypeOK
  <2> QED
    BY <1>2, <2>1, <2>2, <2>3, <2>4, <2>5, <2>6 DEF CreateAndWait
<1> QED
  BY <1>1, <1>2 DEF Send

-----------------------------------------------------------------------------
(* The steps.                                                              *)

LEMMA InitRepl == Init => ReplInv
<1> SUFFICES ASSUME Init PROVE ReplInv
  OBVIOUS
<1>1. /\ log \in [Terminals -> Seq([text : Texts, by : Callers])]
      /\ waiters \in Seq(Selections) /\ Len(waiters) = 0
  BY EmptySeq DEF Init
<1>2. ServiceTyped /\ PromisesTyped
  BY <1>1, CallersAssumption DEF Init, ServiceTyped, PromisesTyped, Stages
<1>3. OneTerminal /\ TerminalsMove
  BY DEF Init, OneTerminal, TerminalsMove, Own
<1>4. CodeReachesRepl
  <2>1. \A t \in Terminals : Len(log[t]) = 0
    BY EmptySeq DEF Init
  <2> QED
    BY <2>1 DEF CodeReachesRepl
<1>5. PromiseIsKept /\ AwaitedIsKept /\ StartedBegan /\ FilesRun
  BY DEF Init, PromiseIsKept, AwaitedIsKept, StartedBegan, FilesRun, Active, Began, Callers
<1>6. WaitersWait
  BY <1>1 DEF WaitersWait
<1> QED
  BY <1>2, <1>3, <1>4, <1>5, <1>6, InvariantSplit DEF ReplInv, Service

LEMMA RunFileKeeps ==
    ASSUME ReplInv, NEW c \in Files, RunFile(c) PROVE ReplInv'
<1> USE DEF ReplInv
<1>1. c \in Callers /\ c \notin Selections
  BY CallersAssumption DEF Callers
<1>2. /\ Service' /\ CodeReachesRepl'
      /\ \A d \in Callers : d # c => stage'[d] = stage[d] /\ text'[d] = text[d]
      /\ \/ /\ terminal # None /\ UNCHANGED <<terminal, open, text>>
            /\ stage'[c] = "sent" /\ (HasRepl => HasRepl')
         \/ /\ terminal = None /\ terminal' # None /\ text'[c] = "run"
  BY <1>1, SendEffect DEF RunFile, AfterSending
<1>3. UNCHANGED <<promiseVars, disturbed>>
  BY DEF RunFile
<1>4. PromisesTyped'
  BY <1>3, TypeOKSplit DEF TerminalInvariant, PromisesTyped, promiseVars
<1>5. \A d \in Selections : /\ stage'[d] = stage[d] /\ text'[d] = text[d] /\ d \in Callers
                            /\ Active(d)' = Active(d)
  BY <1>1, <1>2 DEF Callers, Active, Began, Ended
<1>6. FilesRun'
  BY <1>2 DEF FilesRun, Callers
<1>7. StartedBegan'
  BY <1>3, <1>4, <1>5 DEF StartedBegan, promiseVars, PromisesTyped
<1>8. WaitersWait'
  <2>1. \A i \in 1..Len(waiters) : waiters[i] \in Selections
    BY ElementOfSeq DEF TerminalInvariant, TypeOK
  <2> QED
    BY <1>3, <1>5, <2>1 DEF WaitersWait, KnowsOwn, promiseVars
<1>9. PromiseIsKept' /\ AwaitedIsKept'
  <2>1. CASE terminal # None
    <3>1. terminal' = terminal /\ open' = open /\ (HasRepl => HasRepl')
      BY <1>2, <2>1
    <3>2. \A d \in Selections : Underway(d) => Underway(d)'
      BY <1>5, <3>1 DEF Underway
    <3>3. replActive # None => replActive \in Selections
      BY <1>3, <1>4 DEF PromisesTyped, promiseVars
    <3>4. PromiseIsKept'
      BY <1>3, <3>1, <3>2, <3>3 DEF PromiseIsKept, promiseVars
    <3>5. AwaitedIsKept'
      BY <1>3, <1>5, <3>1, <3>2 DEF AwaitedIsKept, promiseVars
    <3> QED
      BY <3>4, <3>5
  <2>2. CASE terminal = None
    BY <1>3, <1>5, <2>2 DEF PromiseIsKept, AwaitedIsKept, promiseVars
  <2> QED
    BY <2>1, <2>2
<1> QED
  BY <1>2, <1>4, <1>6, <1>7, <1>8, <1>9 DEF Service, ServiceTyped, PromisesTyped, TerminalInvariant, TypeOK

LEMMA AppendWaiter ==
    ASSUME TypeOK, WaitersWait, NEW c \in Selections, stage[c] = "new",
           waiters' = Append(waiters, c)
    PROVE  /\ waiters' \in Seq(Selections)
           /\ \A i, j \in 1..Len(waiters') : waiters'[i] = waiters'[j] => i = j
           /\ \A i \in 1..Len(waiters') :
                waiters'[i] = c \/ \E j \in 1..Len(waiters) : waiters'[i] = waiters[j]
<1>1. waiters \in Seq(Selections)
  BY DEF TypeOK
<1>2. PICK n \in Nat : n = Len(waiters)
  BY <1>1, LenProperties
<1>3. /\ waiters' \in Seq(Selections) /\ Len(waiters') = n + 1
      /\ \A i \in 1..n : waiters'[i] = waiters[i]
      /\ waiters'[n + 1] = c
  BY <1>1, <1>2, AppendProperties
<1>4. \A i \in 1..n : waiters[i] # c
  BY <1>2 DEF WaitersWait, Active, Began
<1>5. \A i, j \in 1..n : waiters[i] = waiters[j] => i = j
  BY <1>2 DEF WaitersWait
<1>6. \A i \in 1..(n + 1) : i \in 1..n \/ i = n + 1
  BY <1>2
<1> QED
  BY <1>2, <1>3, <1>4, <1>5, <1>6

LEMMA AwaitReplKeeps ==
    ASSUME ReplInv, NEW c \in Selections, AwaitRepl(c) PROVE ReplInv'
<1> USE DEF ReplInv
<1>0. c \in Callers
  BY DEF Callers
<1>1. /\ UNCHANGED <<serviceVars, replActive, started, text, left, disturbed>>
      /\ stage[c] = "new" /\ replActive # None
      /\ waiters' = Append(waiters, c)
      /\ stage' = [stage EXCEPT ![c] = "waiting"]
      /\ awaited' = [awaited EXCEPT ![c] = replActive]
  BY DEF AwaitRepl
<1>2. TypeOK /\ replActive \in Selections
  BY <1>1 DEF TerminalInvariant, TypeOK
<1>3. /\ stage'[c] = "waiting" /\ awaited'[c] = replActive
      /\ \A d \in Callers : d # c => stage'[d] = stage[d] /\ awaited'[d] = awaited[d]
      /\ stage' \in [Callers -> Stages] /\ awaited' \in [Callers -> Selections \union {None}]
  BY <1>0, <1>1, <1>2 DEF TypeOK, Stages
<1>4. /\ waiters' \in Seq(Selections)
      /\ \A i, j \in 1..Len(waiters') : waiters'[i] = waiters'[j] => i = j
      /\ \A i \in 1..Len(waiters') :
            waiters'[i] = c \/ \E j \in 1..Len(waiters) : waiters'[i] = waiters[j]
  BY <1>1, <1>2, AppendWaiter
<1>5. TerminalInvariant'
  BY <1>1, <1>2, <1>3, <1>4
     DEF TerminalInvariant, TypeOK, OneTerminal, TerminalsMove, Own, serviceVars
<1>6. CodeReachesRepl' /\ FilesRun'
  BY <1>1, <1>3 DEF CodeReachesRepl, FilesRun, serviceVars
<1>7. \A d \in Callers : Underway(d) => Underway(d)'
  BY <1>1, <1>3 DEF Underway, HasRepl, serviceVars
<1>8. PromiseIsKept'
  BY <1>1, <1>2, <1>7 DEF PromiseIsKept, serviceVars, Callers
<1>9. AwaitedIsKept'
  <2> SUFFICES ASSUME NEW d \in Selections, Active(d)', d \notin disturbed
               PROVE  /\ terminal # None /\ awaited'[d] \in Selections
                      /\ stage'[d] = "activating" => text[d] = "repl"
                      /\ terminal \in open => Underway(awaited[d])'
    BY <1>1 DEF AwaitedIsKept, serviceVars
  <2>1. CASE d = c
    BY <1>1, <1>2, <1>3, <1>7, <2>1 DEF PromiseIsKept, Callers
  <2>2. CASE d # c
    <3>1. Active(d) /\ d \in Callers
      BY <1>3, <2>2 DEF Active, Began, Ended, Callers
    <3> QED
      BY <1>3, <1>7, <2>2, <3>1 DEF AwaitedIsKept, Callers
  <2> QED
    BY <2>1, <2>2
<1>10. StartedBegan'
  BY <1>1, <1>2, <1>3 DEF StartedBegan, TypeOK, Callers
<1>11. WaitersWait'
  <2>1. Active(c)' /\ KnowsOwn(c)'
    BY <1>3 DEF Active, Began, Ended, KnowsOwn
  <2>2. \A i \in 1..Len(waiters) :
          waiters[i] \in Callers /\ waiters[i] # c /\ Active(waiters[i]) /\ KnowsOwn(waiters[i])
    BY <1>1, <1>2, ElementOfSeq DEF WaitersWait, TypeOK, Callers, Active, Began
  <2>3. ASSUME NEW d \in Callers, d # c, Active(d), KnowsOwn(d) PROVE Active(d)' /\ KnowsOwn(d)'
    BY <1>1, <1>3, <2>3 DEF Active, Began, Ended, KnowsOwn
  <2>4. ASSUME NEW i \in 1..Len(waiters')
        PROVE  Active(waiters[i])' /\ KnowsOwn(waiters[i])'
    BY <1>4, <2>1, <2>2, <2>3 DEF Active, Began, Ended, KnowsOwn
  <2> QED
    BY <1>4, <2>4 DEF WaitersWait, Active, Began, Ended, KnowsOwn
<1> QED
  BY <1>5, <1>6, <1>8, <1>9, <1>10, <1>11

LEMMA StartReplKeeps ==
    ASSUME ReplInv, NEW c \in Selections, StartRepl(c) PROVE ReplInv'
<1> USE DEF ReplInv
<1>0. c \in Callers
  BY DEF Callers
<1>1. /\ UNCHANGED <<started, disturbed>>
      /\ stage[c] = "new" /\ replActive = None /\ replActive' = c
      /\ waiters' = Append(waiters, c)
      /\ awaited' = [awaited EXCEPT ![c] = c]
  BY DEF StartRepl
<1>2. TypeOK
  BY DEF TerminalInvariant
<1>3. /\ Service' /\ CodeReachesRepl'
      /\ \A d \in Callers : d # c => stage'[d] = stage[d] /\ text'[d] = text[d]
      /\ \/ /\ terminal # None /\ UNCHANGED <<terminal, open, text>>
            /\ stage'[c] = "starting"
            /\ HasRepl => HasRepl'
            /\ terminal \in open => HasRepl'
         \/ /\ terminal = None /\ terminal' # None
            /\ stage'[c] = "activating" /\ text'[c] = "repl"
  BY <1>0, SendEffect DEF StartRepl, AfterSending
<1>4. /\ waiters' \in Seq(Selections)
      /\ \A i, j \in 1..Len(waiters') : waiters'[i] = waiters'[j] => i = j
      /\ \A i \in 1..Len(waiters') :
            waiters'[i] = c \/ \E j \in 1..Len(waiters) : waiters'[i] = waiters[j]
  BY <1>1, <1>2, AppendWaiter
<1>5. /\ awaited'[c] = c /\ awaited' \in [Callers -> Selections \union {None}]
      /\ \A d \in Callers : d # c => awaited'[d] = awaited[d]
  BY <1>0, <1>1, <1>2 DEF TypeOK
<1>6. PromisesTyped'
  BY <1>1, <1>2, <1>4, <1>5 DEF TypeOK, PromisesTyped
<1>7. FilesRun'
  BY <1>3, CallersAssumption DEF FilesRun, Callers
<1>8. c \notin started /\ StartedBegan'
  BY <1>1, <1>2, <1>3 DEF StartedBegan, TypeOK, Callers
<1>9. Underway(c)' \/ terminal' \notin open'
  BY <1>3 DEF Underway
<1>10. PromiseIsKept'
  BY <1>1, <1>3, <1>9 DEF PromiseIsKept
<1>11. AwaitedIsKept'
  <2> SUFFICES ASSUME NEW d \in Selections, Active(d)', d \notin disturbed
               PROVE  /\ terminal' # None /\ awaited'[d] \in Selections
                      /\ stage'[d] = "activating" => text'[d] = "repl"
                      /\ terminal' \in open' => Underway(awaited[d])'
    BY <1>1 DEF AwaitedIsKept
  <2>1. CASE d = c
    BY <1>3, <1>5, <1>9, <2>1
  <2>2. CASE d # c
    <3>1. Active(d) /\ d \in Callers
      BY <1>3, <2>2 DEF Active, Began, Ended, Callers
    <3>2. /\ terminal # None /\ awaited[d] \in Selections
          /\ stage[d] = "activating" => text[d] = "repl"
          /\ terminal \in open => Underway(awaited[d])
      BY <3>1 DEF AwaitedIsKept
    <3>3. /\ terminal' = terminal /\ open' = open /\ (HasRepl => HasRepl')
          /\ stage'[d] = stage[d] /\ text'[d] = text[d] /\ awaited'[d] = awaited[d]
      BY <1>3, <1>5, <2>2, <3>1, <3>2
    <3>4. terminal \in open => HasRepl'
      BY <1>3, <3>2
    <3> QED
      BY <3>2, <3>3, <3>4 DEF Underway
  <2> QED
    BY <2>1, <2>2
<1>12. WaitersWait'
  <2>1. Active(c)' /\ KnowsOwn(c)'
    BY <1>3, <1>5 DEF Active, Began, Ended, KnowsOwn
  <2>2. \A i \in 1..Len(waiters) :
          waiters[i] \in Callers /\ waiters[i] # c /\ Active(waiters[i]) /\ KnowsOwn(waiters[i])
    BY <1>1, <1>2, ElementOfSeq DEF WaitersWait, TypeOK, Callers, Active, Began
  <2>3. ASSUME NEW d \in Callers, d # c, Active(d), KnowsOwn(d) PROVE Active(d)' /\ KnowsOwn(d)'
    BY <1>3, <1>5, <2>3 DEF Active, Began, Ended, KnowsOwn
  <2>4. ASSUME NEW i \in 1..Len(waiters')
        PROVE  Active(waiters[i])' /\ KnowsOwn(waiters[i])'
    BY <1>4, <2>1, <2>2, <2>3 DEF Active, Began, Ended, KnowsOwn
  <2> QED
    BY <1>4, <2>4 DEF WaitersWait, Active, Began, Ended, KnowsOwn
<1> QED
  BY <1>3, <1>6, <1>7, <1>8, <1>10, <1>11, <1>12
     DEF Service, ServiceTyped, PromisesTyped, TerminalInvariant, TypeOK

\* A step that keeps the service, and moves c on without ending it.
LEMMA StageKeeps ==
    ASSUME ReplInv, NEW c \in Callers, NEW s \in {"waiting", "failed"},
           stage' = [stage EXCEPT ![c] = s], Active(c),
           c \in Selections => (terminal = None \/ stage[c] = "starting"),
           \A i \in 1..Len(waiters) : waiters[i] = c => s = "waiting",
           started' = started \/ (started' = started \union {c} /\ s = "waiting" /\ c \in Selections),
           UNCHANGED <<serviceVars, replActive, waiters, awaited, text, left, disturbed>>
    PROVE  ReplInv'
<1> USE DEF ReplInv
<1>1. TypeOK
  BY DEF TerminalInvariant
<1>2. /\ stage'[c] = s /\ stage' \in [Callers -> Stages]
      /\ \A d \in Callers : d # c => stage'[d] = stage[d]
  BY <1>1 DEF TypeOK, Stages
<1>3. TerminalInvariant'
  BY <1>1, <1>2 DEF TerminalInvariant, TypeOK, OneTerminal, TerminalsMove, Own, serviceVars
<1>4. CodeReachesRepl' /\ FilesRun'
  BY <1>2 DEF CodeReachesRepl, FilesRun, serviceVars
<1>5. ASSUME NEW d \in Callers, terminal # None, Underway(d) PROVE Underway(d)'
  <2>1. CASE d # c
    BY <1>2, <1>5, <2>1 DEF Underway, HasRepl, serviceVars
  <2>2. CASE d = c
    <3>1. HasRepl \/ c \in Selections
      BY <1>5, <2>2, CallersAssumption DEF Underway, FilesRun, Callers, Texts
    <3>2. HasRepl
      BY <1>5, <2>2, <3>1 DEF Underway
    <3> QED
      BY <3>2 DEF Underway, HasRepl, serviceVars
  <2> QED
    BY <2>1, <2>2
<1>6. PromiseIsKept'
  BY <1>1, <1>5 DEF PromiseIsKept, serviceVars, TypeOK, Callers
<1>7. AwaitedIsKept'
  <2> SUFFICES ASSUME NEW d \in Selections, Active(d)', d \notin disturbed
               PROVE  /\ terminal # None /\ awaited[d] \in Selections
                      /\ stage'[d] = "activating" => text[d] = "repl"
                      /\ terminal \in open => Underway(awaited[d])'
    BY DEF AwaitedIsKept, serviceVars
  <2>1. Active(d)
    BY <1>2 DEF Active, Began, Ended, Callers
  <2>2. /\ terminal # None /\ awaited[d] \in Selections
        /\ stage[d] = "activating" => text[d] = "repl"
        /\ terminal \in open => Underway(awaited[d])
    BY <2>1 DEF AwaitedIsKept
  <2>3. terminal \in open => Underway(awaited[d])'
    <3>1. awaited' = awaited
      OBVIOUS
    <3> QED
      BY <1>5, <2>2, <3>1 DEF Callers
  <2> QED
    BY <1>2, <2>2, <2>3 DEF Callers
<1>8. StartedBegan'
  BY <1>1, <1>2 DEF StartedBegan, TypeOK, Callers
<1>9. WaitersWait'
  <2>1. ASSUME NEW i \in 1..Len(waiters)
        PROVE  Active(waiters[i])' /\ KnowsOwn(waiters[i])'
    <3>1. waiters[i] \in Callers
      BY <1>1, ElementOfSeq DEF TypeOK, Callers
    <3>2. Active(waiters[i]) /\ KnowsOwn(waiters[i])
      BY DEF WaitersWait
    <3> QED
      BY <1>2, <3>1, <3>2 DEF Active, Began, Ended, KnowsOwn
  <2> QED
    BY <2>1 DEF WaitersWait, Active, Began, Ended, KnowsOwn
<1> QED
  BY <1>3, <1>4, <1>6, <1>7, <1>8, <1>9

LEMMA ReplStartedKeeps ==
    ASSUME ReplInv, NEW c \in Selections, ReplStarted(c) PROVE ReplInv'
<1>1. c \in Callers /\ Active(c)
  BY DEF ReplStarted, Callers, Active, Began, Ended
<1> QED
  BY <1>1, StageKeeps DEF ReplStarted

LEMMA ActivationFailsKeeps ==
    ASSUME ReplInv, NEW c \in Callers, ActivationFails(c) PROVE ReplInv'
<1> DEFINE s == IF text[c] = "repl" THEN "waiting" ELSE "failed"
<1>1. Active(c) /\ terminal = None /\ stage' = [stage EXCEPT ![c] = s]
  BY DEF ActivationFails, Active, Began, Ended
<1>2. \A i \in 1..Len(waiters) : waiters[i] = c => s = "waiting"
  BY DEF ReplInv, WaitersWait, KnowsOwn, ActivationFails
<1>3. started' = started /\ UNCHANGED <<serviceVars, replActive, waiters, awaited, text, left, disturbed>>
  BY DEF ActivationFails, promiseVars
<1>4. s \in {"waiting", "failed"}
  OBVIOUS
<1> HIDE DEF s
<1> QED
  BY <1>1, <1>2, <1>3, <1>4, StageKeeps

LEMMA ActivateKeeps ==
    ASSUME ReplInv, NEW c \in Callers, Activate(c) PROVE ReplInv'
<1> USE DEF ReplInv
<1>1. /\ terminal # None /\ log' = Logged(c, "activate") /\ left[c] > 0
      /\ left' = [left EXCEPT ![c] = @ - 1]
      /\ UNCHANGED <<terminal, unused, open, closing, promiseVars, stage, text, disturbed>>
  BY DEF Activate
<1>2. TypeOK /\ terminal \in Terminals
  BY <1>1 DEF TerminalInvariant, TypeOK
<1>3. /\ log' \in [Terminals -> Seq([text : Texts, by : Callers])]
      /\ CodeReachesRepl' /\ (HasRepl => HasRepl')
  BY <1>1, <1>2, LogGrows DEF Texts
<1>4. left' \in [Callers -> 0..Activations]
  BY <1>1, <1>2, CallersAssumption DEF TypeOK
<1>5. TerminalInvariant'
  BY <1>1, <1>2, <1>3, <1>4 DEF TerminalInvariant, TypeOK, OneTerminal, TerminalsMove, Own, promiseVars
<1>6. \A p \in Callers : Underway(p) => Underway(p)'
  BY <1>1, <1>3 DEF Underway
<1>7. PromiseIsKept' /\ AwaitedIsKept'
  BY <1>1, <1>2, <1>6 DEF PromiseIsKept, AwaitedIsKept, Active, Began, Ended, promiseVars, TypeOK, Callers
<1>8. StartedBegan' /\ FilesRun' /\ WaitersWait'
  BY <1>1 DEF StartedBegan, FilesRun, WaitersWait, Active, Began, Ended, KnowsOwn, promiseVars
<1> QED
  BY <1>3, <1>5, <1>7, <1>8

\* A caller sends what it has to: everything but the caller's own stage is as for
\* a text that is logged.
LEMMA ActivatedKeeps ==
    ASSUME ReplInv, NEW c \in Callers, Activated(c) PROVE ReplInv'
<1> USE DEF ReplInv
<1>1. /\ stage[c] = "activating" /\ SendNow(c, text[c])
      /\ UNCHANGED <<promiseVars, disturbed>>
  BY DEF Activated
<1>2. TypeOK /\ terminal \in Terminals
  BY <1>1 DEF TerminalInvariant, TypeOK, SendNow
<1>3. (terminal \in open /\ text[c] = "code" /\ c \notin disturbed) => HasRepl
  <2>1. text[c] = "code" => c \in Selections
    BY CallersAssumption DEF FilesRun, Callers, Texts
  <2>2. Active(c)
    BY <1>1 DEF Active, Began, Ended
  <2> QED
    BY <1>1, <2>1, <2>2 DEF AwaitedIsKept
<1>4. text[c] \in {"run", "repl", "code"}
  BY <1>1 DEF FilesRun
<1>5. /\ Service' /\ CodeReachesRepl'
      /\ \A d \in Callers : d # c => stage'[d] = stage[d] /\ text'[d] = text[d]
      /\ UNCHANGED <<terminal, open, text>>
      /\ stage'[c] = AfterSending(text[c])
      /\ HasRepl => HasRepl'
      /\ (terminal \in open /\ text[c] = "repl") => HasRepl'
  BY <1>1, <1>2, <1>3, <1>4, SendEffect DEF Send, SendNow
<1>6. stage'[c] = (IF text[c] = "repl" THEN "starting" ELSE "sent")
  BY <1>5 DEF AfterSending
<1>7. PromisesTyped'
  BY <1>1, <1>2 DEF TypeOK, PromisesTyped, promiseVars
<1>8. \A p \in Callers : terminal \in open /\ Underway(p) => Underway(p)'
  BY <1>5 DEF Underway
<1>9. PromiseIsKept'
  BY <1>1, <1>2, <1>5, <1>8 DEF PromiseIsKept, promiseVars, TypeOK, Callers
<1>10. AwaitedIsKept'
  <2> SUFFICES ASSUME NEW d \in Selections, Active(d)', d \notin disturbed
               PROVE  /\ terminal # None /\ awaited[d] \in Selections
                      /\ stage'[d] = "activating" => text[d] = "repl"
                      /\ terminal \in open => Underway(awaited[d])'
    BY <1>1, <1>5 DEF AwaitedIsKept, promiseVars
  <2>1. Active(d)
    BY <1>1, <1>5 DEF Active, Began, Ended, Callers
  <2>2. awaited' = awaited
    BY <1>1 DEF promiseVars
  <2> QED
    BY <1>5, <1>6, <1>8, <2>1, <2>2 DEF AwaitedIsKept, Callers
<1>11. StartedBegan'
  BY <1>1, <1>2, <1>5, <1>6 DEF StartedBegan, promiseVars, TypeOK, Callers
<1>12. FilesRun'
  BY <1>5, <1>6 DEF FilesRun
<1>13. WaitersWait'
  <2>1. ASSUME NEW i \in 1..Len(waiters)
        PROVE  Active(waiters[i])' /\ KnowsOwn(waiters[i])'
    <3>1. waiters[i] \in Callers /\ waiters' = waiters
      BY <1>1, <1>2, ElementOfSeq DEF TypeOK, Callers, promiseVars
    <3>2. Active(waiters[i]) /\ KnowsOwn(waiters[i])
      BY DEF WaitersWait
    <3> QED
      BY <1>1, <1>5, <1>6, <3>1, <3>2 DEF Active, Began, Ended, KnowsOwn, promiseVars
  <2> QED
    BY <1>1, <1>5, <2>1 DEF WaitersWait, Active, Began, Ended, KnowsOwn, promiseVars
<1> QED
  BY <1>5, <1>7, <1>9, <1>10, <1>11, <1>12, <1>13
     DEF Service, ServiceTyped, PromisesTyped, TerminalInvariant, TypeOK

LEMMA ResumeKeeps ==
    ASSUME ReplInv, Resume PROVE ReplInv'
<1> USE DEF ReplInv
<1>0. TypeOK
  BY DEF TerminalInvariant
<1>1. PICK k \in 1..Len(waiters) : /\ awaited[waiters[k]] \in started
                                  /\ waiters' = RemoveAt(waiters, k)
                                  /\ Send(waiters[k], "code")
  BY DEF Resume, Resumable
<1> DEFINE c == waiters[k]
<1>2. c \in Selections /\ c \in Callers
  BY <1>0, ElementOfSeq DEF TypeOK, Callers
<1>3. Active(c)
  BY DEF WaitersWait
<1> HIDE DEF c
<1>4. UNCHANGED <<replActive, started, awaited, disturbed>>
  BY DEF Resume
<1>5. c \notin disturbed =>
        /\ terminal # None
        /\ terminal \in open => HasRepl
  BY <1>1, <1>2, <1>3 DEF AwaitedIsKept, StartedBegan, Underway, c
<1>6. /\ Service' /\ CodeReachesRepl'
      /\ \A d \in Callers : d # c => stage'[d] = stage[d] /\ text'[d] = text[d]
      /\ \/ /\ terminal # None /\ UNCHANGED <<terminal, open, text>>
            /\ stage'[c] = "sent"
            /\ HasRepl => HasRepl'
         \/ /\ terminal = None /\ terminal' # None
            /\ stage'[c] = "activating" /\ text'[c] = "code"
  BY <1>1, <1>2, <1>4, <1>5, SendEffect DEF AfterSending, c
<1>7. /\ waiters' \in Seq(Selections)
      /\ Len(waiters') = Len(waiters) - 1
      /\ \A j \in 1..Len(waiters) - 1 :
            waiters'[j] = IF j < k THEN waiters[j] ELSE waiters[j + 1]
  BY <1>0, <1>1, RemoveAtProperties DEF TypeOK
<1>8. PromisesTyped'
  BY <1>0, <1>4, <1>7 DEF TypeOK, PromisesTyped
<1>9. ~(stage[c] = "activating" /\ text[c] = "repl")
  BY <1>1, <1>2 DEF WaitersWait, KnowsOwn, StartedBegan, c
<1>10. ASSUME NEW p \in Callers, terminal # None, Underway(p) PROVE Underway(p)'
  BY <1>6, <1>9, <1>10 DEF Underway
<1>11. PromiseIsKept'
  <2>1. CASE terminal = None
    BY <1>4, <2>1 DEF PromiseIsKept
  <2>2. CASE terminal # None
    BY <1>0, <1>4, <1>6, <1>10, <2>2 DEF PromiseIsKept, TypeOK, Callers
  <2> QED
    BY <2>1, <2>2
<1>12. AwaitedIsKept'
  <2> SUFFICES ASSUME NEW d \in Selections, Active(d)', d \notin disturbed
               PROVE  /\ terminal' # None /\ awaited[d] \in Selections
                      /\ stage'[d] = "activating" => text'[d] = "repl"
                      /\ terminal' \in open' => Underway(awaited[d])'
    BY <1>4 DEF AwaitedIsKept
  <2>1. Active(d) /\ d \in Callers
    BY <1>3, <1>6 DEF Active, Began, Ended, Callers
  <2>2. /\ terminal # None /\ awaited[d] \in Selections
        /\ stage[d] = "activating" => text[d] = "repl"
        /\ terminal \in open => Underway(awaited[d])
    BY <2>1 DEF AwaitedIsKept
  <2>3. terminal' = terminal /\ open' = open /\ text' = text /\ stage'[c] = "sent"
    BY <1>6, <2>2
  <2>4. terminal \in open => Underway(awaited[d])'
    BY <1>4, <1>10, <2>2 DEF Callers
  <2> QED
    BY <1>6, <2>1, <2>2, <2>3, <2>4
<1>13. FilesRun'
  BY <1>2, <1>6, CallersAssumption DEF FilesRun, Callers
<1>14. StartedBegan'
  BY <1>0, <1>4, <1>6 DEF StartedBegan, TypeOK, Callers
<1>15. WaitersWait'
  <2>0. Len(waiters) \in Nat /\ k \in 1..Len(waiters)
    BY <1>0, LenProperties DEF TypeOK
  <2>1. ASSUME NEW i \in 1..Len(waiters')
        PROVE  \E j \in 1..Len(waiters) : j # k /\ waiters'[i] = waiters[j] /\ j = (IF i < k THEN i ELSE i + 1)
    BY <1>7, <2>0
  <2>2. ASSUME NEW j \in 1..Len(waiters), j # k
        PROVE  waiters[j] # c /\ waiters[j] \in Callers
    BY <1>0, <2>2, ElementOfSeq DEF WaitersWait, c, TypeOK, Callers
  <2>3. ASSUME NEW i \in 1..Len(waiters')
        PROVE  Active(waiters[i])' /\ KnowsOwn(waiters[i])'
    <3>1. PICK j \in 1..Len(waiters) : j # k /\ waiters'[i] = waiters[j]
      BY <2>1
    <3>2. waiters[j] # c /\ waiters[j] \in Callers
      BY <2>2, <3>1
    <3>3. Active(waiters[j]) /\ KnowsOwn(waiters[j])
      BY DEF WaitersWait
    <3> QED
      BY <1>4, <1>6, <3>1, <3>2, <3>3 DEF Active, Began, Ended, KnowsOwn
  <2>4. ASSUME NEW i1 \in 1..Len(waiters'), NEW i2 \in 1..Len(waiters'), waiters'[i1] = waiters'[i2]
        PROVE  i1 = i2
    <3>1. PICK j1 \in 1..Len(waiters) : waiters'[i1] = waiters[j1] /\ j1 = (IF i1 < k THEN i1 ELSE i1 + 1)
      BY <2>1
    <3>2. PICK j2 \in 1..Len(waiters) : waiters'[i2] = waiters[j2] /\ j2 = (IF i2 < k THEN i2 ELSE i2 + 1)
      BY <2>1
    <3>3. j1 = j2
      BY <2>4, <3>1, <3>2 DEF WaitersWait
    <3> QED
      BY <1>7, <2>0, <3>1, <3>2, <3>3
  <2> QED
    BY <1>4, <2>3, <2>4 DEF WaitersWait, Active, Began, Ended, KnowsOwn
<1> QED
  BY <1>6, <1>8, <1>11, <1>12, <1>13, <1>14, <1>15
     DEF Service, ServiceTyped, PromisesTyped, TerminalInvariant, TypeOK

LEMMA CloseKeeps ==
    ASSUME ReplInv, NEW t \in Terminals \union {Foreign}, Close(t) PROVE ReplInv'
<1> USE DEF ReplInv
<1>0. TypeOK
  BY DEF TerminalInvariant
<1>1. /\ t \in open /\ open' = open \ {t} /\ closing' = closing \union {t}
      /\ disturbed' = IF t = Foreign THEN disturbed ELSE Disturbed
      /\ UNCHANGED <<terminal, unused, log, promiseVars, callVars>>
  BY DEF Close
<1>2. disturbed \subseteq disturbed' /\ disturbed' \subseteq Callers
  BY <1>0, <1>1 DEF Disturbed, TypeOK
<1>3. TerminalInvariant'
  <2>1. TypeOK'
    BY <1>0, <1>1, <1>2 DEF TypeOK, promiseVars, callVars
  <2>2. OneTerminal' /\ TerminalsMove'
    BY <1>1 DEF TerminalInvariant, OneTerminal, TerminalsMove, Own
  <2> QED
    BY <2>1, <2>2 DEF TerminalInvariant
<1>4. CodeReachesRepl'
  BY <1>1, <1>2 DEF CodeReachesRepl
<1>5. \A p \in Callers : Underway(p)' = Underway(p)
  BY <1>1 DEF Underway, HasRepl, callVars
<1>6. PromiseIsKept' /\ AwaitedIsKept'
  BY <1>0, <1>1, <1>2, <1>5
     DEF PromiseIsKept, AwaitedIsKept, Active, Began, Ended, promiseVars, callVars, TypeOK, Callers
<1>7. StartedBegan' /\ FilesRun' /\ WaitersWait'
  BY <1>1 DEF StartedBegan, FilesRun, WaitersWait, Active, Began, Ended, KnowsOwn, promiseVars, callVars
<1> QED
  BY <1>3, <1>4, <1>6, <1>7

LEMMA ClosedKeeps ==
    ASSUME ReplInv, NEW t \in Terminals \union {Foreign}, Closed(t) PROVE ReplInv'
<1> USE DEF ReplInv
<1>0. TypeOK
  BY DEF TerminalInvariant
<1>1. /\ t \in closing /\ closing' = closing \ {t}
      /\ terminal' = IF Closes(t) THEN None ELSE terminal
      /\ replActive' = IF Closes(t) THEN None ELSE replActive
      /\ disturbed' = IF Closes(t) THEN Disturbed ELSE disturbed
      /\ UNCHANGED <<unused, open, log, started, waiters, awaited, callVars>>
  BY DEF Closed, ReplAfterClose
<1>2. disturbed \subseteq disturbed' /\ disturbed' \subseteq Callers
  BY <1>0, <1>1 DEF Disturbed, TypeOK
<1>3. TerminalInvariant'
  <2>1. TypeOK'
    BY <1>0, <1>1, <1>2 DEF TypeOK, callVars
  <2>2. OneTerminal' /\ TerminalsMove'
    BY <1>1, CallersAssumption DEF TerminalInvariant, OneTerminal, TerminalsMove, Own, Closes
  <2> QED
    BY <2>1, <2>2 DEF TerminalInvariant
<1>4. CodeReachesRepl'
  BY <1>1, <1>2 DEF CodeReachesRepl
<1>5. CASE Closes(t)
  <2>1. terminal' = None /\ replActive' = None /\ disturbed' = Disturbed
    BY <1>1, <1>5
  <2>2. \A c \in Selections : Active(c)' => c \in disturbed'
    BY <1>1, <2>1 DEF Disturbed, Active, Began, Ended, callVars, Callers
  <2> QED
    BY <1>1, <1>3, <1>4, <2>1, <2>2
       DEF PromiseIsKept, AwaitedIsKept, StartedBegan, FilesRun, WaitersWait, Active, Began, Ended, KnowsOwn, callVars
<1>6. CASE ~Closes(t)
  <2>1. terminal' = terminal /\ replActive' = replActive /\ disturbed' = disturbed
    BY <1>1, <1>6
  <2>2. \A p \in Callers : Underway(p)' = Underway(p)
    BY <1>1, <2>1 DEF Underway, HasRepl, callVars
  <2>3. PromiseIsKept' /\ AwaitedIsKept'
    BY <1>0, <1>1, <2>1, <2>2
       DEF PromiseIsKept, AwaitedIsKept, Active, Began, Ended, callVars, TypeOK, Callers
  <2> QED
    BY <1>1, <1>3, <1>4, <2>1, <2>3
       DEF StartedBegan, FilesRun, WaitersWait, Active, Began, Ended, KnowsOwn, callVars
<1> QED
  BY <1>5, <1>6

LEMMA NextRepl ==
    ASSUME ReplInv, [Next]_vars PROVE ReplInv'
<1>1. CASE UNCHANGED vars
  <2> USE <1>1 DEF vars, serviceVars, promiseVars, callVars
  <2>1. TerminalInvariant'
    BY DEF ReplInv, TerminalInvariant, TypeOK, OneTerminal, TerminalsMove
  <2>2. PromiseIsKept' /\ AwaitedIsKept'
    BY DEF ReplInv, PromiseIsKept, AwaitedIsKept, Underway, HasRepl, Active, Began, Ended
  <2>3. StartedBegan' /\ FilesRun' /\ WaitersWait'
    BY DEF ReplInv, StartedBegan, FilesRun, WaitersWait, Active, Began, Ended, KnowsOwn
  <2>4. CodeReachesRepl'
    BY DEF ReplInv, CodeReachesRepl
  <2> QED
    BY <2>1, <2>2, <2>3, <2>4 DEF ReplInv
<1> QED
  BY <1>1, RunFileKeeps, AwaitReplKeeps, StartReplKeeps, ReplStartedKeeps, ResumeKeeps,
     ActivateKeeps, ActivatedKeeps, ActivationFailsKeeps, CloseKeeps, ClosedKeeps
     DEF Next

\* The service knows the one terminal of its own that is open, for any number of
\* calls, terminals and activation commands.
THEOREM TerminalCorrect == Spec => []TerminalInvariant
<1>1. ReplInv => TerminalInvariant
  BY DEF ReplInv
<1> QED
  BY <1>1, InitRepl, NextRepl, PTL DEF Spec

\* Code reaches a terminal in which Python was started, unless a terminal was closed
\* between the call and the code.
THEOREM CodeCorrect == Spec => []CodeReachesRepl
<1>1. ReplInv => CodeReachesRepl
  BY DEF ReplInv
<1> QED
  BY <1>1, InitRepl, NextRepl, PTL DEF Spec
=============================================================================
