------------------------- MODULE DebugAdapterProofs -------------------------
(***************************************************************************)
(* Proofs about the debug adapter.  PythonProcess: whatever the number of  *)
(* commands and the order of their answers, ids are never shared or lost,  *)
(* answers reach their asker, and the queue of evaluations never stalls.   *)
(* DebugSession: whatever the files, lines and number of requests and      *)
(* however events, reactions and messages interleave, no request is        *)
(* forgotten, and when the requests of a file do not overlap the editor,   *)
(* the adapter and the program agree on its breakpoints.                   *)
(***************************************************************************)
EXTENDS PythonProcess, DebugSession, SequenceTheorems, FiniteSetTheorems, TLAPS

-----------------------------------------------------------------------------
(* Sequences.                                                              *)

\* A suffix that starts after the n-th element.
LEMMA SuffixProperties ==
    ASSUME NEW S, NEW q \in Seq(S), NEW n \in 0 .. Len(q)
    PROVE  /\ SubSeq(q, n + 1, Len(q)) \in Seq(S)
           /\ Len(SubSeq(q, n + 1, Len(q))) = Len(q) - n
           /\ \A i \in 1 .. Len(q) - n : SubSeq(q, n + 1, Len(q))[i] = q[i + n]
<1>1. Len(q) \in Nat
  BY LenProperties
<1>2. \A i \in n + 1 .. Len(q) : q[i] \in S
  BY <1>1, ElementOfSeq
<1> QED
  BY <1>1, <1>2, SubSeqProperties

\* The first n elements.
LEMMA PrefixProperties ==
    ASSUME NEW S, NEW q \in Seq(S), NEW n \in 0 .. Len(q)
    PROVE  /\ SubSeq(q, 1, n) \in Seq(S)
           /\ Len(SubSeq(q, 1, n)) = n
           /\ \A i \in 1 .. n : SubSeq(q, 1, n)[i] = q[i]
<1>1. Len(q) \in Nat
  BY LenProperties
<1>2. \A i \in 1 .. n : q[i] \in S
  BY <1>1, ElementOfSeq
<1>3. /\ SubSeq(q, 1, n) \in Seq(S)
      /\ Len(SubSeq(q, 1, n)) = IF 1 <= n THEN n - 1 + 1 ELSE 0
      /\ \A i \in 1 .. n - 1 + 1 : SubSeq(q, 1, n)[i] = q[1 + i - 1]
  BY <1>1, <1>2, SubSeqProperties
<1> QED
  BY <1>1, <1>3

\* The elements of a concatenation, by its own length.
LEMMA ConcatElements ==
    ASSUME NEW S, NEW p \in Seq(S), NEW q \in Seq(S)
    PROVE  /\ p \o q \in Seq(S)
           /\ Len(p \o q) = Len(p) + Len(q)
           /\ \A i \in 1 .. Len(p \o q) :
                 (p \o q)[i] = IF i <= Len(p) THEN p[i] ELSE q[i - Len(p)]
<1>1. /\ p \o q \in Seq(S)
      /\ Len(p \o q) = Len(p) + Len(q)
      /\ \A i \in 1 .. Len(p) + Len(q) :
            (p \o q)[i] = IF i <= Len(p) THEN p[i] ELSE q[i - Len(p)]
  BY ConcatProperties
<1> QED
  BY <1>1

-----------------------------------------------------------------------------
(* What the argument is about.                                             *)

Tokens == (Commands \union Range(Greeting)) \X {1, 2}

\* What the program wrote and the adapter has not handled.
stream == buffer \o wire

\* A stream of frames, for commands that were answered and not handled: no token
\* comes twice.
Streams(s, p) ==
    /\ \A i \in 1 .. Len(s) : s[i][1] \in Commands => p[s[i][1]] = "answered"
    /\ \A i, j \in 1 .. Len(s) : s[i] = s[j] => i = j

\* The ids below n are free, or held by one holder each.
Dispenses(freed, n, ids, holders) ==
    /\ \A i, j \in 1 .. Len(freed) : freed[i] = freed[j] => i = j
    /\ \A c, d \in holders : ids[c] = ids[d] => c = d
    /\ \A c \in holders : \A i \in 1 .. Len(freed) : ids[c] # freed[i]
    /\ \A i \in 1 .. Len(freed) : freed[i] \in 0 .. n - 1
    /\ \A c \in holders : ids[c] \in 0 .. n - 1
    /\ \A k \in 0 .. n - 1 : (\E i \in 1 .. Len(freed) : freed[i] = k)
                                \/ (\E c \in holders : ids[c] = k)

\* Evaluations: asked one at a time, and asked while there is one.
Evaluates(queue, pending, p) ==
    /\ pending = {c \in Executions : p[c] \in {"asked", "answered"}}
    /\ \A c, d \in pending : c = d
    /\ \A c \in Executions : p[c] = "queued" <=> \E i \in 1 .. Len(queue) : queue[i] = c
    /\ \A i, j \in 1 .. Len(queue) : queue[i] = queue[j] => i = j
    /\ queue # <<>> => pending # {}

HoldingIn(p) == {c \in Commands : p[c] \in {"queued", "asked", "answered"}}

\* The inductive invariant.
Inv ==
    /\ TypeOK
    /\ Streams(stream, progress)
    /\ Dispenses(freedInts, curValue, id, HoldingIn(progress))
    /\ Evaluates(executeCommandsQueue, PendingExecuteCommands, progress)
    /\ \A e \in PendingChildEnumCommands : progress[e] \in {"asked", "answered"}
    /\ AnswersReachTheirAsker

-----------------------------------------------------------------------------
(* The dispenser.                                                          *)

\* What is freed was held: then everything is still dispensed.
LEMMA FreeDispenses ==
    ASSUME NEW freed \in Seq(Nat), NEW n \in Nat, NEW ids \in [Commands -> Nat],
           NEW H \in SUBSET Commands, Dispenses(freed, n, ids, H), NEW c \in H,
           NEW freed2, NEW n2,
           ids[c] + 1 = n => n2 = n - 1 /\ freed2 = freed,
           ids[c] + 1 # n => n2 = n /\ freed2 = Append(freed, ids[c])
    PROVE  /\ freed2 \in Seq(Nat) /\ n2 \in Nat
           /\ Dispenses(freed2, n2, ids, H \ {c})
<1>1. ids[c] \in 0 .. n - 1
  BY DEF Dispenses
<1>2. Len(freed) \in Nat
  BY LenProperties
<1>3. CASE ids[c] + 1 = n
  <2>1. n2 = n - 1 /\ freed2 = freed /\ n2 \in Nat
    BY <1>1, <1>3
  <2>2. \A i \in 1 .. Len(freed) : freed[i] \in 0 .. n2 - 1
    BY <1>1, <1>3, <2>1, ElementOfSeq DEF Dispenses
  <2>3. \A d \in H \ {c} : ids[d] \in 0 .. n2 - 1
    BY <1>1, <1>3, <2>1 DEF Dispenses
  <2>4. \A k \in 0 .. n2 - 1 : (\E i \in 1 .. Len(freed) : freed[i] = k)
                                 \/ (\E d \in H \ {c} : ids[d] = k)
    <3> SUFFICES ASSUME NEW k \in 0 .. n2 - 1
                 PROVE  (\E i \in 1 .. Len(freed) : freed[i] = k)
                          \/ (\E d \in H \ {c} : ids[d] = k)
      OBVIOUS
    <3>1. k \in 0 .. n - 1 /\ k # ids[c]
      BY <1>1, <1>3, <2>1
    <3> QED
      BY <3>1 DEF Dispenses
  <2>5. /\ \A i, j \in 1 .. Len(freed) : freed[i] = freed[j] => i = j
        /\ \A d, e \in H \ {c} : ids[d] = ids[e] => d = e
        /\ \A d \in H \ {c} : \A i \in 1 .. Len(freed) : ids[d] # freed[i]
    BY DEF Dispenses
  <2> HIDE <1>3
  <2> QED
    BY <2>1, <2>2, <2>3, <2>4, <2>5 DEF Dispenses
<1>4. CASE ids[c] + 1 # n
  <2>1. n2 = n /\ freed2 = Append(freed, ids[c])
    BY <1>4
  <2>2. /\ freed2 \in Seq(Nat)
        /\ Len(freed2) = Len(freed) + 1
        /\ \A i \in 1 .. Len(freed) : freed2[i] = freed[i]
        /\ freed2[Len(freed) + 1] = ids[c]
    BY <2>1, AppendProperties
  <2> HIDE <1>4
  <2>0. \A i \in 1 .. Len(freed2) : i \in 1 .. Len(freed) \/ i = Len(freed) + 1
    BY <1>2, <2>2
  <2>3. \A i, j \in 1 .. Len(freed2) : freed2[i] = freed2[j] => i = j
    <3>1. /\ \A i, j \in 1 .. Len(freed) : freed[i] = freed[j] => i = j
          /\ \A i \in 1 .. Len(freed) : freed[i] # ids[c]
      BY DEF Dispenses
    <3> QED
      BY <2>0, <2>2, <3>1
  <2>4. \A d \in H \ {c} : \A i \in 1 .. Len(freed2) : ids[d] # freed2[i]
    <3>1. /\ \A d \in H : ids[d] = ids[c] => d = c
          /\ \A d \in H : \A i \in 1 .. Len(freed) : ids[d] # freed[i]
      BY DEF Dispenses
    <3> QED
      BY <2>0, <2>2, <3>1
  <2>5. \A i \in 1 .. Len(freed2) : freed2[i] \in 0 .. n2 - 1
    BY <1>1, <1>2, <2>1, <2>2 DEF Dispenses
  <2>6. \A k \in 0 .. n2 - 1 : (\E i \in 1 .. Len(freed2) : freed2[i] = k)
                                 \/ (\E d \in H \ {c} : ids[d] = k)
    <3> SUFFICES ASSUME NEW k \in 0 .. n2 - 1
                 PROVE  (\E i \in 1 .. Len(freed2) : freed2[i] = k)
                          \/ (\E d \in H \ {c} : ids[d] = k)
      OBVIOUS
    <3>1. CASE \E i \in 1 .. Len(freed) : freed[i] = k
      BY <1>2, <2>2, <3>1
    <3>2. CASE \E d \in H : ids[d] = k
      <4>1. PICK d \in H : ids[d] = k
        BY <3>2
      <4>2. CASE d = c
        BY <1>2, <2>2, <4>1, <4>2, SMTT(60)
      <4>3. CASE d # c
        BY <4>1, <4>3
      <4> QED
        BY <4>2, <4>3
    <3> QED
      BY <2>1, <3>1, <3>2 DEF Dispenses
  <2>7. \A d \in H \ {c} : ids[d] \in 0 .. n2 - 1
    BY <2>1 DEF Dispenses
  <2>8. \A d, e \in H \ {c} : ids[d] = ids[e] => d = e
    BY DEF Dispenses
  <2> QED
    BY <2>1, <2>2, <2>3, <2>4, <2>5, <2>6, <2>7, <2>8 DEF Dispenses
<1> QED
  BY <1>3, <1>4

\* A command that holds no id gets one that nobody holds.
LEMMA AllocateDispenses ==
    ASSUME freedInts \in Seq(Nat), curValue \in Nat, id \in [Commands -> Nat],
           NEW H \in SUBSET Commands, Dispenses(freedInts, curValue, id, H),
           NEW c \in Commands, c \notin H, Allocate(c)
    PROVE  /\ freedInts' \in Seq(Nat) /\ curValue' \in Nat /\ id' \in [Commands -> Nat]
           /\ Dispenses(freedInts', curValue', id', H \union {c})
<1>1. Len(freedInts) \in Nat
  BY LenProperties
<1>2. \A i \in 1 .. Len(freedInts) : freedInts[i] \in Nat
  BY ElementOfSeq
<1>3. CASE freedInts # <<>>
  <2>1. Len(freedInts) >= 1
    BY <1>1, <1>3, EmptySeq
  <2>2. /\ NewId = freedInts[Len(freedInts)]
        /\ freedInts' = SubSeq(freedInts, 1, Len(freedInts) - 1)
        /\ curValue' = curValue
    BY <1>3 DEF Allocate, NewId, Last, Front
  <2>3. /\ freedInts' \in Seq(Nat)
        /\ Len(freedInts') = Len(freedInts) - 1
        /\ \A i \in 1 .. Len(freedInts) - 1 : freedInts'[i] = freedInts[i]
    <3> DEFINE t == SubSeq(freedInts, 1, Len(freedInts) - 1)
    <3>1. Len(freedInts) - 1 \in 0 .. Len(freedInts)
      BY <1>1, <2>1
    <3>2. /\ t \in Seq(Nat)
          /\ Len(t) = Len(freedInts) - 1
          /\ \A i \in 1 .. Len(freedInts) - 1 : t[i] = freedInts[i]
      BY <3>1, PrefixProperties
    <3> QED
      BY <2>2, <3>2
  <2>4. NewId \in 0 .. curValue - 1
    BY <1>1, <2>1, <2>2 DEF Dispenses
  <2>5. id' \in [Commands -> Nat] /\ id'[c] = NewId /\ \A d \in H : id'[d] = id[d]
    <3>1. NewId \in Nat
      BY <2>4
    <3>2. id' = [id EXCEPT ![c] = NewId]
      BY DEF Allocate
    <3> QED
      BY <3>1, <3>2
  <2>6. \A i, j \in 1 .. Len(freedInts') : freedInts'[i] = freedInts'[j] => i = j
    <3>1. \A i, j \in 1 .. Len(freedInts) : freedInts[i] = freedInts[j] => i = j
      BY DEF Dispenses
    <3>2. \A i \in 1 .. Len(freedInts') :
             i \in 1 .. Len(freedInts) /\ freedInts'[i] = freedInts[i]
      <4>1. Len(freedInts) \in Nat /\ Len(freedInts') = Len(freedInts) - 1
        BY <1>1, <2>3
      <4>2. \A i \in 1 .. Len(freedInts') :
               i \in 1 .. Len(freedInts) /\ i \in 1 .. Len(freedInts) - 1
        BY <4>1
      <4> QED
        BY <2>3, <4>2
    <3> QED
      BY <3>1, <3>2
  <2>7. \A d, e \in H \union {c} : id'[d] = id'[e] => d = e
    BY <1>1, <2>1, <2>2, <2>5 DEF Dispenses
  <2>8. \A d \in H \union {c} : \A i \in 1 .. Len(freedInts') : id'[d] # freedInts'[i]
    BY <1>1, <2>1, <2>2, <2>3, <2>5 DEF Dispenses
  <2>9. \A k \in 0 .. curValue' - 1 : (\E i \in 1 .. Len(freedInts') : freedInts'[i] = k)
                                        \/ (\E d \in H \union {c} : id'[d] = k)
    <3> SUFFICES ASSUME NEW k \in 0 .. curValue - 1
                 PROVE  (\E i \in 1 .. Len(freedInts') : freedInts'[i] = k)
                          \/ (\E d \in H \union {c} : id'[d] = k)
      BY <2>2
    <3>1. CASE \E i \in 1 .. Len(freedInts) : freedInts[i] = k
      <4>1. PICK i \in 1 .. Len(freedInts) : freedInts[i] = k
        BY <3>1
      <4>2. CASE i = Len(freedInts)
        BY <2>2, <2>5, <4>1, <4>2
      <4>3. CASE i # Len(freedInts)
        <5>1. i \in 1 .. Len(freedInts) - 1 /\ i \in 1 .. Len(freedInts')
          BY <1>1, <2>3, <4>3
        <5> QED
          BY <2>3, <4>1, <5>1
      <4> QED
        BY <4>2, <4>3
    <3>2. CASE \E d \in H : id[d] = k
      BY <2>5, <3>2
    <3> QED
      BY <3>1, <3>2 DEF Dispenses
  <2>10. \A i \in 1 .. Len(freedInts') : freedInts'[i] \in 0 .. curValue' - 1
    BY <1>1, <2>2, <2>3 DEF Dispenses
  <2>11. \A d \in H \union {c} : id'[d] \in 0 .. curValue' - 1
    BY <2>2, <2>4, <2>5 DEF Dispenses
  <2> QED
    BY <2>2, <2>3, <2>5, <2>6, <2>7, <2>8, <2>9, <2>10, <2>11 DEF Dispenses
<1>4. CASE freedInts = <<>>
  <2>1. NewId = curValue /\ curValue' = curValue + 1 /\ freedInts' = freedInts
    BY <1>4 DEF Allocate, NewId
  <2>2. id' \in [Commands -> Nat] /\ id'[c] = curValue /\ \A d \in H : id'[d] = id[d]
    BY <2>1 DEF Allocate
  <2>3. Len(freedInts) = 0
    BY <1>4
  <2>4. \A d \in H : id[d] \in 0 .. curValue - 1
    BY DEF Dispenses
  <2>5. \A d, e \in H \union {c} : id'[d] = id'[e] => d = e
    BY <2>2, <2>4 DEF Dispenses
  <2>6. \A k \in 0 .. curValue' - 1 : \E d \in H \union {c} : id'[d] = k
    BY <2>1, <2>2, <2>3 DEF Dispenses
  <2> QED
    BY <2>1, <2>2, <2>3, <2>4, <2>5, <2>6 DEF Dispenses
<1> QED
  BY <1>3, <1>4

-----------------------------------------------------------------------------
(* The stream.                                                             *)

\* A whole frame is taken from the front of the stream: nothing of the same command
\* is left in it.
LEMMA FrameTaken ==
    ASSUME NEW b \in Seq(Tokens), NEW w \in Seq(Tokens), Len(b) >= 2,
           b[1][2] = 1, b[2] = <<b[1][1], 2>>,
           NEW p, NEW p2, Streams(b \o w, p),
           \A c \in Commands : c # b[1][1] /\ p[c] = "answered" => p2[c] = "answered"
    PROVE  /\ SubSeq(b, 3, Len(b)) \in Seq(Tokens)
           /\ b[1][1] \in Commands => p[b[1][1]] = "answered"
           /\ Streams(SubSeq(b, 3, Len(b)) \o w, p2)
<1> DEFINE s == b \o w
           b2 == SubSeq(b, 3, Len(b))
           s2 == b2 \o w
<1>1. Len(b) \in Nat /\ Len(w) \in Nat
  BY LenProperties
<1>2. /\ s \in Seq(Tokens)
      /\ Len(s) = Len(b) + Len(w)
      /\ \A i \in 1 .. Len(s) : s[i] = IF i <= Len(b) THEN b[i] ELSE w[i - Len(b)]
  BY ConcatElements
<1>3. /\ b2 \in Seq(Tokens)
      /\ Len(b2) = Len(b) - 2
      /\ \A i \in 1 .. Len(b) - 2 : b2[i] = b[i + 2]
  <2>1. 2 \in 0 .. Len(b) /\ 2 + 1 = 3
    BY <1>1
  <2>2. /\ SubSeq(b, 2 + 1, Len(b)) \in Seq(Tokens)
        /\ Len(SubSeq(b, 2 + 1, Len(b))) = Len(b) - 2
        /\ \A i \in 1 .. Len(b) - 2 : SubSeq(b, 2 + 1, Len(b))[i] = b[i + 2]
    <3> HIDE DEF Tokens
    <3> QED
      BY <2>1, SuffixProperties
  <2> QED
    BY <2>1, <2>2
<1>4. Streams(s, p)
  OBVIOUS
<1> HIDE DEF s, b2
<1>5. /\ s2 \in Seq(Tokens)
      /\ Len(s2) = Len(b2) + Len(w)
      /\ \A i \in 1 .. Len(s2) : s2[i] = IF i <= Len(b2) THEN b2[i] ELSE w[i - Len(b2)]
  BY <1>3, ConcatElements
<1> HIDE DEF s2
<1>6. ASSUME NEW i \in 1 .. Len(s2)
      PROVE  i + 2 \in 1 .. Len(s) /\ s2[i] = s[i + 2] /\ s[i + 2] \in Tokens
  <2>1. i + 2 \in 1 .. Len(s)
    BY <1>1, <1>2, <1>3, <1>5
  <2>2. s[i + 2] \in Tokens
    BY <1>2, <2>1, ElementOfSeq
  <2>3. CASE i <= Len(b2)
    <3>1. i \in 1 .. Len(b) - 2 /\ i + 2 <= Len(b)
      BY <1>1, <1>3, <2>3
    <3> QED
      BY <1>2, <1>3, <1>5, <2>1, <2>2, <2>3, <3>1
  <2>4. CASE ~(i <= Len(b2))
    <3>1. ~(i + 2 <= Len(b)) /\ i - Len(b2) = i + 2 - Len(b)
      BY <1>1, <1>3, <2>4
    <3> QED
      BY <1>2, <1>5, <2>1, <2>2, <2>4, <3>1, SMTT(60)
  <2> QED
    BY <2>3, <2>4
<1>7. 1 \in 1 .. Len(s) /\ 2 \in 1 .. Len(s) /\ s[1] = b[1] /\ s[2] = b[2]
  BY <1>1, <1>2
<1>8. s[1] \in Tokens
  BY <1>2, <1>7, ElementOfSeq
<1>9. ASSUME NEW i \in 1 .. Len(s2)
      PROVE  s2[i][1] # b[1][1]
  <2>1. s[i + 2] # s[1] /\ s[i + 2] # s[2]
    <3>1. i + 2 # 1 /\ i + 2 # 2 /\ i + 2 \in 1 .. Len(s)
      BY <1>6
    <3> QED
      BY <1>4, <1>7, <3>1 DEF Streams
  <2>2. SUFFICES ASSUME s[i + 2][1] = s[1][1] PROVE FALSE
    BY <1>6, <1>7
  <2>3. s[i + 2] = <<s[i + 2][1], s[i + 2][2]>> /\ s[i + 2][2] \in {1, 2}
    BY <1>6 DEF Tokens
  <2>4. s[1] = <<s[1][1], 1>> /\ s[2] = <<s[1][1], 2>>
    BY <1>7, <1>8 DEF Tokens
  <2> QED
    BY <2>1, <2>2, <2>3, <2>4
<1>10. \A i \in 1 .. Len(s2) : s2[i][1] \in Commands => p2[s2[i][1]] = "answered"
  BY <1>4, <1>6, <1>9, SMTT(60) DEF Streams
<1>11. \A i, j \in 1 .. Len(s2) : s2[i] = s2[j] => i = j
  <2>1. TAKE i, j \in 1 .. Len(s2)
  <2>2. s2[i] = s2[j] => i + 2 = j + 2
    BY <1>4, <1>6 DEF Streams
  <2> QED
    BY <1>1, <1>3, <1>5, <2>2
<1>12. b[1][1] \in Commands => p[b[1][1]] = "answered"
  BY <1>4, <1>7 DEF Streams
<1> QED
  BY <1>3, <1>10, <1>11, <1>12 DEF Streams, s2, b2

\* A frame is added to the stream of a command that has none in it.
LEMMA FrameAdded ==
    ASSUME NEW b \in Seq(Tokens), NEW w \in Seq(Tokens), NEW c \in Commands,
           NEW p, NEW p2, Streams(b \o w, p), p[c] # "answered", p2[c] = "answered",
           \A d \in Commands : p[d] = "answered" => p2[d] = "answered"
    PROVE  /\ w \o Frame(c) \in Seq(Tokens)
           /\ Streams(b \o (w \o Frame(c)), p2)
<1> DEFINE s == b \o w
           f == Frame(c)
           w2 == w \o f
           s2 == b \o w2
<1>1. Len(b) \in Nat /\ Len(w) \in Nat
  BY LenProperties
<1>2. /\ s \in Seq(Tokens)
      /\ Len(s) = Len(b) + Len(w)
      /\ \A i \in 1 .. Len(s) : s[i] = IF i <= Len(b) THEN b[i] ELSE w[i - Len(b)]
  BY ConcatElements
<1>3. Streams(s, p)
  OBVIOUS
<1>4. f \in Seq(Tokens) /\ Len(f) = 2 /\ f[1] = <<c, 1>> /\ f[2] = <<c, 2>>
  BY DEF Frame, Tokens
<1> HIDE DEF s, f
<1>5. /\ w2 \in Seq(Tokens)
      /\ Len(w2) = Len(w) + 2
      /\ \A i \in 1 .. Len(w2) : w2[i] = IF i <= Len(w) THEN w[i] ELSE f[i - Len(w)]
  <2>1. /\ w2 \in Seq(Tokens)
        /\ Len(w2) = Len(w) + Len(f)
        /\ \A i \in 1 .. Len(w2) : w2[i] = IF i <= Len(w) THEN w[i] ELSE f[i - Len(w)]
    BY <1>4, ConcatElements
  <2> QED
    BY <1>4, <2>1
<1> HIDE DEF w2
<1>6. /\ Len(s2) = Len(b) + Len(w2)
      /\ \A i \in 1 .. Len(s2) : s2[i] = IF i <= Len(b) THEN b[i] ELSE w2[i - Len(b)]
  <2>1. w2 \in Seq(Tokens)
    BY <1>5
  <2> HIDE DEF Tokens
  <2> QED
    BY <2>1, ConcatElements
<1> HIDE DEF s2
<1>7. Len(s2) = Len(s) + 2 /\ Len(s) \in Nat
  BY <1>1, <1>2, <1>5, <1>6
<1>8. ASSUME NEW i \in 1 .. Len(s)
      PROVE  s2[i] = s[i]
  <2>1. i \in 1 .. Len(s2)
    BY <1>1, <1>2, <1>7
  <2>2. CASE i <= Len(b)
    BY <1>2, <1>6, <2>1, <2>2
  <2>3. CASE ~(i <= Len(b))
    <3>1. i - Len(b) \in 1 .. Len(w2) /\ i - Len(b) <= Len(w)
      BY <1>1, <1>2, <1>5, <2>3
    <3> QED
      BY <1>2, <1>5, <1>6, <2>1, <2>3, <3>1
  <2> QED
    BY <2>2, <2>3
<1>9. s2[Len(s) + 1] = <<c, 1>> /\ s2[Len(s) + 2] = <<c, 2>>
  <2>1. ASSUME NEW k \in 1 .. 2
        PROVE  s2[Len(s) + k] = f[k]
    <3>1. /\ Len(s) + k \in 1 .. Len(s2)
          /\ ~(Len(s) + k <= Len(b))
          /\ Len(s) + k - Len(b) = Len(w) + k
          /\ Len(w) + k \in 1 .. Len(w2)
          /\ ~(Len(w) + k <= Len(w))
          /\ Len(w) + k - Len(w) = k
      BY <1>1, <1>2, <1>5, <1>7
    <3>2. s2[Len(s) + k] = w2[Len(w) + k]
      BY <1>6, <3>1
    <3>3. w2[Len(w) + k] = f[k]
      BY <1>5, <3>1
    <3> QED
      BY <3>2, <3>3
  <2> QED
    BY <1>4, <2>1
<1>10. \A i \in 1 .. Len(s2) : i \in 1 .. Len(s) \/ i = Len(s) + 1 \/ i = Len(s) + 2
  BY <1>7
<1>11. \A i \in 1 .. Len(s) : s[i] # <<c, 1>> /\ s[i] # <<c, 2>>
  BY <1>3 DEF Streams
<1>12. \A i \in 1 .. Len(s2) : s2[i][1] \in Commands => p2[s2[i][1]] = "answered"
  BY <1>3, <1>8, <1>9, <1>10, SMTT(60) DEF Streams
<1>13. \A i, j \in 1 .. Len(s2) : s2[i] = s2[j] => i = j
  <2>1. \A i, j \in 1 .. Len(s) : s[i] = s[j] => i = j
    BY <1>3 DEF Streams
  <2>2. <<c, 1>> # <<c, 2>>
    OBVIOUS
  <2>3. TAKE i, j \in 1 .. Len(s2)
  <2>4. CASE i \in 1 .. Len(s) /\ j \in 1 .. Len(s)
    BY <1>8, <2>1, <2>4
  <2>5. CASE i \in 1 .. Len(s) /\ (j = Len(s) + 1 \/ j = Len(s) + 2)
    BY <1>8, <1>9, <1>11, <2>5
  <2>6. CASE j \in 1 .. Len(s) /\ (i = Len(s) + 1 \/ i = Len(s) + 2)
    BY <1>8, <1>9, <1>11, <2>6
  <2>7. CASE /\ i = Len(s) + 1 \/ i = Len(s) + 2
             /\ j = Len(s) + 1 \/ j = Len(s) + 2
    BY <1>9, <2>2, <2>7
  <2> QED
    BY <1>10, <2>4, <2>5, <2>6, <2>7
<1> QED
  BY <1>5, <1>12, <1>13 DEF Streams, s2, w2, f

\* A data event moves the stream, and leaves it as it is.
LEMMA StreamMoved ==
    ASSUME NEW b \in Seq(Tokens), NEW w \in Seq(Tokens), NEW k \in 1 .. Len(w),
           NEW p, Streams(b \o w, p)
    PROVE  /\ b \o SubSeq(w, 1, k) \in Seq(Tokens)
           /\ SubSeq(w, k + 1, Len(w)) \in Seq(Tokens)
           /\ Streams((b \o SubSeq(w, 1, k)) \o SubSeq(w, k + 1, Len(w)), p)
<1> DEFINE l == SubSeq(w, 1, k)
           r == SubSeq(w, k + 1, Len(w))
           bl == b \o l
           s == b \o w
           s2 == bl \o r
<1>1. Len(b) \in Nat /\ Len(w) \in Nat /\ k \in 0 .. Len(w)
  BY LenProperties
<1>2. l \in Seq(Tokens) /\ Len(l) = k /\ \A i \in 1 .. k : l[i] = w[i]
  BY <1>1, PrefixProperties
<1>3. r \in Seq(Tokens) /\ Len(r) = Len(w) - k /\ \A i \in 1 .. Len(w) - k : r[i] = w[i + k]
  BY <1>1, SuffixProperties
<1>4. /\ Len(s) = Len(b) + Len(w)
      /\ \A i \in 1 .. Len(s) : s[i] = IF i <= Len(b) THEN b[i] ELSE w[i - Len(b)]
  BY ConcatElements
<1>5. Streams(s, p)
  OBVIOUS
<1> HIDE DEF l, r, s
<1>6. /\ bl \in Seq(Tokens)
      /\ Len(bl) = Len(b) + k
      /\ \A i \in 1 .. Len(bl) : bl[i] = IF i <= Len(b) THEN b[i] ELSE l[i - Len(b)]
  BY <1>2, ConcatElements
<1> HIDE DEF bl
<1>7. /\ Len(s2) = Len(bl) + Len(r)
      /\ \A i \in 1 .. Len(s2) : s2[i] = IF i <= Len(bl) THEN bl[i] ELSE r[i - Len(bl)]
  BY <1>3, <1>6, ConcatElements
<1> HIDE DEF s2
<1>8. Len(s2) = Len(s)
  BY <1>1, <1>3, <1>4, <1>6, <1>7
<1>9. ASSUME NEW i \in 1 .. Len(s)
      PROVE  s2[i] = s[i]
  <2>1. CASE i <= Len(b)
    <3>1. i \in 1 .. Len(bl) /\ i <= Len(bl)
      BY <1>1, <1>6, <2>1
    <3> QED
      BY <1>4, <1>6, <1>7, <1>8, <2>1, <3>1
  <2>2. CASE ~(i <= Len(b)) /\ i <= Len(bl)
    <3>1. i \in 1 .. Len(bl) /\ i - Len(b) \in 1 .. k
      BY <1>1, <1>6, <2>2
    <3> QED
      BY <1>2, <1>4, <1>6, <1>7, <1>8, <2>2, <3>1
  <2>3. CASE ~(i <= Len(bl))
    <3>1. /\ ~(i <= Len(b))
          /\ i - Len(bl) \in 1 .. Len(w) - k
          /\ i - Len(bl) + k = i - Len(b)
      BY <1>1, <1>4, <1>6, <2>3
    <3> QED
      BY <1>3, <1>4, <1>7, <1>8, <2>3, <3>1
  <2> QED
    BY <2>1, <2>2, <2>3
<1> QED
  BY <1>3, <1>5, <1>6, <1>8, <1>9 DEF Streams, s2, bl, l, r

-----------------------------------------------------------------------------
(* The executions.                                                         *)

States == {"new", "queued", "asked", "answered", "handled"}

\* The next expression is sent when none is being evaluated: whatever advanced is,
\* as long as the queue and the map agree with it.
LEMMA ProcessEvaluates ==
    ASSUME NEW queue \in Seq(Executions), NEW advanced \in [Commands -> States],
           NEW pending,
           pending = {c \in Executions : advanced[c] \in {"asked", "answered"}},
           \A c, d \in pending : c = d,
           \A c \in Executions :
              advanced[c] = "queued" <=> \E i \in 1 .. Len(queue) : queue[i] = c,
           \A i, j \in 1 .. Len(queue) : queue[i] = queue[j] => i = j,
           ProcessPendingExecuteCommands(queue, pending, advanced)
    PROVE  /\ executeCommandsQueue' \in Seq(Executions)
           /\ PendingExecuteCommands' \subseteq Executions
           /\ progress' \in [Commands -> States]
           /\ Evaluates(executeCommandsQueue', PendingExecuteCommands', progress')
           /\ HoldingIn(progress') = HoldingIn(advanced)
           /\ \A c \in Commands : advanced[c] # "queued" => progress'[c] = advanced[c]
           /\ \A e \in Commands : e \notin Executions => progress'[e] = advanced[e]
<1>1. Len(queue) \in Nat
  BY LenProperties
<1>2. CASE ~Runs(queue, pending)
  <2>1. /\ executeCommandsQueue' = queue
        /\ PendingExecuteCommands' = pending
        /\ progress' = advanced
    BY <1>2 DEF ProcessPendingExecuteCommands
  <2>2. queue # <<>> => pending # {}
    BY <1>2 DEF Runs
  <2> QED
    BY <2>1, <2>2 DEF Evaluates
<1>3. CASE Runs(queue, pending)
  <2>1. /\ executeCommandsQueue' = Tail(queue)
        /\ PendingExecuteCommands' = {Head(queue)}
        /\ progress' = [advanced EXCEPT ![Head(queue)] = "asked"]
        /\ queue # <<>> /\ pending = {}
    BY <1>3 DEF ProcessPendingExecuteCommands, Runs
  <2>2. /\ Len(queue) >= 1
        /\ Head(queue) = queue[1]
        /\ Tail(queue) \in Seq(Executions)
        /\ Len(Tail(queue)) = Len(queue) - 1
        /\ \A i \in 1 .. Len(Tail(queue)) : Tail(queue)[i] = queue[i + 1]
    BY <1>1, <2>1, EmptySeq, HeadTailProperties
  <2> DEFINE h == queue[1]
             t == Tail(queue)
  <2>3. h \in Executions /\ h \in Commands
    BY <1>1, <2>2, ElementOfSeq DEF Commands
  <2>4. advanced[h] = "queued"
    BY <1>1, <2>2, <2>3
  <2>5. \A c \in Commands : progress'[c] = IF c = h THEN "asked" ELSE advanced[c]
    BY <2>1, <2>2
  <2>6. progress' \in [Commands -> States]
    BY <2>1, <2>2 DEF States
  <2>7. \A c \in Executions : c \in Commands
    BY DEF Commands
  <2> HIDE DEF h, t
  <2>8. \A i \in 1 .. Len(t) : i + 1 \in 1 .. Len(queue) /\ t[i] = queue[i + 1]
    BY <1>1, <2>2 DEF t
  <2>9. {h} = {c \in Executions : progress'[c] \in {"asked", "answered"}}
    <3>1. \A c \in Executions : advanced[c] \notin {"asked", "answered"}
      BY <2>1
    <3> QED
      BY <2>3, <2>5, <2>7, <3>1
  <2>10. \A i, j \in 1 .. Len(t) : t[i] = t[j] => i = j
    <3>1. TAKE i, j \in 1 .. Len(t)
    <3>2. t[i] = t[j] => i + 1 = j + 1
      BY <2>8
    <3> QED
      BY <1>1, <2>2, <3>2 DEF t
  <2>11. \A i \in 1 .. Len(t) : t[i] # h
    <3>1. TAKE i \in 1 .. Len(t)
    <3>2. i + 1 # 1 /\ 1 \in 1 .. Len(queue)
      BY <1>1, <2>2
    <3> QED
      BY <2>8, <3>2 DEF h
  <2>12. ASSUME NEW c \in Executions
         PROVE  progress'[c] = "queued" <=> \E i \in 1 .. Len(t) : t[i] = c
    <3>1. CASE c = h
      BY <2>5, <2>7, <2>11, <3>1
    <3>2. CASE c # h
      <4>1. progress'[c] = advanced[c]
        BY <2>5, <2>7, <3>2
      <4>2. ASSUME NEW i \in 1 .. Len(queue), queue[i] = c
            PROVE  \E j \in 1 .. Len(t) : t[j] = c
        <5>1. i # 1
          BY <3>2, <4>2 DEF h
        <5>2. i - 1 \in 1 .. Len(t) /\ (i - 1) + 1 = i
          BY <1>1, <2>2, <5>1 DEF t
        <5> QED
          BY <2>8, <4>2, <5>2
      <4> QED
        BY <2>8, <4>1, <4>2
    <3> QED
      BY <3>1, <3>2
  <2>13. HoldingIn(progress') = HoldingIn(advanced)
    BY <2>3, <2>4, <2>5 DEF HoldingIn
  <2>14. Evaluates(t, {h}, progress')
    BY <2>9, <2>10, <2>12 DEF Evaluates
  <2> QED
    BY <2>1, <2>2, <2>3, <2>4, <2>5, <2>6, <2>13, <2>14 DEF h, t
<1> QED
  BY <1>2, <1>3

-----------------------------------------------------------------------------
(* The invariant.                                                          *)

LEMMA InitInv == Init => Inv
<1> SUFFICES ASSUME Init PROVE Inv
  OBVIOUS
<1> DEFINE P == [c \in Commands |-> "new"]
<1>1. /\ Greeting[1] \in Range(Greeting)
      /\ Greeting[2] \in Range(Greeting)
      /\ Greeting[3] \in Range(Greeting)
  BY DEF Greeting, Range
<1>2. \A g \in Range(Greeting) : g \notin Commands
  BY DisjointAssumption
<1>3. /\ wire \in Seq(Tokens)
      /\ Len(wire) = 6
      /\ wire[1] = <<"guid", 1>> /\ wire[2] = <<"guid", 2>>
      /\ wire[3] = <<"status", 1>> /\ wire[4] = <<"status", 2>>
      /\ wire[5] = <<"pid", 1>> /\ wire[6] = <<"pid", 2>>
  <2> DEFINE a == Frame(Greeting[1])
             b == Frame(Greeting[2])
             c == Frame(Greeting[3])
  <2>1. /\ a \in Seq(Tokens) /\ Len(a) = 2 /\ a[1] = <<"guid", 1>> /\ a[2] = <<"guid", 2>>
        /\ b \in Seq(Tokens) /\ Len(b) = 2 /\ b[1] = <<"status", 1>> /\ b[2] = <<"status", 2>>
        /\ c \in Seq(Tokens) /\ Len(c) = 2 /\ c[1] = <<"pid", 1>> /\ c[2] = <<"pid", 2>>
    BY <1>1 DEF Frame, Tokens, Greeting
  <2>2. wire = (a \o b) \o c
    BY DEF Init
  <2> DEFINE ab == a \o b
  <2> HIDE DEF a, b, c, Tokens
  <2>3. /\ ab \in Seq(Tokens)
        /\ Len(ab) = Len(a) + Len(b)
        /\ \A i \in 1 .. Len(ab) : ab[i] = IF i <= Len(a) THEN a[i] ELSE b[i - Len(a)]
    BY <2>1, ConcatElements
  <2> HIDE DEF ab
  <2>4. /\ ab \in Seq(Tokens)
        /\ Len(ab) = 4
        /\ ab[1] = a[1] /\ ab[2] = a[2] /\ ab[3] = b[1] /\ ab[4] = b[2]
    BY <2>1, <2>3
  <2> DEFINE abc == ab \o c
  <2>5. /\ abc \in Seq(Tokens)
        /\ Len(abc) = Len(ab) + Len(c)
        /\ \A i \in 1 .. Len(abc) : abc[i] = IF i <= Len(ab) THEN ab[i] ELSE c[i - Len(ab)]
    BY <2>1, <2>4, ConcatElements
  <2>6. wire = abc
    BY <2>2 DEF ab
  <2> HIDE DEF abc
  <2> QED
    BY <2>1, <2>4, <2>5, <2>6
<1>4. /\ wire \in Seq(Tokens)
      /\ Len(wire) = 6
      /\ \A i \in 1 .. 6 : wire[i][1] \notin Commands
      /\ \A i, j \in 1 .. 6 : wire[i] = wire[j] => i = j
  <2>1. "guid" \in Range(Greeting) /\ "status" \in Range(Greeting) /\ "pid" \in Range(Greeting)
    BY <1>1 DEF Greeting
  <2>2. "guid" \notin Commands /\ "status" \notin Commands /\ "pid" \notin Commands
    BY <1>2, <2>1
  <2>3. \A i \in 1 .. 6 : i = 1 \/ i = 2 \/ i = 3 \/ i = 4 \/ i = 5 \/ i = 6
    OBVIOUS
  <2>6. \A i \in 1 .. 6 : wire[i][1] \notin Commands
    BY <1>3, <2>2, <2>3
  <2>7. \A i, j \in 1 .. 6 : wire[i] = wire[j] => i = j
    BY <1>3, <2>3
  <2> QED
    BY <1>3, <2>6, <2>7
<1>5. stream = wire
  <2>1. buffer = <<>> /\ stream = buffer \o wire
    BY DEF Init, stream
  <2>2. <<>> \o wire = wire
    BY <1>4, ConcatProperties
  <2> QED
    BY <2>1, <2>2
<1>6. Streams(stream, progress)
  BY <1>4, <1>5 DEF Streams
<1>7. HoldingIn(progress) = {}
  BY DEF Init, HoldingIn
<1>8. Dispenses(freedInts, curValue, id, HoldingIn(progress))
  BY <1>7 DEF Init, Dispenses
<1>9. Evaluates(executeCommandsQueue, PendingExecuteCommands, progress)
  BY DEF Init, Evaluates, Commands
<1>10. TypeOK
  <2>1. 0 \in 0 .. Len(Greeting)
    BY DEF Greeting
  <2>2. freedInts \in Seq(Nat) /\ curValue \in Nat /\ id \in [Commands -> Nat]
    BY DEF Init
  <2>3. /\ progress \in [Commands -> {"new", "queued", "asked", "answered", "handled"}]
        /\ outcome \in [Commands -> {"pending", "resolved", "rejected", "timedOut"}]
    BY DEF Init
  <2>4. /\ executeCommandsQueue \in Seq(Executions)
        /\ PendingExecuteCommands \subseteq Executions
        /\ PendingChildEnumCommands \subseteq Enumerations
        /\ timers \in Seq(Enumerations)
        /\ buffer \in Seq(Tokens)
    BY DEF Init
  <2>5. greeted \in 0 .. Len(Greeting) /\ ended \in BOOLEAN /\ handling \in BOOLEAN
    BY <2>1 DEF Init
  <2> QED
    BY <1>4, <2>2, <2>3, <2>4, <2>5 DEF TypeOK, Tokens
<1> QED
  BY <1>6, <1>8, <1>9, <1>10 DEF Inv, Init, AnswersReachTheirAsker

\* Inv, as far as the link and the sockets are concerned, is about the stream alone.
LEMMA StreamTypes ==
    ASSUME TypeOK
    PROVE  /\ buffer \in Seq(Tokens) /\ wire \in Seq(Tokens)
           /\ Len(buffer) \in Nat /\ Len(wire) \in Nat
           /\ progress \in [Commands -> States] /\ id \in [Commands -> Nat]
           /\ freedInts \in Seq(Nat) /\ curValue \in Nat
           /\ executeCommandsQueue \in Seq(Executions)
           /\ timers \in Seq(Enumerations)
<1>1. /\ buffer \in Seq(Tokens) /\ wire \in Seq(Tokens)
      /\ progress \in [Commands -> States] /\ id \in [Commands -> Nat]
      /\ freedInts \in Seq(Nat) /\ curValue \in Nat
      /\ executeCommandsQueue \in Seq(Executions)
      /\ timers \in Seq(Enumerations)
  BY DEF TypeOK, Tokens, States
<1>2. Len(buffer) \in Nat /\ Len(wire) \in Nat
  BY <1>1, LenProperties
<1> QED
  BY <1>1, <1>2

LEMMA ExecuteTextInv ==
    ASSUME Inv, NEW c \in Executions, ExecuteText(c)
    PROVE  Inv'
<1> DEFINE advanced == [progress EXCEPT ![c] = "queued"]
           queue == Append(executeCommandsQueue, c)
<1>1. /\ c \in Commands
      /\ progress[c] = "new"
      /\ Allocate(c)
      /\ ProcessPendingExecuteCommands(queue, PendingExecuteCommands, advanced)
      /\ UNCHANGED <<outcome, PendingChildEnumCommands, timers, greeted, ended, wire, buffer,
                     handling>>
  BY DEF ExecuteText, linkVars, streamVars, Commands
<1>2. /\ TypeOK
      /\ Streams(stream, progress)
      /\ Dispenses(freedInts, curValue, id, HoldingIn(progress))
      /\ Evaluates(executeCommandsQueue, PendingExecuteCommands, progress)
      /\ \A e \in PendingChildEnumCommands : progress[e] \in {"asked", "answered"}
      /\ AnswersReachTheirAsker
  BY DEF Inv
<1>3. progress \in [Commands -> States] /\ executeCommandsQueue \in Seq(Executions)
  BY <1>2, StreamTypes
<1>4. advanced \in [Commands -> States]
      /\ \A d \in Commands : advanced[d] = IF d = c THEN "queued" ELSE progress[d]
  BY <1>1, <1>3 DEF States
<1>5. \A d \in Executions : d \in Commands
  BY DEF Commands
<1>6. /\ queue \in Seq(Executions)
      /\ Len(queue) = Len(executeCommandsQueue) + 1
      /\ \A i \in 1 .. Len(executeCommandsQueue) : queue[i] = executeCommandsQueue[i]
      /\ queue[Len(executeCommandsQueue) + 1] = c
      /\ Len(executeCommandsQueue) \in Nat
  BY <1>3, AppendProperties, LenProperties
<1> HIDE DEF advanced, queue
<1>7. /\ executeCommandsQueue' \in Seq(Executions)
      /\ PendingExecuteCommands' \subseteq Executions
      /\ progress' \in [Commands -> States]
      /\ Evaluates(executeCommandsQueue', PendingExecuteCommands', progress')
      /\ HoldingIn(progress') = HoldingIn(advanced)
      /\ \A d \in Commands : advanced[d] # "queued" => progress'[d] = advanced[d]
      /\ \A d \in Commands : d \notin Executions => progress'[d] = advanced[d]
  <2>1. PendingExecuteCommands = {d \in Executions : advanced[d] \in {"asked", "answered"}}
    BY <1>1, <1>2, <1>4, <1>5 DEF Evaluates
  <2>2. \A d, e \in PendingExecuteCommands : d = e
    BY <1>2 DEF Evaluates
  <2>3. /\ \A d \in Executions : progress[d] = "queued"
              <=> \E i \in 1 .. Len(executeCommandsQueue) : executeCommandsQueue[i] = d
        /\ \A i, j \in 1 .. Len(executeCommandsQueue) :
              executeCommandsQueue[i] = executeCommandsQueue[j] => i = j
    BY <1>2 DEF Evaluates
  <2>4. \A i \in 1 .. Len(queue) :
           i \in 1 .. Len(executeCommandsQueue) \/ i = Len(executeCommandsQueue) + 1
    BY <1>6
  <2>5. \A i \in 1 .. Len(executeCommandsQueue) : i \in 1 .. Len(queue)
    BY <1>6
  <2>6. Len(executeCommandsQueue) + 1 \in 1 .. Len(queue)
    BY <1>6
  <2>7. \A d \in Executions :
           advanced[d] = "queued" <=> \E i \in 1 .. Len(queue) : queue[i] = d
    <3> TAKE d \in Executions
    <3>1. CASE d = c
      BY <1>4, <1>5, <1>6, <2>6, <3>1
    <3>2. CASE d # c
      BY <1>4, <1>5, <1>6, <2>3, <2>4, <2>5, <3>2
    <3> QED
      BY <3>1, <3>2
  <2>8. \A i \in 1 .. Len(executeCommandsQueue) : executeCommandsQueue[i] # c
    BY <1>1, <2>3
  <2>9. \A i, j \in 1 .. Len(queue) : queue[i] = queue[j] => i = j
    BY <1>6, <2>3, <2>4, <2>8
  <2> QED
    BY <1>1, <1>4, <1>6, <2>1, <2>2, <2>7, <2>9, ProcessEvaluates
<1>8. /\ freedInts' \in Seq(Nat) /\ curValue' \in Nat /\ id' \in [Commands -> Nat]
      /\ Dispenses(freedInts', curValue', id', HoldingIn(progress'))
  <2>1. c \notin HoldingIn(progress) /\ HoldingIn(progress) \subseteq Commands
    BY <1>1 DEF HoldingIn
  <2>2. HoldingIn(progress') = HoldingIn(progress) \union {c}
    BY <1>1, <1>4, <1>7 DEF HoldingIn
  <2>3. freedInts \in Seq(Nat) /\ curValue \in Nat /\ id \in [Commands -> Nat]
    BY <1>2, StreamTypes
  <2> DEFINE H == HoldingIn(progress)
  <2>4. /\ H \in SUBSET Commands /\ c \in Commands /\ c \notin H
        /\ Dispenses(freedInts, curValue, id, H)
        /\ Allocate(c)
    BY <1>1, <1>2, <2>1
  <2>5. HoldingIn(progress') = H \union {c}
    BY <2>2
  <2> HIDE DEF H
  <2>6. /\ freedInts' \in Seq(Nat) /\ curValue' \in Nat /\ id' \in [Commands -> Nat]
        /\ Dispenses(freedInts', curValue', id', H \union {c})
    BY <2>3, <2>4, AllocateDispenses
  <2> QED
    BY <2>5, <2>6
<1>9. \A d \in Commands : progress[d] \in {"answered", "handled", "asked"}
                             => progress'[d] = progress[d]
  BY <1>1, <1>4, <1>7
<1>10. Streams(stream, progress)'
  BY <1>1, <1>2, <1>9 DEF Streams, stream
<1>11. \A e \in PendingChildEnumCommands' : progress'[e] \in {"asked", "answered"}
  <2>1. \A e \in PendingChildEnumCommands : e \in Commands
    BY <1>2 DEF TypeOK, Commands
  <2> QED
    BY <1>1, <1>2, <1>9, <2>1
<1>12. AnswersReachTheirAsker'
  BY <1>1, <1>2, <1>9 DEF AnswersReachTheirAsker
<1>13. TypeOK'
  BY <1>1, <1>2, <1>7, <1>8 DEF TypeOK, States
<1> QED
  BY <1>7, <1>8, <1>10, <1>11, <1>12, <1>13 DEF Inv

LEMMA EnumChildrenInv ==
    ASSUME Inv, NEW c \in Enumerations, EnumChildren(c)
    PROVE  Inv'
<1>1. /\ c \in Commands
      /\ progress[c] = "new"
      /\ Allocate(c)
      /\ progress' = [progress EXCEPT ![c] = "asked"]
      /\ PendingChildEnumCommands' \subseteq PendingChildEnumCommands \union {c}
      /\ timers' = Append(timers, c)
      /\ UNCHANGED <<outcome, executeCommandsQueue, PendingExecuteCommands, greeted, ended, wire,
                     buffer, handling>>
  BY DEF EnumChildren, linkVars, streamVars, Commands
<1>2. /\ TypeOK
      /\ Streams(stream, progress)
      /\ Dispenses(freedInts, curValue, id, HoldingIn(progress))
      /\ Evaluates(executeCommandsQueue, PendingExecuteCommands, progress)
      /\ \A e \in PendingChildEnumCommands : progress[e] \in {"asked", "answered"}
      /\ AnswersReachTheirAsker
  BY DEF Inv
<1>3. progress \in [Commands -> States] /\ timers \in Seq(Enumerations)
  BY <1>2, StreamTypes
<1>4. progress' \in [Commands -> States]
      /\ \A d \in Commands : progress'[d] = IF d = c THEN "asked" ELSE progress[d]
  BY <1>1, <1>3 DEF States
<1>5. /\ \A d \in Executions : d \in Commands /\ d # c
      /\ \A d \in Enumerations : d \in Commands
  BY DisjointAssumption DEF Commands
<1>6. timers' \in Seq(Enumerations)
  BY <1>1, <1>3, AppendProperties
<1>7. Evaluates(executeCommandsQueue, PendingExecuteCommands, progress)'
  BY <1>1, <1>2, <1>4, <1>5 DEF Evaluates
<1>8. /\ freedInts' \in Seq(Nat) /\ curValue' \in Nat /\ id' \in [Commands -> Nat]
      /\ Dispenses(freedInts', curValue', id', HoldingIn(progress'))
  <2>1. c \notin HoldingIn(progress) /\ HoldingIn(progress) \subseteq Commands
    BY <1>1 DEF HoldingIn
  <2>2. HoldingIn(progress') = HoldingIn(progress) \union {c}
    BY <1>1, <1>4 DEF HoldingIn
  <2>3. freedInts \in Seq(Nat) /\ curValue \in Nat /\ id \in [Commands -> Nat]
    BY <1>2, StreamTypes
  <2> DEFINE H == HoldingIn(progress)
  <2>4. /\ H \in SUBSET Commands /\ c \in Commands /\ c \notin H
        /\ Dispenses(freedInts, curValue, id, H)
        /\ Allocate(c)
    BY <1>1, <1>2, <2>1
  <2>5. HoldingIn(progress') = H \union {c}
    BY <2>2
  <2> HIDE DEF H
  <2>6. /\ freedInts' \in Seq(Nat) /\ curValue' \in Nat /\ id' \in [Commands -> Nat]
        /\ Dispenses(freedInts', curValue', id', H \union {c})
    BY <2>3, <2>4, AllocateDispenses
  <2> QED
    BY <2>5, <2>6
<1>9. \A d \in Commands : progress[d] # "new" => progress'[d] = progress[d]
  BY <1>1, <1>4
<1>10. Streams(stream, progress)'
  BY <1>1, <1>2, <1>9 DEF Streams, stream
<1>11. PendingChildEnumCommands \subseteq Enumerations
  BY <1>2 DEF TypeOK
<1>12. \A e \in PendingChildEnumCommands' : progress'[e] \in {"asked", "answered"}
  BY <1>1, <1>2, <1>4, <1>5, <1>11
<1>13. AnswersReachTheirAsker'
  BY <1>1, <1>2, <1>9 DEF AnswersReachTheirAsker
<1>14. TypeOK'
  BY <1>1, <1>2, <1>4, <1>6, <1>8, <1>11 DEF TypeOK, States
<1> QED
  BY <1>7, <1>8, <1>10, <1>12, <1>13, <1>14 DEF Inv

LEMMA TimerFiresInv ==
    ASSUME Inv, TimerFires
    PROVE  Inv'
<1> DEFINE e == Head(timers)
<1>1. /\ timers # <<>>
      /\ PendingChildEnumCommands' \subseteq PendingChildEnumCommands
      /\ outcome' = Settled(Rejected(e), "timedOut")
      /\ timers' = Tail(timers)
      /\ UNCHANGED <<freedInts, curValue, id, progress, executeCommandsQueue,
                     PendingExecuteCommands, greeted, ended, wire, buffer, handling>>
  BY DEF TimerFires, idVars, linkVars, streamVars
<1>2. /\ TypeOK
      /\ Streams(stream, progress)
      /\ Dispenses(freedInts, curValue, id, HoldingIn(progress))
      /\ Evaluates(executeCommandsQueue, PendingExecuteCommands, progress)
      /\ \A d \in PendingChildEnumCommands : progress[d] \in {"asked", "answered"}
      /\ AnswersReachTheirAsker
  BY DEF Inv
<1>3. timers' \in Seq(Enumerations)
  <2>1. timers \in Seq(Enumerations)
    BY <1>2, StreamTypes
  <2> QED
    BY <1>1, <2>1, HeadTailProperties
<1>4. /\ outcome' \in [Commands -> {"pending", "resolved", "rejected", "timedOut"}]
      /\ \A c \in Commands : outcome'[c] = outcome[c] \/ outcome'[c] = "timedOut"
  <2>1. outcome \in [Commands -> {"pending", "resolved", "rejected", "timedOut"}]
    BY <1>2 DEF TypeOK
  <2> HIDE DEF e
  <2> QED
    BY <1>1, <2>1 DEF Settled
<1>5. AnswersReachTheirAsker'
  BY <1>1, <1>2, <1>4 DEF AnswersReachTheirAsker
<1>6. TypeOK'
  BY <1>1, <1>2, <1>3, <1>4 DEF TypeOK
<1>7. Streams(stream, progress)'
  BY <1>1, <1>2 DEF Streams, stream
<1>8. Dispenses(freedInts, curValue, id, HoldingIn(progress))'
  BY <1>1, <1>2 DEF Dispenses, HoldingIn
<1>9. Evaluates(executeCommandsQueue, PendingExecuteCommands, progress)'
  BY <1>1, <1>2 DEF Evaluates
<1> QED
  BY <1>1, <1>2, <1>5, <1>6, <1>7, <1>8, <1>9 DEF Inv

\* The commands that the adapter knows of, and whose answer it has not handled, are
\* told apart by their ids.
LEMMA EntriesAreOwn ==
    ASSUME Inv, NEW c \in Commands, progress[c] = "answered"
    PROVE  /\ EntriesOf(PendingExecuteCommands, c) \subseteq {c}
           /\ EntriesOf(PendingChildEnumCommands, c) \subseteq {c}
<1>1. c \in HoldingIn(progress)
  BY DEF HoldingIn
<1>2. \A d \in PendingExecuteCommands : d \in HoldingIn(progress)
  BY DEF Inv, Evaluates, HoldingIn, Commands
<1>3. \A d \in PendingChildEnumCommands : d \in HoldingIn(progress)
  <2>1. \A d \in PendingChildEnumCommands : d \in Commands
    BY DEF Inv, TypeOK, Commands
  <2>2. \A d \in PendingChildEnumCommands : progress[d] \in {"asked", "answered"}
    BY DEF Inv
  <2> QED
    BY <2>1, <2>2 DEF HoldingIn
<1>4. \A d, e \in HoldingIn(progress) : id[d] = id[e] => d = e
  BY DEF Inv, Dispenses
<1> QED
  BY <1>1, <1>2, <1>3, <1>4 DEF EntriesOf

LEMMA IdFreed ==
    ASSUME freedInts \in Seq(Nat), curValue \in Nat, id \in [Commands -> Nat],
           NEW H \in SUBSET Commands, Dispenses(freedInts, curValue, id, H),
           NEW c \in Commands, c \in H, Free(id[c])
    PROVE  /\ freedInts' \in Seq(Nat) /\ curValue' \in Nat
           /\ Dispenses(freedInts', curValue', id, H \ {c})
  BY FreeDispenses DEF Free

\* What handling a frame does to the dispenser and to the stream.
LEMMA FrameHandled ==
    ASSUME Inv, HasFrame, NEW c \in Commands, c = buffer[1][1], Free(id[c]),
           progress' \in [Commands -> States],
           HoldingIn(progress') = HoldingIn(progress) \ {c},
           \A d \in Commands : d # c /\ progress[d] = "answered" => progress'[d] = "answered",
           buffer' = SubSeq(buffer, 3, Len(buffer)), wire' = wire, id' = id
    PROVE  /\ progress[c] = "answered"
           /\ freedInts' \in Seq(Nat) /\ curValue' \in Nat
           /\ Dispenses(freedInts, curValue, id, HoldingIn(progress))'
           /\ buffer' \in Seq(Tokens)
           /\ Streams(stream, progress)'
<1>1. /\ buffer \in Seq(Tokens) /\ wire \in Seq(Tokens) /\ id \in [Commands -> Nat]
      /\ freedInts \in Seq(Nat) /\ curValue \in Nat
      /\ Len(buffer) \in Nat
  BY StreamTypes DEF Inv
<1>2. Len(buffer) >= 2 /\ buffer[1][2] = 1 /\ buffer[2] = <<buffer[1][1], 2>>
  BY DEF HasFrame
<1>3. Streams(buffer \o wire, progress)
  BY DEF Inv, stream
<1>4. /\ SubSeq(buffer, 3, Len(buffer)) \in Seq(Tokens)
      /\ buffer[1][1] \in Commands => progress[buffer[1][1]] = "answered"
      /\ Streams(SubSeq(buffer, 3, Len(buffer)) \o wire, progress')
  BY <1>1, <1>2, <1>3, FrameTaken
<1>5. progress[c] = "answered" /\ c \in HoldingIn(progress)
  BY <1>4 DEF HoldingIn
<1> DEFINE H == HoldingIn(progress)
<1>6. H \in SUBSET Commands /\ c \in H
  BY <1>5 DEF HoldingIn
<1>7. Dispenses(freedInts, curValue, id, H)
  BY DEF Inv
<1> HIDE DEF H
<1>9. /\ freedInts' \in Seq(Nat) /\ curValue' \in Nat
      /\ Dispenses(freedInts', curValue', id, H \ {c})
  <2>1. freedInts \in Seq(Nat) /\ curValue \in Nat /\ id \in [Commands -> Nat]
    BY <1>1
  <2> QED
    BY <2>1, <1>6, <1>7, IdFreed
<1>10. Dispenses(freedInts, curValue, id, HoldingIn(progress))'
  BY <1>9 DEF H
<1>11. Streams(stream, progress)'
  BY <1>4 DEF stream
<1> QED
  BY <1>4, <1>5, <1>9, <1>10, <1>11

LEMMA HandleFrameInv ==
    ASSUME Inv, HandleFrame
    PROVE  Inv'
<1> DEFINE c == buffer[1][1]
<1>1. /\ HasFrame
      /\ \/ c \in Executions /\ HandleExecutionResult(c)
         \/ c \in Enumerations /\ HandleEnumChildren(c)
      /\ c \in Commands
      /\ buffer' = SubSeq(buffer, 3, Len(buffer)) /\ wire' = wire /\ id' = id
      /\ UNCHANGED <<timers, greeted, ended, handling>>
      /\ Free(id[c])
  <2>0. \/ c \in Executions /\ HandleExecutionResult(c)
        \/ c \in Enumerations /\ HandleEnumChildren(c)
    BY DEF HandleFrame
  <2>1. /\ HasFrame
        /\ buffer' = SubSeq(buffer, 3, Len(buffer)) /\ wire' = wire /\ id' = id
        /\ UNCHANGED <<timers, greeted, ended, handling>>
    BY DEF HandleFrame, linkVars
  <2> HIDE DEF c
  <2>2. c \in Commands
    BY <2>0 DEF Commands
  <2>3. HandleExecutionResult(c) => Free(id[c])
    BY DEF HandleExecutionResult
  <2>4. HandleEnumChildren(c) => Free(id[c])
    BY DEF HandleEnumChildren
  <2>5. Free(id[c])
    BY <2>0, <2>3, <2>4
  <2> QED
    BY <2>0, <2>1, <2>2, <2>5
<1> HIDE DEF c
<1>2. /\ TypeOK
      /\ Streams(stream, progress)
      /\ Evaluates(executeCommandsQueue, PendingExecuteCommands, progress)
      /\ \A e \in PendingChildEnumCommands : progress[e] \in {"asked", "answered"}
      /\ AnswersReachTheirAsker
  BY DEF Inv
<1>3. /\ progress \in [Commands -> States] /\ executeCommandsQueue \in Seq(Executions)
      /\ outcome \in [Commands -> {"pending", "resolved", "rejected", "timedOut"}]
      /\ PendingChildEnumCommands \subseteq Enumerations
  BY <1>2, StreamTypes DEF TypeOK
<1>4. progress[c] = "answered"
  <2>1. Len(buffer) >= 2 /\ buffer[1][2] = 1 /\ buffer[2] = <<buffer[1][1], 2>>
    BY <1>1 DEF HasFrame
  <2>2. buffer \in Seq(Tokens) /\ wire \in Seq(Tokens)
    BY <1>2, StreamTypes
  <2>3. \A d \in Commands : d # buffer[1][1] /\ progress[d] = "answered" => progress[d] = "answered"
    OBVIOUS
  <2>4. Streams(buffer \o wire, progress)
    BY <1>2 DEF stream
  <2>5. buffer[1][1] \in Commands => progress[buffer[1][1]] = "answered"
    BY <2>1, <2>2, <2>3, <2>4, FrameTaken
  <2> QED
    BY <1>1, <2>5 DEF c
<1> DEFINE advanced == [progress EXCEPT ![c] = "handled"]
<1>5. /\ advanced \in [Commands -> States]
      /\ \A d \in Commands : advanced[d] = IF d = c THEN "handled" ELSE progress[d]
  BY <1>1, <1>3 DEF States
<1> HIDE DEF advanced
<1>6. HoldingIn(advanced) = HoldingIn(progress) \ {c}
  BY <1>1, <1>5 DEF HoldingIn
<1>7. /\ EntriesOf(PendingExecuteCommands, c) \subseteq {c}
      /\ EntriesOf(PendingChildEnumCommands, c) \subseteq {c}
  BY <1>1, <1>4, EntriesAreOwn
<1>8. ASSUME NEW cs \in SUBSET {c}, NEW value \in {"resolved", "rejected"},
             outcome' = Settled(cs, value)
      PROVE  /\ outcome' \in [Commands -> {"pending", "resolved", "rejected", "timedOut"}]
             /\ \A d \in Commands : d # c => outcome'[d] = outcome[d]
  BY <1>3, <1>8 DEF Settled
<1>9. /\ outcome' \in [Commands -> {"pending", "resolved", "rejected", "timedOut"}]
      /\ \A d \in Commands : d # c => outcome'[d] = outcome[d]
      /\ executeCommandsQueue' \in Seq(Executions)
      /\ PendingExecuteCommands' \subseteq Executions
      /\ PendingChildEnumCommands' \subseteq PendingChildEnumCommands
      /\ c \notin PendingChildEnumCommands'
      /\ progress' \in [Commands -> States]
      /\ Evaluates(executeCommandsQueue', PendingExecuteCommands', progress')
      /\ HoldingIn(progress') = HoldingIn(advanced)
      /\ \A d \in Commands : advanced[d] # "queued" => progress'[d] = advanced[d]
  <2>1. CASE c \in Executions /\ HandleExecutionResult(c)
    <3> DEFINE pending == PendingExecuteCommands \ EntriesOf(PendingExecuteCommands, c)
    <3>1. /\ \E value \in {"resolved", "rejected"} :
                outcome' = Settled(EntriesOf(PendingExecuteCommands, c), value)
          /\ ProcessPendingExecuteCommands(executeCommandsQueue, pending, advanced)
          /\ PendingChildEnumCommands' = PendingChildEnumCommands
      BY <2>1 DEF HandleExecutionResult, advanced
    <3>2. /\ outcome' \in [Commands -> {"pending", "resolved", "rejected", "timedOut"}]
          /\ \A d \in Commands : d # c => outcome'[d] = outcome[d]
      BY <1>7, <1>8, <3>1
    <3>3. /\ PendingExecuteCommands = {d \in Executions : progress[d] \in {"asked", "answered"}}
          /\ \A d, e \in PendingExecuteCommands : d = e
      BY <1>2 DEF Evaluates
    <3>4. c \in PendingExecuteCommands /\ c \in EntriesOf(PendingExecuteCommands, c)
      BY <1>4, <2>1, <3>3 DEF EntriesOf
    <3>5. pending = {} /\ PendingExecuteCommands = {c}
      BY <3>3, <3>4
    <3>6. pending = {d \in Executions : advanced[d] \in {"asked", "answered"}}
      BY <1>5, <3>3, <3>5 DEF Commands
    <3>7. \A d, e \in pending : d = e
      BY <3>5
    <3> HIDE DEF pending
    <3>8. \A d \in Executions : d \in Commands
      BY DEF Commands
    <3>9. /\ \A d \in Executions : progress[d] = "queued"
                <=> \E i \in 1 .. Len(executeCommandsQueue) : executeCommandsQueue[i] = d
          /\ \A i, j \in 1 .. Len(executeCommandsQueue) :
                executeCommandsQueue[i] = executeCommandsQueue[j] => i = j
      BY <1>2 DEF Evaluates
    <3>10. \A d \in Executions : advanced[d] = "queued" <=> progress[d] = "queued"
      BY <1>4, <1>5, <3>8
    <3>11. \A d \in Executions : advanced[d] = "queued"
                <=> \E i \in 1 .. Len(executeCommandsQueue) : executeCommandsQueue[i] = d
      BY <3>9, <3>10
    <3>12. c \notin PendingChildEnumCommands
      BY <1>3, <2>1, DisjointAssumption
    <3>13. /\ executeCommandsQueue' \in Seq(Executions)
           /\ PendingExecuteCommands' \subseteq Executions
           /\ progress' \in [Commands -> States]
           /\ Evaluates(executeCommandsQueue', PendingExecuteCommands', progress')
           /\ HoldingIn(progress') = HoldingIn(advanced)
           /\ \A d \in Commands : advanced[d] # "queued" => progress'[d] = advanced[d]
      <4>1. executeCommandsQueue \in Seq(Executions)
        BY <1>3
      <4>2. advanced \in [Commands -> States]
        BY <1>5
      <4>3. ProcessPendingExecuteCommands(executeCommandsQueue, pending, advanced)
        BY <3>1
      <4> HIDE DEF advanced
      <4> QED
        BY <4>1, <4>2, <4>3, <3>6, <3>7, <3>9, <3>11, ProcessEvaluates
    <3> QED
      BY <3>1, <3>2, <3>12, <3>13
  <2>2. CASE c \in Enumerations /\ HandleEnumChildren(c)
    <3>1. /\ outcome' = Settled(EntriesOf(PendingChildEnumCommands, c), "resolved")
          /\ PendingChildEnumCommands' =
                PendingChildEnumCommands \ EntriesOf(PendingChildEnumCommands, c)
          /\ progress' = advanced
          /\ executeCommandsQueue' = executeCommandsQueue
          /\ PendingExecuteCommands' = PendingExecuteCommands
      BY <2>2 DEF HandleEnumChildren, advanced
    <3>2. /\ outcome' \in [Commands -> {"pending", "resolved", "rejected", "timedOut"}]
          /\ \A d \in Commands : d # c => outcome'[d] = outcome[d]
      BY <1>7, <1>8, <3>1
    <3>3. \A d \in Executions : d \in Commands /\ advanced[d] = progress[d]
      BY <1>5, <2>2, DisjointAssumption DEF Commands
    <3>4. Evaluates(executeCommandsQueue, PendingExecuteCommands, advanced)
      BY <1>2, <3>3 DEF Evaluates
    <3>5. PendingExecuteCommands \subseteq Executions
      BY <1>2 DEF TypeOK
    <3>6. c \notin PendingChildEnumCommands'
      BY <3>1 DEF EntriesOf
    <3> QED
      BY <1>3, <1>5, <3>1, <3>2, <3>4, <3>5, <3>6
  <2> QED
    BY <1>1, <2>1, <2>2
<1>10. \A d \in Commands : d # c /\ progress[d] # "queued" => progress'[d] = progress[d]
  BY <1>5, <1>9
<1>11. progress'[c] = "handled"
  BY <1>1, <1>5, <1>9
<1>12. /\ freedInts' \in Seq(Nat) /\ curValue' \in Nat
       /\ Dispenses(freedInts, curValue, id, HoldingIn(progress))'
       /\ buffer' \in Seq(Tokens)
       /\ Streams(stream, progress)'
  <2>1. \A d \in Commands : d # c /\ progress[d] = "answered" => progress'[d] = "answered"
    BY <1>10
  <2>2. HoldingIn(progress') = HoldingIn(progress) \ {c}
    BY <1>6, <1>9
  <2>3. c = buffer[1][1]
    BY DEF c
  <2> QED
    BY <1>1, <1>9, <2>1, <2>2, <2>3, FrameHandled
<1>13. \A e \in PendingChildEnumCommands' : progress'[e] \in {"asked", "answered"}
  <2>1. \A e \in PendingChildEnumCommands' : e \in PendingChildEnumCommands /\ e # c /\ e \in Commands
    BY <1>3, <1>9 DEF Commands
  <2> QED
    BY <1>2, <1>10, <2>1
<1>14. AnswersReachTheirAsker'
  <2> SUFFICES ASSUME NEW d \in Commands, outcome'[d] \in {"resolved", "rejected"}
               PROVE  progress'[d] = "handled"
    BY DEF AnswersReachTheirAsker
  <2>1. CASE d = c
    BY <1>11, <2>1
  <2>2. CASE d # c
    BY <1>2, <1>9, <1>10, <2>2 DEF AnswersReachTheirAsker
  <2> QED
    BY <2>1, <2>2
<1>15. TypeOK'
  BY <1>1, <1>2, <1>3, <1>9, <1>12 DEF TypeOK, States, Tokens
<1>16. Evaluates(executeCommandsQueue, PendingExecuteCommands, progress)'
  BY <1>9
<1> QED
  BY <1>12, <1>13, <1>14, <1>15, <1>16 DEF Inv

\* What leaves commands, ids and timers alone needs only to keep the stream.
LEMMA StreamStep ==
    ASSUME Inv, UNCHANGED <<idVars, progress, outcome, pendingVars, timers>>,
           greeted' \in 0 .. Len(Greeting), ended' \in BOOLEAN, handling' \in BOOLEAN,
           buffer' \in Seq(Tokens), wire' \in Seq(Tokens), Streams(buffer' \o wire', progress)
    PROVE  Inv'
<1>1. TypeOK'
  BY DEF Inv, TypeOK, Tokens, idVars, pendingVars
<1>2. /\ Streams(stream, progress)'
      /\ Dispenses(freedInts, curValue, id, HoldingIn(progress))'
      /\ Evaluates(executeCommandsQueue, PendingExecuteCommands, progress)'
  BY DEF Inv, stream, idVars, pendingVars
<1>3. \A e \in PendingChildEnumCommands' : progress'[e] \in {"asked", "answered"}
  BY DEF Inv, pendingVars
<1>4. AnswersReachTheirAsker'
  BY DEF Inv, AnswersReachTheirAsker
<1> QED
  BY <1>1, <1>2, <1>3, <1>4 DEF Inv

LEMMA DataArrivesInv ==
    ASSUME Inv, DataArrives
    PROVE  Inv'
<1>1. PICK k \in 1 .. Len(wire) :
         /\ buffer' = buffer \o SubSeq(wire, 1, k)
         /\ wire' = SubSeq(wire, k + 1, Len(wire))
  BY DEF DataArrives
<1>2. buffer \in Seq(Tokens) /\ wire \in Seq(Tokens) /\ Streams(buffer \o wire, progress)
  BY StreamTypes DEF Inv, stream
<1>3. /\ buffer' \in Seq(Tokens) /\ wire' \in Seq(Tokens)
      /\ Streams(buffer' \o wire', progress)
  <2>1. /\ buffer \o SubSeq(wire, 1, k) \in Seq(Tokens)
        /\ SubSeq(wire, k + 1, Len(wire)) \in Seq(Tokens)
        /\ Streams((buffer \o SubSeq(wire, 1, k)) \o SubSeq(wire, k + 1, Len(wire)), progress)
    BY <1>2, StreamMoved
  <2> QED
    BY <1>1, <2>1
<1>4. /\ UNCHANGED <<idVars, progress, outcome, pendingVars, timers>>
      /\ greeted' \in 0 .. Len(Greeting) /\ ended' \in BOOLEAN /\ handling' \in BOOLEAN
  BY DEF DataArrives, linkVars, Inv, TypeOK
<1> QED
  BY <1>3, <1>4, StreamStep

LEMMA HandleGreetingInv ==
    ASSUME Inv, HandleGreeting
    PROVE  Inv'
<1>1. /\ HasFrame /\ greeted # Len(Greeting)
      /\ greeted' = greeted + 1
      /\ buffer' = SubSeq(buffer, 3, Len(buffer)) /\ wire' = wire
      /\ UNCHANGED <<idVars, progress, outcome, pendingVars, timers, ended, handling>>
  BY DEF HandleGreeting, GreetingGoesOn, Connected
<1>2. buffer \in Seq(Tokens) /\ wire \in Seq(Tokens) /\ Streams(buffer \o wire, progress)
  BY StreamTypes DEF Inv, stream
<1>3. Len(buffer) >= 2 /\ buffer[1][2] = 1 /\ buffer[2] = <<buffer[1][1], 2>>
  BY <1>1 DEF HasFrame
<1>4. \A d \in Commands : d # buffer[1][1] /\ progress[d] = "answered" => progress[d] = "answered"
  OBVIOUS
<1>5. /\ SubSeq(buffer, 3, Len(buffer)) \in Seq(Tokens)
      /\ Streams(SubSeq(buffer, 3, Len(buffer)) \o wire, progress)
  BY <1>2, <1>3, <1>4, FrameTaken
<1>6. greeted' \in 0 .. Len(Greeting)
  <2>1. greeted \in 0 .. Len(Greeting) /\ Len(Greeting) = 3
    BY DEF Inv, TypeOK, Greeting
  <2> QED
    BY <1>1, <2>1
<1>7. ended' \in BOOLEAN /\ handling' \in BOOLEAN
  BY <1>1 DEF Inv, TypeOK
<1>8. UNCHANGED <<idVars, progress, outcome, pendingVars, timers>>
  BY <1>1
<1>9. buffer' \in Seq(Tokens) /\ wire' \in Seq(Tokens) /\ Streams(buffer' \o wire', progress)
  BY <1>1, <1>2, <1>5
<1> QED
  BY <1>6, <1>7, <1>8, <1>9, StreamStep

LEMMA ProgramAnswersInv ==
    ASSUME Inv, NEW c \in Commands, ProgramAnswers(c)
    PROVE  Inv'
<1>1. /\ progress[c] = "asked"
      /\ progress' = [progress EXCEPT ![c] = "answered"]
      /\ wire' = wire \o Frame(c) /\ buffer' = buffer
      /\ UNCHANGED <<freedInts, curValue, id, outcome, executeCommandsQueue,
                     PendingExecuteCommands, PendingChildEnumCommands, timers, greeted, ended,
                     handling>>
  BY DEF ProgramAnswers, idVars, pendingVars, linkVars
<1>2. /\ TypeOK
      /\ Dispenses(freedInts, curValue, id, HoldingIn(progress))
      /\ Evaluates(executeCommandsQueue, PendingExecuteCommands, progress)
      /\ \A e \in PendingChildEnumCommands : progress[e] \in {"asked", "answered"}
      /\ AnswersReachTheirAsker
  BY DEF Inv
<1>3. /\ buffer \in Seq(Tokens) /\ wire \in Seq(Tokens) /\ Streams(buffer \o wire, progress)
      /\ progress \in [Commands -> States]
  BY StreamTypes DEF Inv, stream
<1>4. /\ progress' \in [Commands -> States]
      /\ \A d \in Commands : progress'[d] = IF d = c THEN "answered" ELSE progress[d]
  BY <1>1, <1>3 DEF States
<1>5. wire' \in Seq(Tokens) /\ Streams(stream, progress)'
  <2>1. progress[c] # "answered" /\ progress'[c] = "answered"
    BY <1>1, <1>4
  <2>2. \A d \in Commands : progress[d] = "answered" => progress'[d] = "answered"
    BY <1>4
  <2>3. /\ wire \o Frame(c) \in Seq(Tokens)
        /\ Streams(buffer \o (wire \o Frame(c)), progress')
    BY <1>3, <2>1, <2>2, FrameAdded
  <2> QED
    BY <1>1, <2>3 DEF stream
<1>6. HoldingIn(progress') = HoldingIn(progress)
  BY <1>1, <1>4 DEF HoldingIn
<1>7. Dispenses(freedInts, curValue, id, HoldingIn(progress))'
  BY <1>1, <1>2, <1>6
<1>8. Evaluates(executeCommandsQueue, PendingExecuteCommands, progress)'
  <2>1. \A d \in Executions : d \in Commands
    BY DEF Commands
  <2>2. \A d \in Executions :
           /\ progress'[d] \in {"asked", "answered"} <=> progress[d] \in {"asked", "answered"}
           /\ progress'[d] = "queued" <=> progress[d] = "queued"
    BY <1>1, <1>4, <2>1
  <2> QED
    BY <1>1, <1>2, <2>2 DEF Evaluates
<1>9. \A e \in PendingChildEnumCommands' : progress'[e] \in {"asked", "answered"}
  <2>1. \A e \in PendingChildEnumCommands : e \in Commands
    BY <1>2 DEF TypeOK, Commands
  <2> QED
    BY <1>1, <1>2, <1>4, <2>1
<1>10. AnswersReachTheirAsker'
  BY <1>1, <1>2, <1>4 DEF AnswersReachTheirAsker
<1>11. TypeOK'
  BY <1>1, <1>2, <1>4, <1>5 DEF TypeOK, States, Tokens
<1> QED
  BY <1>5, <1>7, <1>8, <1>9, <1>10, <1>11 DEF Inv

\* HandlePartialFrame and ProgramEnds leave the stream as it is.
LEMMA QuietStepInv ==
    ASSUME Inv, HandlePartialFrame \/ ProgramEnds \/ UNCHANGED vars
    PROVE  Inv'
<1>1. UNCHANGED <<idVars, progress, outcome, pendingVars, timers, wire>>
  BY DEF HandlePartialFrame, ProgramEnds, vars, streamVars
<1>2. buffer' = buffer
  BY DEF HandlePartialFrame, ProgramEnds, vars, streamVars, RolledBack
<1>3. greeted' = greeted /\ ended' \in BOOLEAN /\ handling' \in BOOLEAN
  BY DEF HandlePartialFrame, ProgramEnds, vars, streamVars, linkVars, Inv, TypeOK
<1>4. greeted' \in 0 .. Len(Greeting)
  BY <1>3 DEF Inv, TypeOK
<1>5. buffer \in Seq(Tokens) /\ wire \in Seq(Tokens) /\ Streams(buffer \o wire, progress)
  BY StreamTypes DEF Inv, stream
<1> QED
  BY <1>1, <1>2, <1>3, <1>4, <1>5, StreamStep

LEMMA NextInv == Inv /\ [Next]_vars => Inv'
<1> SUFFICES ASSUME Inv, [Next]_vars PROVE Inv'
  OBVIOUS
<1>1. CASE \E c \in Executions : ExecuteText(c)
  BY <1>1, ExecuteTextInv
<1>2. CASE \E e \in Enumerations : EnumChildren(e)
  BY <1>2, EnumChildrenInv
<1>3. CASE \E c \in Commands : ProgramAnswers(c)
  BY <1>3, ProgramAnswersInv
<1>4. CASE HandlePartialFrame \/ ProgramEnds \/ UNCHANGED vars
  BY <1>4, QuietStepInv
<1> QED
  BY <1>1, <1>2, <1>3, <1>4, TimerFiresInv, HandleGreetingInv, HandleFrameInv, DataArrivesInv
     DEF Next

-----------------------------------------------------------------------------
(* The theorems.                                                           *)

LEMMA InvImplies ==
    ASSUME Inv
    PROVE  DispenserInvariant /\ ExecutionInvariant
<1>1. /\ Dispenses(freedInts, curValue, id, HoldingIn(progress))
      /\ Evaluates(executeCommandsQueue, PendingExecuteCommands, progress)
      /\ freedInts \in Seq(Nat) /\ curValue \in Nat
      /\ executeCommandsQueue \in Seq(Executions)
  BY StreamTypes DEF Inv
<1>2. Holding = HoldingIn(progress)
  BY DEF Holding, HoldingIn
<1>3. /\ DOMAIN freedInts = 1 .. Len(freedInts)
      /\ DOMAIN executeCommandsQueue = 1 .. Len(executeCommandsQueue)
      /\ \A i \in 1 .. Len(executeCommandsQueue) : executeCommandsQueue[i] \in Executions
  BY <1>1, LenProperties, ElementOfSeq
<1>4. DispenserInvariant
  <2>1. FreedIds = {freedInts[i] : i \in 1 .. Len(freedInts)}
    BY <1>3 DEF FreedIds
  <2>2. \A c \in Holding : id[c] \notin FreedIds
    BY <1>1, <1>2, <2>1 DEF Dispenses
  <2>3. FreedIds \union {id[c] : c \in Holding} = 0 .. curValue - 1
    BY <1>1, <1>2, <2>1, SMTT(60) DEF Dispenses
  <2> QED
    BY <1>1, <1>2, <1>3, <2>2, <2>3 DEF Dispenses, DispenserInvariant
<1>5. Cardinality(PendingExecuteCommands) <= 1
  <2>1. CASE PendingExecuteCommands = {}
    BY <2>1, FS_EmptySet
  <2>2. CASE PendingExecuteCommands # {}
    <3>1. PICK c \in PendingExecuteCommands : TRUE
      BY <2>2
    <3>2. \A d, e \in PendingExecuteCommands : d = e
      BY <1>1 DEF Evaluates
    <3>3. PendingExecuteCommands = {c}
      BY <3>1, <3>2
    <3>4. Cardinality({c}) = 1
      BY FS_Singleton
    <3> QED
      BY <3>3, <3>4
  <2> QED
    BY <2>1, <2>2
<1>6. Range(executeCommandsQueue) = {c \in Executions : progress[c] = "queued"}
  BY <1>1, <1>3 DEF Range, Evaluates
<1>7. ExecutionInvariant
  BY <1>1, <1>5, <1>6 DEF ExecutionInvariant, Evaluates
<1> QED
  BY <1>4, <1>7

\* The strengthening holds of every behaviour.
THEOREM Invariance == Spec => []Inv
  BY InitInv, NextInv, PTL DEF Spec

\* The variables have their types.
THEOREM TypeCorrect == Spec => []TypeOK
<1>1. Inv => TypeOK
  BY DEF Inv
<1> QED
  BY <1>1, Invariance, PTL

\* Whatever the order of the answers, an id is never shared and never lost.
THEOREM DispenserInvariance == Spec => []DispenserInvariant
  BY InvImplies, Invariance, PTL

\* One expression is evaluated at a time, and none waits while nothing is evaluated.
THEOREM ExecutionInvariance == Spec => []ExecutionInvariant
  BY InvImplies, Invariance, PTL

\* The types, the ids and the evaluations of the connection, for any commands.
THEOREM ProcessCorrect == Spec => []ProcessInvariant
<1>1. TypeOK /\ DispenserInvariant /\ ExecutionInvariant => ProcessInvariant
  BY DEF ProcessInvariant
<1> QED
  BY <1>1, TypeCorrect, DispenserInvariance, ExecutionInvariance, PTL

\* A promise is settled by the answer to its own command, whatever the pieces in
\* which the socket delivers and whatever ids are used again.
THEOREM AnswersReachTheirAskerAlways == Spec => []AnswersReachTheirAsker
<1>1. Inv => AnswersReachTheirAsker
  BY DEF Inv
<1> QED
  BY <1>1, Invariance, PTL


\* A set of numbers with 0 and the next of each of its numbers has every number.
LEMMA SetInduction ==
    ASSUME NEW S \in SUBSET Nat, 0 \in S, \A n \in S : n + 1 \in S
    PROVE  S = Nat
<1> SUFFICES ASSUME S # Nat
             PROVE  FALSE
  OBVIOUS
<1> DEFINE T == {0 .. k : k \in Nat \ S}
<1>1. T \subseteq FiniteSubsetsOf(Nat) /\ T # {}
  <2>1. ASSUME NEW k \in Nat \ S
        PROVE  0 .. k \in FiniteSubsetsOf(Nat)
    <3>1. IsFiniteSet(0 .. k)
      BY FS_Interval
    <3>2. 0 .. k \in SUBSET Nat
      OBVIOUS
    <3> QED
      BY <3>1, <3>2 DEF FiniteSubsetsOf
  <2>2. PICK k \in Nat : k \notin S
    OBVIOUS
  <2>3. 0 .. k \in T
    BY <2>2
  <2> QED
    BY <2>1, <2>3
<1>2. IsWellFoundedOn(StrictSubsetOrdering(Nat), FiniteSubsetsOf(Nat))
  BY FS_StrictSubsetOrderingWellFounded
<1>3. PICK x \in T : \A y \in T : ~(<<y, x>> \in StrictSubsetOrdering(Nat))
  <2> HIDE DEF T
  <2> QED
    BY <1>1, <1>2, WFMin
<1>4. PICK k \in Nat \ S : x = 0 .. k
  OBVIOUS
<1>5. k # 0
  OBVIOUS
<1>6. k - 1 \in Nat \ S
  BY <1>5
<1>7. 0 .. (k - 1) \in T
  BY <1>6
<1>8. /\ 0 .. (k - 1) \in SUBSET Nat /\ 0 .. k \in SUBSET Nat
      /\ 0 .. (k - 1) \subseteq 0 .. k /\ k \in 0 .. k /\ k \notin 0 .. (k - 1)
  BY <1>4
<1>9. <<0 .. (k - 1), 0 .. k>> \in StrictSubsetOrdering(Nat)
  <2> DEFINE a == 0 .. (k - 1)
             b == 0 .. k
  <2>1. a \in SUBSET Nat /\ b \in SUBSET Nat /\ a \subseteq b /\ a # b
    BY <1>8
  <2> HIDE DEF a, b
  <2>2. <<a, b>> \in {ss \in (SUBSET Nat) \X (SUBSET Nat) : ss[1] \subseteq ss[2] /\ ss[1] # ss[2]}
    BY <2>1
  <2> QED
    BY <2>2 DEF StrictSubsetOrdering, a, b
<1> QED
  BY <1>3, <1>4, <1>7, <1>9

\* The least of a set of numbers.
LEMMA MinProperties ==
    ASSUME NEW S \in SUBSET Nat, S # {}
    PROVE  Min(S) \in S /\ \A y \in S : Min(S) <= y
<1>1. \E x \in S : \A y \in S : x <= y
  <2> SUFFICES ASSUME \A x \in S : \E y \in S : ~(x <= y)
               PROVE  FALSE
    OBVIOUS
  <2> DEFINE T == {n \in Nat : \A y \in S : n <= y}
  <2>1. 0 \in T
    OBVIOUS
  <2>2. ASSUME NEW n \in T
        PROVE  n + 1 \in T
    <3>1. n \in Nat /\ \A y \in S : n <= y
      BY <2>2
    <3>2. n \notin S
      BY <3>1
    <3>3. ASSUME NEW y \in S
          PROVE  n + 1 <= y
      <4>1. n <= y /\ y # n /\ y \in Nat
        BY <3>1, <3>2
      <4> QED
        BY <3>1, <4>1
    <3> QED
      BY <3>1, <3>3
  <2>3. T = Nat
    <3>1. T \in SUBSET Nat
      OBVIOUS
    <3> HIDE DEF T
    <3> QED
      BY <2>1, <2>2, <3>1, SetInduction
  <2>4. PICK y \in S : TRUE
    OBVIOUS
  <2>5. y + 1 \in Nat
    OBVIOUS
  <2>6. y + 1 \in T
    <3> HIDE DEF T
    <3> QED
      BY <2>3, <2>5
  <2> QED
    BY <2>6
<1> QED
  BY <1>1 DEF Min

\* The greatest of a bounded set of numbers.
LEMMA MaxProperties ==
    ASSUME NEW N \in Nat, NEW S \in SUBSET (1 .. N), S # {}
    PROVE  Max(S) \in S /\ \A y \in S : Max(S) >= y
<1> DEFINE T == {n \in Nat : \A y \in S : y <= n}
<1>1. T # {} /\ T \in SUBSET Nat
  <2>1. N \in T
    OBVIOUS
  <2> QED
    BY <2>1
<1>2. Min(T) \in T /\ \A n \in T : Min(T) <= n
  <2> HIDE DEF T
  <2> QED
    BY <1>1, MinProperties
<1> DEFINE m == Min(T)
<1>3. m \in Nat /\ (\A y \in S : y <= m) /\ \A n \in T : m <= n
  BY <1>2
<1> HIDE DEF m
<1>4. m \in S
  <2> SUFFICES ASSUME m \notin S
               PROVE  FALSE
    OBVIOUS
  <2>1. ASSUME NEW y \in S
        PROVE  y <= m - 1 /\ m - 1 \in Nat
    <3>1. y \in 1 .. N /\ y <= m /\ y # m
      BY <1>3
    <3> QED
      BY <1>3, <3>1
  <2>2. m - 1 \in T
    BY <2>1
  <2>3. m <= m - 1
    <3> HIDE DEF T
    <3> QED
      BY <1>3, <2>2
  <2> QED
    BY <1>3, <2>3
<1>5. \E x \in S : \A y \in S : x >= y
  <2>1. \A y \in S : m >= y
    BY <1>3
  <2> QED
    BY <1>4, <2>1
<1> QED
  BY <1>5 DEF Max

\* A finite set of numbers can be put in order.
LEMMA AscendingExists ==
    ASSUME NEW S \in SUBSET Nat, IsFiniteSet(S)
    PROVE  \E s \in [1 .. Cardinality(S) -> S] : \A j, k \in DOMAIN s : j < k => s[j] < s[k]
<1> DEFINE Ordered(R, n) == \E s \in [1 .. n -> R] : \A j, k \in 1 .. n : j < k => s[j] < s[k]
           N == {n \in Nat : \A R \in SUBSET Nat :
                    IsFiniteSet(R) /\ Cardinality(R) = n => Ordered(R, n)}
<1>1. 0 \in N
  <2>1. ASSUME NEW R \in SUBSET Nat
        PROVE  Ordered(R, 0)
    <3> DEFINE s == [k \in 1 .. 0 |-> 0]
    <3>1. s \in [1 .. 0 -> R] /\ \A j, k \in 1 .. 0 : j < k => s[j] < s[k]
      OBVIOUS
    <3> QED
      BY <3>1
  <2> QED
    BY <2>1
<1>2. ASSUME NEW n \in N
      PROVE  n + 1 \in N
  <2>1. n \in Nat /\ \A R \in SUBSET Nat : IsFiniteSet(R) /\ Cardinality(R) = n => Ordered(R, n)
    BY <1>2
  <2>2. ASSUME NEW R \in SUBSET Nat, IsFiniteSet(R), Cardinality(R) = n + 1
        PROVE  Ordered(R, n + 1)
    <3>1. R # {}
      BY <2>1, <2>2, FS_EmptySet
    <3> DEFINE m == Min(R)
               Q == R \ {m}
    <3>2. m \in R /\ \A y \in R : m <= y
      BY <3>1, MinProperties
    <3> HIDE DEF m
    <3>3. IsFiniteSet(Q) /\ Cardinality(Q) = n
      BY <2>1, <2>2, <3>2, FS_RemoveElement
    <3>4. Q \in SUBSET Nat /\ \A y \in Q : y \in R /\ m < y
      BY <3>2
    <3> HIDE DEF Q
    <3>5. Ordered(Q, n)
      BY <2>1, <3>3, <3>4
    <3>6. PICK q \in [1 .. n -> Q] : \A j, k \in 1 .. n : j < k => q[j] < q[k]
      BY <3>5
    <3> DEFINE s == [k \in 1 .. n + 1 |-> IF k = 1 THEN m ELSE q[k - 1]]
    <3>7. \A k \in 1 .. n + 1 : k = 1 \/ k - 1 \in 1 .. n
      BY <2>1
    <3>8. s \in [1 .. n + 1 -> R]
      BY <3>2, <3>4, <3>7
    <3>9. ASSUME NEW j \in 1 .. n + 1, NEW k \in 1 .. n + 1, j < k
          PROVE  s[j] < s[k]
      <4>1. k - 1 \in 1 .. n /\ s[k] = q[k - 1] /\ q[k - 1] \in Q
        BY <2>1, <3>9
      <4>2. CASE j = 1
        BY <3>4, <4>1, <4>2
      <4>3. CASE j # 1
        <5>1. j - 1 \in 1 .. n /\ j - 1 < k - 1 /\ s[j] = q[j - 1]
          BY <2>1, <3>9, <4>3
        <5> QED
          BY <3>6, <4>1, <5>1
      <4> QED
        BY <4>2, <4>3
    <3> HIDE DEF s
    <3> QED
      BY <3>8, <3>9
  <2> HIDE DEF Ordered
  <2> QED
    BY <2>1, <2>2
<1>3. N = Nat
  <2>1. N \in SUBSET Nat
    OBVIOUS
  <2> HIDE DEF N
  <2> QED
    BY <1>1, <1>2, <2>1, SetInduction
<1>4. Cardinality(S) \in N
  <2>1. Cardinality(S) \in Nat
    BY FS_CardinalityType
  <2> HIDE DEF N
  <2> QED
    BY <1>3, <2>1
<1>5. Ordered(S, Cardinality(S))
  <2> HIDE DEF Ordered
  <2> QED
    BY <1>4
<1>6. PICK s \in [1 .. Cardinality(S) -> S] : \A j, k \in 1 .. Cardinality(S) : j < k => s[j] < s[k]
  BY <1>5
<1>7. DOMAIN s = 1 .. Cardinality(S)
  OBVIOUS
<1> QED
  BY <1>6, <1>7

\* A set in order has each of its numbers once, at its rank.
LEMMA InOrderProperties ==
    ASSUME NEW S \in SUBSET Nat, IsFiniteSet(S)
    PROVE  /\ Cardinality(S) \in Nat
           /\ InOrder(S) \in [1 .. Cardinality(S) -> S]
           /\ \A j, k \in 1 .. Cardinality(S) : InOrder(S)[j] = InOrder(S)[k] => j = k
           /\ \A x \in S : \E k \in 1 .. Cardinality(S) : InOrder(S)[k] = x
           /\ \A k \in 1 .. Cardinality(S) :
                 Cardinality({l \in S : l <= InOrder(S)[k]}) = k
<1> DEFINE n == Cardinality(S)
           s == InOrder(S)
<1>1. n \in Nat
  BY FS_CardinalityType
<1>2. s \in [1 .. n -> S] /\ \A j, k \in DOMAIN s : j < k => s[j] < s[k]
  BY AscendingExists DEF InOrder
<1> HIDE DEF s
<1>3. \A j, k \in 1 .. n : j < k => s[j] < s[k]
  BY <1>2
<1>4. \A j \in 1 .. n : s[j] \in S /\ s[j] \in Nat
  BY <1>2
<1> HIDE DEF n
<1>5. \A j, k \in 1 .. n : j < k \/ k < j \/ j = k
  BY <1>1
<1>6. \A j, k \in 1 .. n : s[j] = s[k] => j = k
  <2> SUFFICES ASSUME NEW j \in 1 .. n, NEW k \in 1 .. n, s[j] = s[k]
               PROVE  j = k
    OBVIOUS
  <2>1. ~(s[j] < s[k]) /\ ~(s[k] < s[j])
    BY <1>4
  <2> QED
    BY <1>3, <1>5, <2>1
<1>7. \A x \in S : \E k \in 1 .. n : s[k] = x
  <2>1. s \in Injection(1 .. n, S)
    BY <1>2, <1>6 DEF Injection, IsInjective
  <2>2. Cardinality(1 .. n) = n
    BY <1>1, FS_Interval
  <2>3. s \in Surjection(1 .. n, S)
    BY <2>1, <2>2, FS_Injection DEF n
  <2> QED
    BY <2>3 DEF Surjection
<1>8. ASSUME NEW k \in 1 .. n
      PROVE  Cardinality({l \in S : l <= s[k]}) = k
  <2> DEFINE L == {l \in S : l <= s[k]}
             g == [j \in 1 .. k |-> s[j]]
  <2>1. \A j \in 1 .. k : j \in 1 .. n /\ (j = k \/ j < k)
    BY <1>1
  <2>2. \A j \in 1 .. k : s[j] \in L
    BY <1>3, <1>4, <2>1
  <2>3. \A l \in L : \E j \in 1 .. k : s[j] = l
    <3> SUFFICES ASSUME NEW l \in L
                 PROVE  \E j \in 1 .. k : s[j] = l
      OBVIOUS
    <3>1. l \in S /\ l <= s[k] /\ l \in Nat
      OBVIOUS
    <3>2. PICK j \in 1 .. n : s[j] = l
      BY <1>7, <3>1
    <3>3. ~(s[k] < s[j])
      BY <1>4, <3>1, <3>2
    <3>4. ~(k < j)
      BY <1>3, <3>3
    <3>5. j \in 1 .. k
      BY <1>1, <3>4
    <3> QED
      BY <3>2, <3>5
  <2>4. \A i, j \in 1 .. k : s[i] = s[j] => i = j
    BY <1>6, <2>1
  <2> HIDE DEF L
  <2>5. g \in Bijection(1 .. k, L)
    BY <2>2, <2>3, <2>4 DEF Bijection, Injection, Surjection, IsInjective
  <2>6. k \in Nat
    OBVIOUS
  <2> HIDE DEF g
  <2>7. Cardinality(L) = k
    BY <2>5, <2>6, FS_CountingElements DEF ExistsBijection
  <2> QED
    BY <2>7 DEF L
<1> QED
  BY <1>1, <1>2, <1>6, <1>7, <1>8 DEF n, s

\* How many elements of a sequence are in a set.
Count(s, T) == Cardinality({k \in DOMAIN s : s[k] \in T})

\* It is a number up to the length.
LEMMA CountType ==
    ASSUME NEW S, NEW s \in Seq(S), NEW T
    PROVE  /\ IsFiniteSet({k \in DOMAIN s : s[k] \in T})
           /\ Count(s, T) \in Nat
           /\ Count(s, T) <= Len(s)
           /\ Count(s, T) > 0 <=> \E k \in DOMAIN s : s[k] \in T
<1> DEFINE I == {k \in DOMAIN s : s[k] \in T}
<1>1. Len(s) \in Nat /\ DOMAIN s = 1 .. Len(s)
  BY LenProperties
<1>2. IsFiniteSet(1 .. Len(s)) /\ Cardinality(1 .. Len(s)) = Len(s)
  BY <1>1, FS_Interval
<1>3. I \in SUBSET (1 .. Len(s))
  BY <1>1
<1> HIDE DEF I
<1>4. IsFiniteSet(I) /\ Cardinality(I) <= Len(s)
  BY <1>2, <1>3, FS_Subset
<1>5. Cardinality(I) \in Nat /\ (Cardinality(I) = 0 <=> I = {})
  BY <1>4, FS_CardinalityType, FS_EmptySet
<1>6. Cardinality(I) > 0 <=> I # {}
  BY <1>5
<1>7. I # {} <=> \E k \in DOMAIN s : s[k] \in T
  BY DEF I
<1>8. Count(s, T) = Cardinality(I)
  BY DEF Count, I
<1> QED
  BY <1>4, <1>5, <1>6, <1>7, <1>8 DEF I

\* A concatenation has those of both parts.
LEMMA CountConcat ==
    ASSUME NEW S, NEW a \in Seq(S), NEW b \in Seq(S), NEW T
    PROVE  Count(a \o b, T) = Count(a, T) + Count(b, T)
<1> DEFINE c == a \o b
           m == Len(a)
           n == Len(b)
           I == {i \in 1 .. m : a[i] \in T}
           J == {i \in 1 .. n : b[i] \in T}
           K == {i \in m + 1 .. m + n : b[i - m] \in T}
           C == {i \in 1 .. m + n : c[i] \in T}
<1>1. m \in Nat /\ n \in Nat /\ DOMAIN a = 1 .. m /\ DOMAIN b = 1 .. n
  BY LenProperties
<1>2. /\ c \in Seq(S) /\ Len(c) = m + n
      /\ \A i \in 1 .. m + n : c[i] = IF i <= m THEN a[i] ELSE b[i - m]
  BY ConcatProperties
<1> HIDE DEF c, m, n
<1>3. DOMAIN c = 1 .. m + n
  BY <1>2, LenProperties
<1>4. Count(a, T) = Cardinality(I) /\ Count(b, T) = Cardinality(J) /\ Count(c, T) = Cardinality(C)
  BY <1>1, <1>3 DEF Count
<1>5. IsFiniteSet(I) /\ IsFiniteSet(J) /\ IsFiniteSet(K)
  <2>1. IsFiniteSet(1 .. m) /\ IsFiniteSet(1 .. n) /\ IsFiniteSet(m + 1 .. m + n)
    BY <1>1, FS_Interval
  <2>2. I \in SUBSET (1 .. m) /\ J \in SUBSET (1 .. n) /\ K \in SUBSET (m + 1 .. m + n)
    OBVIOUS
  <2> HIDE DEF I, J, K
  <2> QED
    BY <2>1, <2>2, FS_Subset
<1>6. Cardinality(I) \in Nat /\ Cardinality(J) \in Nat /\ Cardinality(K) \in Nat
  <2> HIDE DEF I, J, K
  <2> QED
    BY <1>5, FS_CardinalityType
<1>7. C = I \cup K /\ I \cap K = {}
  BY <1>1, <1>2
<1>8. Cardinality(K) = Cardinality(J)
  <2> DEFINE f == [i \in J |-> i + m]
  <2>1. f \in [J -> K]
    BY <1>1
  <2>2. \A i, j \in J : f[i] = f[j] => i = j
    BY <1>1
  <2>3. \A k \in K : \E i \in J : f[i] = k
    <3>1. ASSUME NEW k \in K
          PROVE  k - m \in J /\ f[k - m] = k
      BY <1>1
    <3> QED
      BY <3>1
  <2> HIDE DEF f, J, K
  <2>4. f \in Bijection(J, K)
    BY <2>1, <2>2, <2>3 DEF Bijection, Injection, Surjection, IsInjective
  <2> QED
    BY <1>5, <2>4, FS_Bijection DEF ExistsBijection
<1> HIDE DEF I, J, K, C
<1>9. Cardinality(I \cup K) = Cardinality(I) + Cardinality(K)
  <2>1. Cardinality(I \cup K) = Cardinality(I) + Cardinality(K) - Cardinality(I \cap K)
    BY <1>5, FS_Union
  <2>2. Cardinality(I \cap K) = 0
    BY <1>7, FS_EmptySet
  <2> QED
    BY <1>6, <2>1, <2>2
<1> QED
  BY <1>4, <1>6, <1>7, <1>8, <1>9 DEF c

\* Sequences all of whose elements are in the set, or none.
LEMMA CountUniform ==
    ASSUME NEW S, NEW s \in Seq(S), NEW T
    PROVE  /\ (\A k \in DOMAIN s : s[k] \in T) => Count(s, T) = Len(s)
           /\ (\A k \in DOMAIN s : s[k] \notin T) => Count(s, T) = 0
<1>1. Len(s) \in Nat /\ DOMAIN s = 1 .. Len(s)
  BY LenProperties
<1>2. ASSUME \A k \in DOMAIN s : s[k] \in T
      PROVE  Count(s, T) = Len(s)
  <2>1. {k \in DOMAIN s : s[k] \in T} = 1 .. Len(s)
    BY <1>1, <1>2
  <2>2. Cardinality(1 .. Len(s)) = Len(s)
    BY <1>1, FS_Interval
  <2> QED
    BY <2>1, <2>2 DEF Count
<1>3. ASSUME \A k \in DOMAIN s : s[k] \notin T
      PROVE  Count(s, T) = 0
  BY <1>3, CountType
<1> QED
  BY <1>2, <1>3

\* A sequence of one has its element.
LEMMA CountOne ==
    ASSUME NEW e, NEW T
    PROVE  Count(<<e>>, T) = IF e \in T THEN 1 ELSE 0
<1>1. <<e>> \in Seq({e}) /\ Len(<<e>>) = 1 /\ \A k \in DOMAIN <<e>> : <<e>>[k] = e
  OBVIOUS
<1> QED
  BY <1>1, CountUniform

\* One more counts if it is in the set.
LEMMA CountAppend ==
    ASSUME NEW S, NEW s \in Seq(S), NEW e \in S, NEW T
    PROVE  Count(Append(s, e), T) = Count(s, T) + (IF e \in T THEN 1 ELSE 0)
<1>1. Append(s, e) = s \o <<e>> /\ <<e>> \in Seq(S)
  BY AppendIsConcat
<1>2. Count(s \o <<e>>, T) = Count(s, T) + Count(<<e>>, T)
  BY <1>1, CountConcat
<1>3. Count(<<e>>, T) = IF e \in T THEN 1 ELSE 0
  BY CountOne
<1> QED
  BY <1>1, <1>2, <1>3

\* A sequence is what comes first and the rest.
LEMMA HeadAndTail ==
    ASSUME NEW S, NEW s \in Seq(S), s # <<>>
    PROVE  /\ Head(s) \in S /\ Tail(s) \in Seq(S) /\ <<Head(s)>> \in Seq(S)
           /\ s = <<Head(s)>> \o Tail(s)
           /\ Len(s) \in Nat \ {0} /\ Head(s) = s[1]
           /\ Len(Tail(s)) = Len(s) - 1
           /\ \A i \in 1 .. Len(s) - 1 : Tail(s)[i] = s[i + 1]
<1>1. /\ Tail(s) \in Seq(S) /\ Head(s) \in S /\ <<Head(s)>> \in Seq(S)
      /\ Len(Tail(s)) = Len(s) - 1
      /\ \A i \in 1 .. Len(s) - 1 : Tail(s)[i] = s[i + 1]
  BY HeadTailProperties
<1>2. Len(s) \in Nat \ {0}
  BY EmptySeq
<1>3. SubSeq(s, 1, Len(s)) = <<s[1]>> \o SubSeq(s, 1 + 1, Len(s))
  BY <1>2, SubSeqRecursiveFirst
<1>4. SubSeq(s, 1, Len(s)) = s
  BY SubSeqFull
<1>5. Tail(s) = SubSeq(s, 2, Len(s))
  BY TailIsSubSeq
<1>6. Head(s) = s[1]
  OBVIOUS
<1> QED
  BY <1>1, <1>2, <1>3, <1>4, <1>5, <1>6

\* The tail has all but the head.
LEMMA CountTail ==
    ASSUME NEW S, NEW s \in Seq(S), s # <<>>, NEW T
    PROVE  /\ Count(s, T) = Count(Tail(s), T) + (IF Head(s) \in T THEN 1 ELSE 0)
           /\ Count(Tail(s), T) = Count(s, T) - (IF Head(s) \in T THEN 1 ELSE 0)
<1>1. Tail(s) \in Seq(S) /\ Head(s) \in S /\ <<Head(s)>> \in Seq(S) /\ s = <<Head(s)>> \o Tail(s)
  BY HeadAndTail
<1>2. Count(s, T) = Count(<<Head(s)>>, T) + Count(Tail(s), T)
  <2> DEFINE h == <<Head(s)>>
             t == Tail(s)
  <2>1. h \in Seq(S) /\ t \in Seq(S) /\ s = h \o t
    BY <1>1
  <2> HIDE DEF h, t
  <2>2. Count(h \o t, T) = Count(h, T) + Count(t, T)
    BY <2>1, CountConcat
  <2> QED
    BY <2>1, <2>2 DEF h, t
<1>3. Count(Tail(s), T) \in Nat
  BY <1>1, CountType
<1>4. Count(<<Head(s)>>, T) = IF Head(s) \in T THEN 1 ELSE 0
  BY CountOne
<1> QED
  BY <1>2, <1>3, <1>4

\* A sequence without its k-th element.
LEMMA RemoveAtProperties ==
    ASSUME NEW S, NEW s \in Seq(S), NEW k \in 1 .. Len(s)
    PROVE  /\ RemoveAt(s, k) \in Seq(S)
           /\ Range(s) = Range(RemoveAt(s, k)) \union {s[k]}
           /\ \A T : Count(RemoveAt(s, k), T) = Count(s, T) - (IF s[k] \in T THEN 1 ELSE 0)
<1> DEFINE a == SubSeq(s, 1, k - 1)
           b == SubSeq(s, k + 1, Len(s))
           c == a \o <<s[k]>>
<1>1. Len(s) \in Nat /\ s[k] \in S /\ k - 1 \in 0 .. Len(s) /\ k \in 0 .. Len(s) /\ k \in Int
  BY LenProperties, ElementOfSeq
<1>2. a \in Seq(S) /\ b \in Seq(S) /\ <<s[k]>> \in Seq(S)
  BY <1>1, PrefixProperties, SuffixProperties
<1>3. SubSeq(s, 1, k) = c
  BY <1>1, SubSeqRecursiveSecond
<1>4. s = SubSeq(s, 1, k) \o b
  <2>1. 1 \in 1 .. Len(s) + 1 /\ k \in 1 - 1 .. Len(s) /\ Len(s) \in k .. Len(s)
    BY <1>1
  <2>2. SubSeq(s, 1, k) \o SubSeq(s, k + 1, Len(s)) = SubSeq(s, 1, Len(s))
    BY <2>1, ConcatAdjacentSubSeq
  <2> QED
    BY <2>2, SubSeqFull
<1>5. RemoveAt(s, k) = a \o b
  BY DEF RemoveAt
<1> HIDE DEF a, b
<1>7. c \in Seq(S) /\ a \o b \in Seq(S)
  BY <1>2, ConcatProperties
<1>12. Range(c) = Range(a) \union Range(<<s[k]>>)
  BY <1>2, RangeConcatenation
<1>13. \A T : Count(c, T) = Count(a, T) + Count(<<s[k]>>, T)
  BY <1>2, CountConcat
<1> HIDE DEF c
<1>6. s = c \o b
  BY <1>3, <1>4
<1>14. Range(s) = Range(c) \union Range(b)
  BY <1>2, <1>6, <1>7, RangeConcatenation
<1>8. Range(s) = (Range(a) \union Range(<<s[k]>>)) \union Range(b)
  BY <1>12, <1>14
<1>9. Range(<<s[k]>>) = {s[k]}
  BY DEF Range
<1>10. Range(a \o b) = Range(a) \union Range(b)
  BY <1>2, RangeConcatenation
<1>11. ASSUME NEW T
       PROVE  Count(a \o b, T) = Count(s, T) - (IF s[k] \in T THEN 1 ELSE 0)
  <2>1. Count(s, T) = (Count(a, T) + Count(<<s[k]>>, T)) + Count(b, T)
    <3>1. Count(c \o b, T) = Count(c, T) + Count(b, T)
      BY <1>2, <1>7, CountConcat
    <3> QED
      BY <1>6, <1>13, <3>1
  <2>2. Count(a \o b, T) = Count(a, T) + Count(b, T)
    BY <1>2, CountConcat
  <2>3. Count(a, T) \in Nat /\ Count(b, T) \in Nat
    BY <1>2, CountType
  <2>4. Count(<<s[k]>>, T) = IF s[k] \in T THEN 1 ELSE 0
    BY CountOne
  <2> QED
    BY <2>1, <2>2, <2>3, <2>4
<1> QED
  BY <1>5, <1>7, <1>8, <1>9, <1>10, <1>11

\* The elements of a longer and of a shorter sequence.
LEMMA RangeAppend ==
    ASSUME NEW S, NEW s \in Seq(S), NEW e \in S
    PROVE  Append(s, e) \in Seq(S) /\ Range(Append(s, e)) = Range(s) \union {e}
<1>1. Append(s, e) = s \o <<e>> /\ <<e>> \in Seq(S) /\ Append(s, e) \in Seq(S)
  BY AppendIsConcat, AppendProperties
<1>2. Range(<<e>>) = {e}
  BY DEF Range
<1>3. Range(s \o <<e>>) = Range(s) \union Range(<<e>>)
  BY <1>1, RangeConcatenation
<1> QED
  BY <1>1, <1>2, <1>3

\* The elements are the head and those of the tail.
LEMMA RangeTail ==
    ASSUME NEW S, NEW s \in Seq(S), s # <<>>
    PROVE  /\ Tail(s) \in Seq(S) /\ Head(s) \in S
           /\ Range(s) = Range(Tail(s)) \union {Head(s)}
<1>1. Tail(s) \in Seq(S) /\ Head(s) \in S /\ <<Head(s)>> \in Seq(S) /\ s = <<Head(s)>> \o Tail(s)
  BY HeadAndTail
<1>2. Range(<<Head(s)>>) = {Head(s)}
  BY DEF Range
<1>3. Range(s) = Range(<<Head(s)>>) \union Range(Tail(s))
  BY <1>1, RangeConcatenation
<1> QED
  BY <1>1, <1>2, <1>3

\* What is counted is there.
LEMMA CountInRange ==
    ASSUME NEW S, NEW s \in Seq(S), NEW T
    PROVE  Count(s, T) > 0 <=> \E e \in Range(s) : e \in T
<1>1. Count(s, T) > 0 <=> \E k \in DOMAIN s : s[k] \in T
  BY CountType
<1>2. (\E k \in DOMAIN s : s[k] \in T) <=> \E e \in Range(s) : e \in T
  BY DEF Range
<1> QED
  BY <1>1, <1>2

-----------------------------------------------------------------------------
(* What the argument is about.                                             *)

\* The reactions that are queued between the events.
Tasks ==
    ({"set", "answer"} \X RequestIds) \union ({"bound"} \X RequestIds \X Nat \X BOOLEAN)
        \union {<<"resume", 0>>}

\* The tasks and the commands about the binds of a request.
BindTasks(r) == {<<"bound", r, i, verified>> : i \in Nat, verified \in BOOLEAN}
BindCommands(r) == [Id : Nat, request : {r}]

\* The requests that were sent are the first ones.
Sent == Len(requests) <= Requests /\ \A r \in RequestIds : stage[r] = "unsent" <=> r > Len(requests)

\* What is queued for a request is for one at that stage, and queued once.
TasksFit ==
    /\ microtasks \in Seq(Tasks)
    /\ \A r \in RequestIds :
          /\ <<"set", r>> \in Range(microtasks) => debuggerLoaded /\ stage[r] = "waiting"
          /\ <<"answer", r>> \in Range(microtasks) => stage[r] = "binding" /\ unsettled[r] = 0
          /\ Count(microtasks, {<<"set", r>>}) <= 1
          /\ Count(microtasks, {<<"answer", r>>}) <= 1
    /\ \A r \in RequestIds, i \in Nat, verified \in BOOLEAN :
          <<"bound", r, i, verified>> \in Range(microtasks) =>
             /\ stage[r] = "binding"
             /\ i \in Ids /\ breakpoints[i].file = requests[r].file

\* A command without an answer is one of a request that is being bound.
CommandsFit ==
    \A command \in Range(breakpointCommands) :
       /\ stage[command.request] = "binding"
       /\ breakpoints[command.Id].file = requests[command.request].file

\* A request waits for its own confirmations, and is answered after them.
Awaits ==
    \A r \in RequestIds :
       /\ stage[r] = "waiting" => ~debuggerLoaded \/ <<"set", r>> \in Range(microtasks)
       /\ unsettled[r] = Count(breakpointCommands, BindCommands(r)) + Count(microtasks, BindTasks(r))
       /\ stage[r] = "binding" /\ unsettled[r] = 0 => <<"answer", r>> \in Range(microtasks)

\* What is on the wire is about breakpoints that were built.
WireFits ==
    /\ \A command \in Range(toProgram) : command[1] \in {"bind", "disable"} => command[2] \in Ids
    /\ \A message \in Range(toAdapter) :
          message[1] \in {"BRKS", "BRKF", "BRKH"} => message[2] \in Ids

\* Before the program is loaded there is nothing to bind.
LoadComesFirst ==
    /\ ~debuggerLoaded => /\ breakpoints = <<>> /\ microtasks = <<>> /\ ~resumeWaits
                          /\ \A r \in RequestIds : stage[r] \in {"unsent", "waiting"}
    /\ launch = "none" => program = "none"
    /\ program \in {"none", "starting"} => ~debuggerLoaded /\ toAdapter = <<>>
    /\ configurationDone = "none" <=> launch = "none"

\* The first and the last messages of the program, and the timer of the last.
Loads == {<<"LOAD", i>> : i \in Nat}
Lasts == {<<"LAST", i>> : i \in Nat}
Closes == {<<"CLOSE", i>> : i \in Nat}

OnlyFirst(s, T) == \A k \in DOMAIN s : s[k] \in T => k = 1
OnlyLast(s, T) == \A k \in DOMAIN s : s[k] \in T => k = Len(s)

EndsOnce ==
    /\ OnlyFirst(toAdapter, Loads) /\ OnlyLast(toAdapter, Closes)
    /\ Count(toAdapter, Closes) > 0 => program = "ended"
    /\ Count(toAdapter, Lasts) > 0 \/ lastTimer => program \in {"exiting", "ended"}
    /\ Count(toAdapter, Lasts) + (IF lastTimer THEN 1 ELSE 0) <= 1

\* How often the start, and the end, may still be told.
StartsLeft ==
    (IF launch \in {"none", "starting"} THEN 1 ELSE 0)
    + (IF launch = "none" \/ entryResponse THEN 1 ELSE 0)
    + (IF launch = "none" \/ program = "starting" \/ Count(toAdapter, Loads) > 0 THEN 1 ELSE 0)

EndsLeft ==
    (IF editor.gone THEN 0 ELSE 1)
    + (IF program # "ended" \/ Count(toAdapter, Closes) > 0 THEN 1 ELSE 0)
    + (IF \/ lastTimer \/ program \notin {"exiting", "ended"}
          \/ Count(toAdapter, Lasts) > 0 THEN 1 ELSE 0)

Told == editor.launched + StartsLeft <= 3 /\ editor.terminated + EndsLeft <= 3

\* A session that was launched and is not over has its process; a handler throws
\* after the end only; and who waits for configurationDone will be told.
Stays ==
    /\ launch # "none" /\ ~terminateEventSent => pythonProcess
    /\ crashed => terminateEventSent
    /\ resumeWaits => configurationDone = "pending"

\* Every breakpoint is registered, or its confirmation is due.
BuiltAreKnown ==
    \A i \in Ids :
       \/ i \in registeredBreakpoints
       \/ \E command \in Range(breakpointCommands) : command.Id = i
       \/ \E r \in RequestIds, verified \in BOOLEAN :
             <<"bound", r, i, verified>> \in Range(microtasks)

\* For the files of which no two requests were open at once: one request is open, the
\* last one; a line has one breakpoint; and those of the last request are enabled.
OneOpen(f) ==
    \A q, r \in DOMAIN requests :
       q < r /\ requests[q].file = f /\ requests[r].file = f => stage[q] = "answered"

OneForLine(f) ==
    \A i, j \in Ids :
       breakpoints[i].file = f /\ breakpoints[j].file = f /\ breakpoints[i].line = breakpoints[j].line
          => i = j

EnabledFits(f) ==
    \A r \in DOMAIN requests :
       /\ requests[r].file = f /\ stage[r] \in {"binding", "answered"}
       /\ \A q \in DOMAIN requests : requests[q].file = f => q <= r
       /\ ~terminateEventSent
       => LinesOf(enabled, f) = requests[r].lines

InTurn == \A f \in Files \ overlapped : OneOpen(f) /\ OneForLine(f) /\ EnabledFits(f)

\* Whether a program that stops at the breakpoints stopsAt will stop at i once it has
\* done the commands.
WillStop(stopsAt, commands, i) ==
    \/ /\ i \in stopsAt
       /\ \A k \in DOMAIN commands : commands[k] # <<"disable", i>>
    \/ \E k \in DOMAIN commands :
          /\ commands[k] = <<"bind", i>>
          /\ \A j \in DOMAIN commands : j > k => commands[j] # <<"disable", i>>

\* The program is told what is enabled.
ProgramFollows ==
    ~terminateEventSent /\ ProgramConnected =>
       \A i \in Ids : WillStop(active, toProgram, i) <=> i \in enabled

\* What the adapter's queues and lists say of each other.
QueuesFit == Sent /\ TasksFit /\ CommandsFit /\ Awaits /\ RegistriesAgree /\ BuiltAreKnown
Lifecycle == LoadComesFirst /\ EndsOnce /\ Told /\ Stays

\* The inductive invariant.
SessionInv == SessionTypeOK /\ QueuesFit /\ WireFits /\ Lifecycle /\ ProgramFollows /\ InTurn

-----------------------------------------------------------------------------
(* The steps of the loop, by task and by message.                          *)

TaskRuns(task) == batch = 0 /\ ~crashed /\ microtasks # <<>> /\ Head(microtasks) = task
TaskFrame == UNCHANGED <<editorVars, editor, launchVars, endVars, batch, toAdapter, programVars>>

SetStep(r) == TaskRuns(<<"set", r>>) /\ SetBreakPoints(r) /\ UNCHANGED resumeVars /\ TaskFrame
BoundStep(r, i, verified) ==
    /\ TaskRuns(<<"bound", r, i, verified>>)
    /\ BreakpointBound(r, i, verified)
    /\ UNCHANGED resumeVars
    /\ TaskFrame
AnswerStep(r) == TaskRuns(<<"answer", r>>) /\ AnswerBreakpoints(r) /\ TaskFrame
ResumeStep == TaskRuns(<<"resume", 0>>) /\ ResumeAtEntry /\ UNCHANGED resumeVars /\ TaskFrame

MessageIs(message) ==
    /\ batch > 0 /\ ~crashed
    /\ toAdapter # <<>> /\ Head(toAdapter) = message
    /\ batch' = batch - 1
    /\ toAdapter' = Tail(toAdapter)
    /\ UNCHANGED <<editorVars, launch, pythonProcess, registryVars, stage, unsettled, programVars>>

LoadStep == (\E i \in Nat : MessageIs(<<"LOAD", i>>)) /\ HandleProcessLoad
OutputStep == (\E i \in Nat : MessageIs(<<"OUTP", i>>)) /\ HandleDebuggerOutput
ConfirmStep(i) ==
    \E kind \in {"BRKS", "BRKF"}, verified \in BOOLEAN :
       MessageIs(<<kind, i>>) /\ HandleBreakPointSet(i, verified)
HitStep(i) == MessageIs(<<"BRKH", i>>) /\ HandleBreakPointHit(i)
LastStep == (\E i \in Nat : MessageIs(<<"LAST", i>>)) /\ HandleLast

\* A pair, by its two parts.
LEMMA PairProperties ==
    ASSUME NEW A, NEW B, NEW p \in A \X B
    PROVE  p[1] \in A /\ p[2] \in B /\ p = <<p[1], p[2]>>
  OBVIOUS

\* A microtask is the reaction to the load, to a confirmation, to all of them, or to
\* configurationDone.
LEMMA TaskCases ==
    ASSUME microtasks \in Seq(Tasks), Microtask
    PROVE  \/ \E r \in RequestIds : SetStep(r)
           \/ \E r \in RequestIds, i \in Nat, verified \in BOOLEAN : BoundStep(r, i, verified)
           \/ \E r \in RequestIds : AnswerStep(r)
           \/ ResumeStep
<1> DEFINE task == Head(microtasks)
<1>1. batch = 0 /\ ~crashed /\ microtasks # <<>>
  BY DEF Microtask
<1>2. task \in Tasks
  BY <1>1, HeadTailProperties
<1>3. /\ \/ task[1] = "set" /\ SetBreakPoints(task[2]) /\ UNCHANGED resumeVars
         \/ task[1] = "bound" /\ BreakpointBound(task[2], task[3], task[4]) /\ UNCHANGED resumeVars
         \/ task[1] = "answer" /\ AnswerBreakpoints(task[2])
         \/ task[1] = "resume" /\ ResumeAtEntry /\ UNCHANGED resumeVars
      /\ TaskFrame
  BY Zenon DEF Microtask, TaskFrame
<1> HIDE DEF task
<1>4. \/ \E r \in RequestIds : task = <<"set", r>>
      \/ \E r \in RequestIds : task = <<"answer", r>>
      \/ \E r \in RequestIds, i \in Nat, verified \in BOOLEAN : task = <<"bound", r, i, verified>>
      \/ task = <<"resume", 0>>
  BY <1>2 DEF Tasks
<1>5. TaskRuns(task)
  BY <1>1 DEF TaskRuns, task
<1>6. ASSUME NEW r \in RequestIds, task = <<"set", r>>
      PROVE  SetStep(r)
  <2>1. task[1] = "set" /\ task[2] = r
    BY <1>6
  <2>2. SetBreakPoints(r) /\ UNCHANGED resumeVars
    BY <1>3, <2>1
  <2> QED
    BY <1>3, <1>5, <1>6, <2>2 DEF SetStep
<1>7. ASSUME NEW r \in RequestIds, task = <<"answer", r>>
      PROVE  AnswerStep(r)
  <2>1. task[1] = "answer" /\ task[2] = r
    BY <1>7
  <2>2. AnswerBreakpoints(r)
    BY <1>3, <2>1
  <2> QED
    BY <1>3, <1>5, <1>7, <2>2 DEF AnswerStep
<1>8. ASSUME NEW r \in RequestIds, NEW i \in Nat, NEW verified \in BOOLEAN,
             task = <<"bound", r, i, verified>>
      PROVE  BoundStep(r, i, verified)
  <2>1. task[1] = "bound" /\ task[2] = r /\ task[3] = i /\ task[4] = verified
    BY <1>8
  <2>2. BreakpointBound(r, i, verified) /\ UNCHANGED resumeVars
    BY <1>3, <2>1
  <2> QED
    BY <1>3, <1>5, <1>8, <2>2 DEF BoundStep
<1>9. ASSUME task = <<"resume", 0>>
      PROVE  ResumeStep
  <2>1. task[1] = "resume"
    BY <1>9
  <2>2. ResumeAtEntry /\ UNCHANGED resumeVars
    BY <1>3, <2>1
  <2> QED
    BY <1>3, <1>5, <1>9, <2>2 DEF ResumeStep
<1> QED
  BY <1>4, <1>6, <1>7, <1>8, <1>9

\* A message of the program is one of its kinds, with a number.
LEMMA MessageCases ==
    ASSUME toAdapter \in Seq(Messages \X (Ids \union {0})), Ids \subseteq Nat,
           batch \in 0 .. Len(toAdapter), HandleMessage
    PROVE  \/ LoadStep \/ OutputStep \/ LastStep
           \/ \E i \in Nat : ConfirmStep(i)
           \/ \E i \in Nat : HitStep(i)
<1> DEFINE message == Head(toAdapter)
<1>1. batch > 0 /\ ~crashed
  BY DEF HandleMessage
<1>2. toAdapter # <<>>
  BY <1>1
<1>3. message \in Messages \X (Ids \union {0})
  BY <1>2, HeadTailProperties
<1>4. \/ message[1] = "LOAD" /\ HandleProcessLoad
      \/ message[1] = "OUTP" /\ HandleDebuggerOutput
      \/ message[1] = "BRKS" /\ HandleBreakPointSet(message[2], TRUE)
      \/ message[1] = "BRKF" /\ HandleBreakPointSet(message[2], FALSE)
      \/ message[1] = "BRKH" /\ HandleBreakPointHit(message[2])
      \/ message[1] = "LAST" /\ HandleLast
  BY DEF HandleMessage
<1>5. MessageIs(message)
  BY <1>1, <1>2 DEF HandleMessage, MessageIs
<1> HIDE DEF message
<1>6. message[2] \in Nat /\ message = <<message[1], message[2]>>
  <2>1. message[2] \in Ids \union {0} /\ message = <<message[1], message[2]>>
    BY <1>3, PairProperties
  <2> QED
    BY <2>1
<1>7. CASE message[1] = "LOAD" /\ HandleProcessLoad
  BY <1>5, <1>6, <1>7 DEF LoadStep
<1>8. CASE message[1] = "OUTP" /\ HandleDebuggerOutput
  BY <1>5, <1>6, <1>8 DEF OutputStep
<1>9. CASE message[1] = "BRKS" /\ HandleBreakPointSet(message[2], TRUE)
  BY <1>5, <1>6, <1>9 DEF ConfirmStep
<1>10. CASE message[1] = "BRKF" /\ HandleBreakPointSet(message[2], FALSE)
  BY <1>5, <1>6, <1>10 DEF ConfirmStep
<1>11. CASE message[1] = "BRKH" /\ HandleBreakPointHit(message[2])
  BY <1>5, <1>6, <1>11 DEF HitStep
<1>12. CASE message[1] = "LAST" /\ HandleLast
  BY <1>5, <1>6, <1>12 DEF LastStep
<1> QED
  BY <1>4, <1>7, <1>8, <1>9, <1>10, <1>11, <1>12

-----------------------------------------------------------------------------
(* Queues.                                                                 *)

\* The sequence q has all of s but its head, and what was added.
Moves(s, more, q) ==
    /\ \A T : Count(q, T) = (Count(s, T) - (IF Head(s) \in T THEN 1 ELSE 0)) + Count(more, T)
    /\ \A T : Count(s, T) \in Nat /\ Count(more, T) \in Nat /\ Count(q, T) \in Nat
    /\ \A x \in Range(q) : x \in Range(s) \/ x \in Range(more)
    /\ \A x \in Range(s) : x = Head(s) \/ x \in Range(q)
    /\ \A x \in Range(more) : x \in Range(q)
    /\ Head(s) \in Range(s)
    /\ \A x : x \in Range(q) <=> Count(q, {x}) > 0
    /\ \A x : x \in Range(s) <=> Count(s, {x}) > 0

\* What is queued after the first task was taken and more were added.
LEMMA QueueTaken ==
    ASSUME NEW S, NEW s \in Seq(S), s # <<>>, NEW more \in Seq(S)
    PROVE  Tail(s) \o more \in Seq(S) /\ Moves(s, more, Tail(s) \o more)
<1> DEFINE q == Tail(s) \o more
<1>1. Tail(s) \in Seq(S) /\ Range(s) = Range(Tail(s)) \union {Head(s)}
  BY RangeTail
<1>2. q \in Seq(S) /\ Range(q) = Range(Tail(s)) \union Range(more)
  <2>1. Tail(s) \o more \in Seq(S)
    BY <1>1, ConcatProperties
  <2>2. Range(Tail(s) \o more) = Range(Tail(s)) \union Range(more)
    <3> DEFINE t == Tail(s)
    <3>1. t \in Seq(S)
      BY <1>1
    <3> HIDE DEF t
    <3>2. Range(t \o more) = Range(t) \union Range(more)
      BY <3>1, RangeConcatenation
    <3> QED
      BY <3>2 DEF t
  <2> QED
    BY <2>1, <2>2
<1>3. ASSUME NEW T
      PROVE  /\ Count(q, T) = (Count(s, T) - (IF Head(s) \in T THEN 1 ELSE 0)) + Count(more, T)
             /\ Count(s, T) \in Nat /\ Count(more, T) \in Nat /\ Count(q, T) \in Nat
  <2>1. Count(Tail(s), T) = Count(s, T) - (IF Head(s) \in T THEN 1 ELSE 0)
    BY CountTail
  <2>2. Count(Tail(s) \o more, T) = Count(Tail(s), T) + Count(more, T)
    BY <1>1, CountConcat
  <2>3. Count(s, T) \in Nat /\ Count(more, T) \in Nat /\ Count(q, T) \in Nat
    BY <1>2, CountType
  <2> QED
    BY <2>1, <2>2, <2>3
<1>4. ASSUME NEW x
      PROVE  /\ x \in Range(q) <=> Count(q, {x}) > 0
             /\ x \in Range(s) <=> Count(s, {x}) > 0
  <2>1. Count(q, {x}) > 0 <=> \E e \in Range(q) : e \in {x}
    BY <1>2, CountInRange
  <2>2. Count(s, {x}) > 0 <=> \E e \in Range(s) : e \in {x}
    BY CountInRange
  <2> QED
    BY <2>1, <2>2
<1>5. Head(s) \in Range(s)
  BY <1>1
<1> HIDE DEF q
<1> QED
  BY <1>1, <1>2, <1>3, <1>4, <1>5 DEF Moves, q

\* Nothing is in the empty sequence, and one element in a sequence of one.
LEMMA NothingQueued ==
    ASSUME NEW S
    PROVE  /\ <<>> \in Seq(S) /\ Range(<<>>) = {} /\ \A T : Count(<<>>, T) = 0
<1>1. <<>> \in Seq(S) /\ DOMAIN <<>> = {}
  OBVIOUS
<1>2. \A T : Count(<<>>, T) = 0
  BY <1>1, CountUniform
<1> QED
  BY <1>1, <1>2 DEF Range

\* One element in a sequence of one.
LEMMA OneQueued ==
    ASSUME NEW S, NEW x \in S
    PROVE  /\ <<x>> \in Seq(S) /\ Range(<<x>>) = {x}
           /\ \A T : Count(<<x>>, T) = IF x \in T THEN 1 ELSE 0
<1>1. <<x>> \in Seq(S) /\ Range(<<x>>) = {x}
  BY DEF Range
<1> QED
  BY <1>1, CountOne

\* The tasks, by what they are.
LEMMA TaskTypes ==
    /\ \A r \in RequestIds : <<"set", r>> \in Tasks /\ <<"answer", r>> \in Tasks
    /\ \A r \in RequestIds, i \in Nat, verified \in BOOLEAN : <<"bound", r, i, verified>> \in Tasks
    /\ <<"resume", 0>> \in Tasks
  BY DEF Tasks

\* Tasks of different kinds differ, and so do those of different requests.
LEMMA TasksDiffer ==
    ASSUME NEW q, NEW r, NEW i, NEW verified
    PROVE  /\ <<"set", q>> # <<"answer", r>>
           /\ <<"set", q>> # <<"resume", 0>> /\ <<"answer", q>> # <<"resume", 0>>
           /\ <<"bound", r, i, verified>> # <<"set", q>>
           /\ <<"bound", r, i, verified>> # <<"answer", q>>
           /\ <<"bound", r, i, verified>> # <<"resume", 0>>
           /\ <<"set", q>> = <<"set", r>> => q = r
           /\ <<"answer", q>> = <<"answer", r>> => q = r
  OBVIOUS

\* Only confirmations are tasks about binds.
LEMMA NoBindTasks ==
    ASSUME NEW q, NEW r
    PROVE  /\ <<"set", q>> \notin BindTasks(r) /\ <<"answer", q>> \notin BindTasks(r)
           /\ <<"resume", 0>> \notin BindTasks(r)
  BY DEF BindTasks

\* A confirmation is about the request it names.
LEMMA BindTasksOf ==
    ASSUME NEW q \in RequestIds, NEW r \in RequestIds, NEW i \in Nat, NEW verified \in BOOLEAN
    PROVE  <<"bound", q, i, verified>> \in BindTasks(r) <=> q = r
  BY DEF BindTasks

\* Requests, their files and their lines.
LEMMA RequestType ==
    ASSUME SessionTypeOK, Sent, NEW r \in RequestIds, stage[r] # "unsent"
    PROVE  /\ r \in DOMAIN requests /\ r \in 1 .. Len(requests)
           /\ requests[r] \in [file : Files, lines : SUBSET Lines]
           /\ requests[r].file \in Files /\ requests[r].lines \in SUBSET Lines
<1>1. requests \in Seq([file : Files, lines : SUBSET Lines])
  BY DEF SessionTypeOK
<1>2. Len(requests) \in Nat /\ DOMAIN requests = 1 .. Len(requests)
  BY <1>1, LenProperties
<1>3. ~(r > Len(requests)) /\ r \in 1 .. Requests /\ Requests \in Nat
  BY BoundsAssumption DEF Sent, RequestIds
<1>4. r \in 1 .. Len(requests)
  BY <1>2, <1>3
<1>5. requests[r] \in [file : Files, lines : SUBSET Lines]
  BY <1>1, <1>4, ElementOfSeq
<1> QED
  BY <1>2, <1>4, <1>5

-----------------------------------------------------------------------------
(* The queues and lists.                                                   *)

queueVars == <<requests, stage, microtasks, debuggerLoaded, unsettled, breakpoints,
               breakpointCommands, registeredBreakpoints, registeredBreakpointsByFileName>>

\* A step that leaves them alone keeps what they say of each other.
LEMMA QueuesFrame ==
    ASSUME QueuesFit, UNCHANGED queueVars
    PROVE  QueuesFit'
<1> USE DEF queueVars
<1>1. Ids' = Ids
  BY DEF Ids
<1>2. Sent'
  BY DEF QueuesFit, Sent
<1>3. TasksFit'
  BY <1>1 DEF QueuesFit, TasksFit
<1>4. CommandsFit'
  BY DEF QueuesFit, CommandsFit
<1>5. Awaits'
  BY DEF QueuesFit, Awaits
<1>6. RegistriesAgree'
  BY DEF QueuesFit, RegistriesAgree
<1>7. BuiltAreKnown'
  BY <1>1 DEF QueuesFit, BuiltAreKnown
<1> QED
  BY <1>2, <1>3, <1>4, <1>5, <1>6, <1>7 DEF QueuesFit

\* A request is sent while nothing else is going on.
LEMMA SendQueues ==
    ASSUME SessionTypeOK, QueuesFit, NEW f \in Files, NEW lines \in SUBSET Lines,
           SetBreakPointsRequest(f, lines)
    PROVE  QueuesFit'
<1> DEFINE r == Len(requests) + 1
<1>1. /\ requests \in Seq([file : Files, lines : SUBSET Lines])
      /\ stage \in [RequestIds -> {"unsent", "waiting", "binding", "answered"}]
  BY DEF SessionTypeOK
<1>2. Len(requests) \in Nat /\ DOMAIN requests = 1 .. Len(requests)
  BY <1>1, LenProperties
<1>3. /\ microtasks = <<>> /\ Len(requests) < Requests
      /\ requests' = Append(requests, [file |-> f, lines |-> lines])
      /\ stage' = [stage EXCEPT ![r] = "waiting"]
      /\ microtasks' = IF debuggerLoaded THEN <<<<"set", r>>>> ELSE <<>>
      /\ UNCHANGED <<debuggerLoaded, unsettled, registryVars, breakpointCommands>>
  BY DEF SetBreakPointsRequest, EventLoopIdle, launchVars
<1>4. r \in RequestIds
  BY <1>2, <1>3, BoundsAssumption DEF RequestIds
<1>5. [file |-> f, lines |-> lines] \in [file : Files, lines : SUBSET Lines]
  OBVIOUS
<1>6. Len(requests') = r /\ \A q \in 1 .. Len(requests) : requests'[q] = requests[q]
  BY <1>1, <1>3, <1>5, AppendProperties
<1>7. stage[r] = "unsent"
  BY <1>2, <1>4 DEF QueuesFit, Sent
<1>8. \A q \in RequestIds : stage'[q] = IF q = r THEN "waiting" ELSE stage[q]
  BY <1>1, <1>3
<1>9. \A q \in RequestIds : stage[q] # "unsent" => requests'[q] = requests[q] /\ q # r
  BY <1>6, <1>7, RequestType DEF QueuesFit
<1>10. Ids' = Ids
  BY <1>3 DEF Ids, registryVars
<1> HIDE DEF r
<1>11. Range(microtasks) = {} /\ \A T : Count(microtasks, T) = 0
  BY <1>3, NothingQueued
<1>12. /\ microtasks' \in Seq(Tasks)
       /\ Range(microtasks') = IF debuggerLoaded THEN {<<"set", r>>} ELSE {}
       /\ \A T : Count(microtasks', T) = IF debuggerLoaded /\ <<"set", r>> \in T THEN 1 ELSE 0
  <2>1. CASE debuggerLoaded
    <3>1. <<"set", r>> \in Tasks
      BY <1>4, TaskTypes
    <3>2. microtasks' = <<<<"set", r>>>>
      BY <1>3, <2>1
    <3>3. /\ <<<<"set", r>>>> \in Seq(Tasks) /\ Range(<<<<"set", r>>>>) = {<<"set", r>>}
          /\ \A T : Count(<<<<"set", r>>>>, T) = IF <<"set", r>> \in T THEN 1 ELSE 0
      BY <3>1, OneQueued
    <3> QED
      BY <2>1, <3>2, <3>3
  <2>2. CASE ~debuggerLoaded
    <3>1. microtasks' = <<>>
      BY <1>3, <2>2
    <3>2. <<>> \in Seq(Tasks) /\ Range(<<>>) = {} /\ \A T : Count(<<>>, T) = 0
      BY NothingQueued
    <3> QED
      BY <2>2, <3>1, <3>2
  <2> QED
    BY <2>1, <2>2
<1>13. Sent'
  <2>1. Len(requests') <= Requests
    BY <1>2, <1>3, <1>6, BoundsAssumption DEF r
  <2>2. ASSUME NEW q \in RequestIds
        PROVE  stage'[q] = "unsent" <=> q > Len(requests')
    <3>1. q \in Int /\ (stage[q] = "unsent" <=> q > Len(requests))
      BY DEF QueuesFit, Sent, RequestIds
    <3> QED
      BY <1>2, <1>6, <1>8, <3>1 DEF r
  <2> QED
    BY <2>1, <2>2 DEF Sent
<1>14. TasksFit'
  <2>1. ASSUME NEW q \in RequestIds
        PROVE  /\ <<"set", q>> \in Range(microtasks') => debuggerLoaded' /\ stage'[q] = "waiting"
               /\ <<"answer", q>> \notin Range(microtasks')
               /\ Count(microtasks', {<<"set", q>>}) <= 1
               /\ Count(microtasks', {<<"answer", q>>}) <= 1
    <3>1. <<"set", q>> \in Range(microtasks') => debuggerLoaded' /\ stage'[q] = "waiting"
      BY <1>3, <1>8, <1>12, TasksDiffer, NoBindTasks
    <3>2. <<"answer", q>> \notin Range(microtasks')
      BY <1>12, TasksDiffer, NoBindTasks
    <3>3. /\ Count(microtasks', {<<"set", q>>}) <= 1
          /\ Count(microtasks', {<<"answer", q>>}) <= 1
      BY <1>12
    <3> QED
      BY <3>1, <3>2, <3>3
  <2>2. \A q, i, verified : <<"bound", q, i, verified>> \notin Range(microtasks')
    BY <1>12, TasksDiffer, NoBindTasks
  <2> QED
    BY <1>12, <2>1, <2>2 DEF TasksFit
<1>15. CommandsFit'
  <2>1. breakpointCommands \in Seq([Id : Ids, request : RequestIds])
    BY DEF SessionTypeOK
  <2>2. Range(breakpointCommands) \subseteq [Id : Ids, request : RequestIds]
    BY <2>1, RangeOfSeq
  <2>3. ASSUME NEW command \in Range(breakpointCommands)
        PROVE  /\ stage'[command.request] = "binding"
               /\ breakpoints[command.Id].file = requests'[command.request].file
    <3>1. command.request \in RequestIds /\ stage[command.request] = "binding"
      BY <2>2 DEF QueuesFit, CommandsFit
    <3>2. breakpoints[command.Id].file = requests[command.request].file
      BY DEF QueuesFit, CommandsFit
    <3> QED
      BY <1>8, <1>9, <3>1, <3>2
  <2> QED
    BY <1>3, <2>3 DEF CommandsFit, registryVars
<1>16. Awaits'
  <2>1. ASSUME NEW q \in RequestIds
        PROVE  /\ stage'[q] = "waiting" => ~debuggerLoaded \/ <<"set", q>> \in Range(microtasks')
               /\ Count(microtasks', BindTasks(q)) = Count(microtasks, BindTasks(q))
               /\ ~(stage'[q] = "binding" /\ unsettled[q] = 0)
    <3>1. stage'[q] = "waiting" => ~debuggerLoaded \/ <<"set", q>> \in Range(microtasks')
      BY <1>8, <1>11, <1>12 DEF QueuesFit, Awaits
    <3>2. Count(microtasks', BindTasks(q)) = Count(microtasks, BindTasks(q))
      BY <1>11, <1>12, TasksDiffer, NoBindTasks
    <3>3. ~(stage'[q] = "binding" /\ unsettled[q] = 0)
      BY <1>8, <1>11 DEF QueuesFit, Awaits
    <3> QED
      BY <3>1, <3>2, <3>3
  <2> QED
    BY <1>3, <2>1 DEF QueuesFit, Awaits
<1>17. RegistriesAgree'
  BY <1>3 DEF QueuesFit, RegistriesAgree, registryVars
<1>18. BuiltAreKnown'
  BY <1>3, <1>10, <1>11 DEF QueuesFit, BuiltAreKnown, registryVars
<1> QED
  BY <1>13, <1>14, <1>15, <1>16, <1>17, <1>18 DEF QueuesFit

\* Whether the program is to go on is not about any request.
LEMMA OnlyResumes ==
    ASSUME NEW more, more = <<>> \/ more = <<<<"resume", 0>>>>
    PROVE  /\ more \in Seq(Tasks)
           /\ \A x \in Range(more) : x = <<"resume", 0>>
           /\ \A T : <<"resume", 0>> \notin T => Count(more, T) = 0
<1>1. CASE more = <<>>
  BY <1>1, NothingQueued
<1>2. CASE more = <<<<"resume", 0>>>>
  <2>1. <<"resume", 0>> \in Tasks
    BY TaskTypes
  <2>2. /\ <<<<"resume", 0>>>> \in Seq(Tasks) /\ Range(<<<<"resume", 0>>>>) = {<<"resume", 0>>}
        /\ \A T : Count(<<<<"resume", 0>>>>, T) = IF <<"resume", 0>> \in T THEN 1 ELSE 0
    BY <2>1, OneQueued
  <2> QED
    BY <1>2, <2>2
<1> QED
  BY <1>1, <1>2

\* configurationDone may let the program go on.
LEMMA ConfigureQueues ==
    ASSUME SessionTypeOK, QueuesFit, ConfigurationDoneRequest
    PROVE  QueuesFit'
<1>1. /\ microtasks = <<>>
      /\ UNCHANGED <<requests, stage, debuggerLoaded, unsettled, registryVars, breakpointCommands>>
  BY DEF ConfigurationDoneRequest, EventLoopIdle, launchVars, bindVars
<1>2. microtasks' = <<>> \/ microtasks' = <<<<"resume", 0>>>>
  <2>1. ResolveConfigurationDone(<<>>)
    BY DEF ConfigurationDoneRequest
  <2>2. <<>> \o <<>> = <<>> /\ <<>> \o <<<<"resume", 0>>>> = <<<<"resume", 0>>>>
    OBVIOUS
  <2> QED
    BY <2>1, <2>2 DEF ResolveConfigurationDone, ResumeReactions
<1>3. /\ microtasks' \in Seq(Tasks)
      /\ \A x \in Range(microtasks') : x = <<"resume", 0>>
      /\ \A T : <<"resume", 0>> \notin T => Count(microtasks', T) = 0
  BY <1>2, OnlyResumes
<1>4. Range(microtasks) = {} /\ \A T : Count(microtasks, T) = 0
  BY <1>1, NothingQueued
<1>5. Ids' = Ids
  BY <1>1 DEF Ids, registryVars
<1>6. TasksFit'
  <2>1. \A q : /\ <<"set", q>> \notin Range(microtasks') /\ <<"answer", q>> \notin Range(microtasks')
               /\ Count(microtasks', {<<"set", q>>}) <= 1
               /\ Count(microtasks', {<<"answer", q>>}) <= 1
    BY <1>3, TasksDiffer, NoBindTasks
  <2>2. \A q, i, verified : <<"bound", q, i, verified>> \notin Range(microtasks')
    BY <1>3, TasksDiffer, NoBindTasks
  <2> QED
    BY <1>3, <2>1, <2>2 DEF TasksFit
<1>7. Awaits'
  <2>1. ASSUME NEW q \in RequestIds
        PROVE  /\ stage'[q] = "waiting" => ~debuggerLoaded'
               /\ unsettled'[q] = Count(breakpointCommands', BindCommands(q)) + Count(microtasks', BindTasks(q))
               /\ ~(stage'[q] = "binding" /\ unsettled'[q] = 0)
    <3>1. Count(microtasks', BindTasks(q)) = Count(microtasks, BindTasks(q))
      BY <1>3, <1>4, TasksDiffer, NoBindTasks
    <3>2. stage[q] = "waiting" => ~debuggerLoaded
      BY <1>4 DEF QueuesFit, Awaits
    <3>3. ~(stage[q] = "binding" /\ unsettled[q] = 0)
      BY <1>4 DEF QueuesFit, Awaits
    <3>4. unsettled[q] = Count(breakpointCommands, BindCommands(q)) + Count(microtasks, BindTasks(q))
      BY DEF QueuesFit, Awaits
    <3> QED
      BY <1>1, <3>1, <3>2, <3>3, <3>4
  <2> QED
    BY <2>1 DEF Awaits
<1>8. BuiltAreKnown'
  BY <1>1, <1>4, <1>5 DEF QueuesFit, BuiltAreKnown, registryVars
<1>9. Sent'
  BY <1>1 DEF QueuesFit, Sent
<1>10. CommandsFit'
  BY <1>1 DEF QueuesFit, CommandsFit, registryVars
<1>11. RegistriesAgree'
  BY <1>1 DEF QueuesFit, RegistriesAgree, registryVars
<1> QED
  BY <1>6, <1>7, <1>8, <1>9, <1>10, <1>11 DEF QueuesFit

\* The program is told to go on.
LEMMA ResumeQueues ==
    ASSUME SessionTypeOK, QueuesFit, ResumeStep
    PROVE  QueuesFit'
<1>1. /\ microtasks # <<>> /\ Head(microtasks) = <<"resume", 0>> /\ microtasks' = Tail(microtasks)
      /\ UNCHANGED <<requests, stage, debuggerLoaded, unsettled, registryVars, breakpointCommands>>
  BY DEF ResumeStep, TaskRuns, ResumeAtEntry, TaskFrame, editorVars, launchVars, bindVars
<1>2. microtasks \in Seq(Tasks)
  BY DEF QueuesFit, TasksFit
<1>3. /\ microtasks' \in Seq(Tasks)
      /\ Range(microtasks) = Range(microtasks') \union {<<"resume", 0>>}
      /\ \A T : <<"resume", 0>> \notin T => Count(microtasks', T) = Count(microtasks, T)
  <2>1. Tail(microtasks) \in Seq(Tasks) /\ Range(microtasks) = Range(Tail(microtasks)) \union {Head(microtasks)}
    BY <1>1, <1>2, RangeTail
  <2>2. \A T : /\ Count(microtasks, T) = Count(Tail(microtasks), T)
                                            + (IF Head(microtasks) \in T THEN 1 ELSE 0)
               /\ Count(Tail(microtasks), T) = Count(microtasks, T)
                                            - (IF Head(microtasks) \in T THEN 1 ELSE 0)
    BY <1>1, <1>2, CountTail
  <2>3. ASSUME NEW T, <<"resume", 0>> \notin T
        PROVE  Count(microtasks', T) = Count(microtasks, T)
    <3>1. Count(Tail(microtasks), T) \in Nat
      BY <2>1, CountType
    <3>2. Count(microtasks, T) = Count(Tail(microtasks), T) + 0
      BY <1>1, <2>2, <2>3
    <3> QED
      BY <1>1, <3>1, <3>2
  <2> QED
    BY <1>1, <2>1, <2>3
<1>4. \A q : /\ <<"set", q>> \in Range(microtasks') <=> <<"set", q>> \in Range(microtasks)
             /\ <<"answer", q>> \in Range(microtasks') <=> <<"answer", q>> \in Range(microtasks)
             /\ Count(microtasks', {<<"set", q>>}) = Count(microtasks, {<<"set", q>>})
             /\ Count(microtasks', {<<"answer", q>>}) = Count(microtasks, {<<"answer", q>>})
             /\ Count(microtasks', BindTasks(q)) = Count(microtasks, BindTasks(q))
  BY <1>3, TasksDiffer, NoBindTasks
<1>5. \A q, i, verified :
         <<"bound", q, i, verified>> \in Range(microtasks') <=> <<"bound", q, i, verified>> \in Range(microtasks)
  BY <1>3, TasksDiffer, NoBindTasks
<1>6. Ids' = Ids
  BY <1>1 DEF Ids, registryVars
<1> QED
  <2>1. Sent'
    BY <1>1 DEF QueuesFit, Sent
  <2>2. TasksFit'
    BY <1>1, <1>3, <1>4, <1>5, <1>6 DEF QueuesFit, TasksFit, registryVars
  <2>3. CommandsFit'
    BY <1>1 DEF QueuesFit, CommandsFit, registryVars
  <2>4. Awaits'
    BY <1>1, <1>4 DEF QueuesFit, Awaits
  <2>5. RegistriesAgree'
    BY <1>1 DEF QueuesFit, RegistriesAgree, registryVars
  <2>6. BuiltAreKnown'
    BY <1>1, <1>5, <1>6 DEF QueuesFit, BuiltAreKnown, registryVars
  <2> QED
    BY <2>1, <2>2, <2>3, <2>4, <2>5, <2>6 DEF QueuesFit

\* A request leaves the queues: it is answered, before it binds or after.
Leaves(r, kind, more) ==
    /\ microtasks # <<>> /\ Head(microtasks) = <<kind, r>>
    /\ stage' = [stage EXCEPT ![r] = "answered"]
    /\ more = <<>> \/ more = <<<<"resume", 0>>>>
    /\ microtasks' = Tail(microtasks) \o more
    /\ UNCHANGED <<requests, debuggerLoaded, unsettled, registryVars, breakpointCommands>>

\* A request is answered, by its own task or at once in a session that is over.
LEMMA LeaveQueues ==
    ASSUME SessionTypeOK, QueuesFit, NEW r \in RequestIds, NEW kind \in {"set", "answer"}, NEW more,
           Leaves(r, kind, more)
    PROVE  QueuesFit'
<1>1. /\ microtasks # <<>> /\ Head(microtasks) = <<kind, r>>
      /\ stage' = [stage EXCEPT ![r] = "answered"]
      /\ UNCHANGED <<requests, debuggerLoaded, unsettled, registryVars, breakpointCommands>>
  BY DEF Leaves
<1>2. microtasks \in Seq(Tasks) /\ stage \in [RequestIds -> {"unsent", "waiting", "binding", "answered"}]
  BY DEF QueuesFit, TasksFit, SessionTypeOK
<1>3. (more = <<>> \/ more = <<<<"resume", 0>>>>) /\ microtasks' = Tail(microtasks) \o more
  BY DEF Leaves
<1>4. /\ more \in Seq(Tasks)
      /\ \A x \in Range(more) : x = <<"resume", 0>>
      /\ \A T : <<"resume", 0>> \notin T => Count(more, T) = 0
  BY <1>3, OnlyResumes
<1>5. /\ microtasks' \in Seq(Tasks)
      /\ Moves(microtasks, more, microtasks')
  <2>1. microtasks \in Seq(Tasks) /\ microtasks # <<>> /\ more \in Seq(Tasks)
    BY <1>1, <1>2, <1>4
  <2>2. /\ Tail(microtasks) \o more \in Seq(Tasks)
        /\ Moves(microtasks, more, Tail(microtasks) \o more)
    BY <2>1, QueueTaken
  <2> QED
    BY <1>3, <2>2
<1> USE DEF Moves
<1>6. \A q : q # r => /\ <<"set", q>> \in Range(microtasks') <=> <<"set", q>> \in Range(microtasks)
                      /\ <<"answer", q>> \in Range(microtasks') <=> <<"answer", q>> \in Range(microtasks)
                      /\ Count(microtasks', {<<"set", q>>}) = Count(microtasks, {<<"set", q>>})
                      /\ Count(microtasks', {<<"answer", q>>}) = Count(microtasks, {<<"answer", q>>})
  <2> SUFFICES ASSUME NEW q, q # r
               PROVE  /\ <<"set", q>> \in Range(microtasks') <=> <<"set", q>> \in Range(microtasks)
                      /\ <<"answer", q>> \in Range(microtasks') <=> <<"answer", q>> \in Range(microtasks)
                      /\ Count(microtasks', {<<"set", q>>}) = Count(microtasks, {<<"set", q>>})
                      /\ Count(microtasks', {<<"answer", q>>}) = Count(microtasks, {<<"answer", q>>})
    OBVIOUS
  <2>1. <<"set", q>> # Head(microtasks) /\ <<"answer", q>> # Head(microtasks)
    BY <1>1, TasksDiffer, NoBindTasks
  <2>2. <<"set", q>> \notin Range(more) /\ <<"answer", q>> \notin Range(more)
    BY <1>4, TasksDiffer, NoBindTasks
  <2>3. Count(more, {<<"set", q>>}) = 0 /\ Count(more, {<<"answer", q>>}) = 0
    BY <1>4, TasksDiffer, NoBindTasks
  <2>4. Count(microtasks', {<<"set", q>>}) = (Count(microtasks, {<<"set", q>>}) - 0) + 0
    BY <1>5, <2>1, <2>3
  <2>5. Count(microtasks', {<<"answer", q>>}) = (Count(microtasks, {<<"answer", q>>}) - 0) + 0
    BY <1>5, <2>1, <2>3
  <2>6. /\ <<"set", q>> \in Range(microtasks') <=> <<"set", q>> \in Range(microtasks)
        /\ <<"answer", q>> \in Range(microtasks') <=> <<"answer", q>> \in Range(microtasks)
    BY <1>5, <2>1, <2>2
  <2>7. /\ Count(microtasks, {<<"set", q>>}) \in Nat
        /\ Count(microtasks, {<<"answer", q>>}) \in Nat
    BY <1>5
  <2> QED
    BY <2>4, <2>5, <2>6, <2>7
<1>7. /\ kind = "set" => stage[r] = "waiting"
      /\ kind = "answer" => stage[r] = "binding" /\ unsettled[r] = 0
  <2>1. <<kind, r>> \in Range(microtasks)
    BY <1>1, <1>5
  <2> QED
    BY <2>1 DEF QueuesFit, TasksFit
<1>8. ASSUME NEW other \in {"set", "answer"}
      PROVE  <<other, r>> \notin Range(microtasks')
  <2>1. <<other, r>> \notin Range(more)
    BY <1>4, TasksDiffer
  <2>2. CASE other # kind
    <3>1. <<other, r>> \notin Range(microtasks)
      BY <1>7, <2>2 DEF QueuesFit, TasksFit
    <3> QED
      BY <1>5, <2>1, <3>1
  <2>3. CASE other = kind
    <3>1. Count(microtasks, {<<kind, r>>}) <= 1
      BY DEF QueuesFit, TasksFit
    <3>2. <<"resume", 0>> \notin {<<kind, r>>}
      BY TasksDiffer
    <3>3. Count(more, {<<kind, r>>}) = 0
      BY <1>4, <3>2
    <3>4. Count(microtasks', {<<kind, r>>}) = (Count(microtasks, {<<kind, r>>}) - 1) + 0
      BY <1>1, <1>5, <3>3
    <3>5. Count(microtasks, {<<kind, r>>}) \in Nat
      BY <1>5
    <3>6. ~(Count(microtasks', {<<kind, r>>}) > 0)
      BY <3>1, <3>4, <3>5
    <3> QED
      BY <1>5, <2>3, <3>6
  <2> QED
    BY <2>2, <2>3
<1>9. <<"set", r>> \notin Range(microtasks') /\ <<"answer", r>> \notin Range(microtasks')
  BY <1>8
<1>10. \A q : Count(microtasks', BindTasks(q)) = Count(microtasks, BindTasks(q))
  <2> SUFFICES ASSUME NEW q
               PROVE  Count(microtasks', BindTasks(q)) = Count(microtasks, BindTasks(q))
    OBVIOUS
  <2>1. Head(microtasks) \notin BindTasks(q)
    BY <1>1, NoBindTasks
  <2>4. <<"resume", 0>> \notin BindTasks(q)
    BY NoBindTasks
  <2>5. Count(more, BindTasks(q)) = 0
    BY <1>4, <2>4
  <2>2. Count(microtasks', BindTasks(q)) = (Count(microtasks, BindTasks(q)) - 0) + 0
    BY <1>5, <2>1, <2>5
  <2>3. Count(microtasks, BindTasks(q)) \in Nat
    BY <1>5
  <2> QED
    BY <2>2, <2>3
<1>11. \A q, i, verified :
          <<"bound", q, i, verified>> \in Range(microtasks') <=> <<"bound", q, i, verified>> \in Range(microtasks)
  BY <1>1, <1>4, <1>5, TasksDiffer
<1>12. breakpointCommands \in Seq([Id : Ids, request : RequestIds]) /\ Ids \subseteq Nat
  <2>1. breakpoints \in Seq([file : Files, line : Lines])
    BY DEF SessionTypeOK
  <2>2. DOMAIN breakpoints = 1 .. Len(breakpoints) /\ Len(breakpoints) \in Nat
    BY <2>1, LenProperties
  <2> QED
    BY <2>2 DEF SessionTypeOK, Ids
<1>13. kind = "answer" => Count(breakpointCommands, BindCommands(r)) = 0 /\ Count(microtasks, BindTasks(r)) = 0
  <2>1. kind = "answer" => Count(breakpointCommands, BindCommands(r)) + Count(microtasks, BindTasks(r)) = 0
    BY <1>7 DEF QueuesFit, Awaits
  <2>2. Count(breakpointCommands, BindCommands(r)) \in Nat
    BY <1>12, CountType
  <2> QED
    BY <1>5, <2>1, <2>2
<1>14. \A i \in Nat, verified \in BOOLEAN : <<"bound", r, i, verified>> \notin Range(microtasks)
  <2>1. CASE kind = "set"
    BY <1>7, <2>1 DEF QueuesFit, TasksFit
  <2>2. CASE kind = "answer"
    <3>1. ~(Count(microtasks, BindTasks(r)) > 0)
      BY <1>13, <2>2
    <3>2. \A e \in Range(microtasks) : e \notin BindTasks(r)
      BY <1>2, <3>1, CountInRange
    <3> QED
      BY <3>2, BindTasksOf
  <2> QED
    BY <2>1, <2>2
<1>15. \A command \in Range(breakpointCommands) : command.request \in RequestIds /\ command.request # r
  <2>1. Range(breakpointCommands) \subseteq [Id : Ids, request : RequestIds]
    BY <1>12, RangeOfSeq
  <2>2. CASE kind = "set"
    BY <1>7, <2>1, <2>2 DEF QueuesFit, CommandsFit
  <2>3. CASE kind = "answer"
    <3>1. ~(Count(breakpointCommands, BindCommands(r)) > 0)
      BY <1>13, <2>3
    <3>2. \A e \in Range(breakpointCommands) : e \notin BindCommands(r)
      BY <1>12, <3>1, CountInRange
    <3> QED
      BY <1>12, <2>1, <3>2 DEF BindCommands
  <2> QED
    BY <2>2, <2>3
<1>16. \A q \in RequestIds : stage'[q] = IF q = r THEN "answered" ELSE stage[q]
  BY <1>1, <1>2
<1>17. Ids' = Ids
  BY <1>1 DEF Ids, registryVars
<1>18. Sent'
  BY <1>1, <1>7, <1>16 DEF QueuesFit, Sent
<1>19. TasksFit'
  <2>1. ASSUME NEW q \in RequestIds
        PROVE  /\ <<"set", q>> \in Range(microtasks') => debuggerLoaded' /\ stage'[q] = "waiting"
               /\ <<"answer", q>> \in Range(microtasks') => stage'[q] = "binding" /\ unsettled'[q] = 0
               /\ Count(microtasks', {<<"set", q>>}) <= 1
               /\ Count(microtasks', {<<"answer", q>>}) <= 1
    <3>1. CASE q = r
      <4>1. ~(Count(microtasks', {<<"set", r>>}) > 0) /\ ~(Count(microtasks', {<<"answer", r>>}) > 0)
        BY <1>5, <1>9
      <4>2. Count(microtasks', {<<"set", r>>}) \in Nat /\ Count(microtasks', {<<"answer", r>>}) \in Nat
        BY <1>5
      <4>3. Count(microtasks', {<<"set", r>>}) <= 1 /\ Count(microtasks', {<<"answer", r>>}) <= 1
        BY <4>1, <4>2
      <4> QED
        BY <1>9, <3>1, <4>3
    <3>2. CASE q # r
      <4>1. stage'[q] = stage[q]
        BY <1>16, <3>2
      <4>2. /\ <<"set", q>> \in Range(microtasks) => debuggerLoaded /\ stage[q] = "waiting"
            /\ <<"answer", q>> \in Range(microtasks) => stage[q] = "binding" /\ unsettled[q] = 0
            /\ Count(microtasks, {<<"set", q>>}) <= 1
            /\ Count(microtasks, {<<"answer", q>>}) <= 1
        BY DEF QueuesFit, TasksFit
      <4>3. /\ <<"set", q>> \in Range(microtasks') <=> <<"set", q>> \in Range(microtasks)
            /\ <<"answer", q>> \in Range(microtasks') <=> <<"answer", q>> \in Range(microtasks)
            /\ Count(microtasks', {<<"set", q>>}) = Count(microtasks, {<<"set", q>>})
            /\ Count(microtasks', {<<"answer", q>>}) = Count(microtasks, {<<"answer", q>>})
        BY <1>6, <3>2
      <4> QED
        BY <1>1, <4>1, <4>2, <4>3
    <3> QED
      BY <3>1, <3>2
  <2>2. ASSUME NEW q \in RequestIds, NEW i \in Nat, NEW verified \in BOOLEAN,
               <<"bound", q, i, verified>> \in Range(microtasks')
        PROVE  stage'[q] = "binding" /\ i \in Ids' /\ breakpoints'[i].file = requests'[q].file
    <3>1. <<"bound", q, i, verified>> \in Range(microtasks)
      BY <1>11, <2>2
    <3>2. q # r
      BY <1>14, <3>1
    <3>3. stage[q] = "binding" /\ i \in Ids /\ breakpoints[i].file = requests[q].file
      BY <3>1 DEF QueuesFit, TasksFit
    <3> QED
      BY <1>1, <1>16, <1>17, <3>2, <3>3 DEF registryVars
  <2> QED
    BY <1>5, <2>1, <2>2 DEF TasksFit
<1>20. CommandsFit'
  BY <1>1, <1>15, <1>16 DEF QueuesFit, CommandsFit, registryVars
<1>21. Awaits'
  <2>1. ASSUME NEW q \in RequestIds
        PROVE  /\ stage'[q] = "waiting" => ~debuggerLoaded \/ <<"set", q>> \in Range(microtasks')
               /\ stage'[q] = "binding" /\ unsettled[q] = 0 => <<"answer", q>> \in Range(microtasks')
    <3>1. CASE q = r
      <4>1. stage'[q] = "answered"
        BY <1>16, <3>1
      <4> QED
        BY <4>1
    <3>2. CASE q # r
      <4>1. stage'[q] = stage[q]
        BY <1>16, <3>2
      <4>2. /\ stage[q] = "waiting" => ~debuggerLoaded \/ <<"set", q>> \in Range(microtasks)
            /\ stage[q] = "binding" /\ unsettled[q] = 0 => <<"answer", q>> \in Range(microtasks)
        BY DEF QueuesFit, Awaits
      <4>3. /\ <<"set", q>> \in Range(microtasks') <=> <<"set", q>> \in Range(microtasks)
            /\ <<"answer", q>> \in Range(microtasks') <=> <<"answer", q>> \in Range(microtasks)
        BY <1>6, <3>2
      <4> QED
        BY <4>1, <4>2, <4>3
    <3> QED
      BY <3>1, <3>2
  <2>2. \A q \in RequestIds :
           unsettled[q] = Count(breakpointCommands, BindCommands(q)) + Count(microtasks, BindTasks(q))
    BY DEF QueuesFit, Awaits
  <2>3. \A q \in RequestIds :
           unsettled'[q] = Count(breakpointCommands', BindCommands(q)) + Count(microtasks', BindTasks(q))
    BY <1>1, <1>10, <2>2
  <2>4. \A q \in RequestIds :
           /\ stage'[q] = "waiting" => ~debuggerLoaded' \/ <<"set", q>> \in Range(microtasks')
           /\ stage'[q] = "binding" /\ unsettled'[q] = 0 => <<"answer", q>> \in Range(microtasks')
    BY <1>1, <2>1
  <2> QED
    BY <2>3, <2>4 DEF Awaits
<1>22. RegistriesAgree'
  BY <1>1 DEF QueuesFit, RegistriesAgree, registryVars
<1>23. BuiltAreKnown'
  BY <1>1, <1>11, <1>17 DEF QueuesFit, BuiltAreKnown, registryVars
<1> QED
  BY <1>18, <1>19, <1>20, <1>21, <1>22, <1>23 DEF QueuesFit

\* A request is answered when nothing is due for it.
LEMMA AnswerQueues ==
    ASSUME SessionTypeOK, QueuesFit, NEW r \in RequestIds, AnswerStep(r)
    PROVE  QueuesFit'
<1>1. /\ microtasks # <<>> /\ Head(microtasks) = <<"answer", r>>
      /\ stage' = [stage EXCEPT ![r] = "answered"]
      /\ UNCHANGED <<requests, debuggerLoaded, unsettled, registryVars, breakpointCommands>>
  BY DEF AnswerStep, TaskRuns, AnswerBreakpoints, TaskFrame, editorVars, launchVars
<1>2. microtasks \in Seq(Tasks)
  BY DEF QueuesFit, TasksFit
<1>3. PICK more : (more = <<>> \/ more = <<<<"resume", 0>>>>) /\ microtasks' = Tail(microtasks) \o more
  <2>1. ResolveConfigurationDone(Tail(microtasks))
    BY DEF AnswerStep, AnswerBreakpoints
  <2>2. Tail(microtasks) = Tail(microtasks) \o <<>>
    BY <1>1, <1>2, HeadTailProperties, ConcatEmptySeq
  <2> QED
    BY <2>1, <2>2 DEF ResolveConfigurationDone, ResumeReactions
<1>4. Leaves(r, "answer", more)
  BY <1>1, <1>3 DEF Leaves
<1> QED
  BY <1>4, LeaveQueues

\* In a session that is over it is answered at once.
LEMMA DropQueues ==
    ASSUME SessionTypeOK, QueuesFit, NEW r \in RequestIds, SetStep(r), terminateEventSent
    PROVE  QueuesFit'
<1>1. /\ microtasks # <<>> /\ Head(microtasks) = <<"set", r>>
      /\ stage' = [stage EXCEPT ![r] = "answered"]
      /\ microtasks' = Tail(microtasks)
      /\ UNCHANGED <<requests, debuggerLoaded, unsettled, registryVars, breakpointCommands>>
  BY DEF SetStep, TaskRuns, SetBreakPoints, TaskFrame, editorVars, launchVars
<1>2. microtasks \in Seq(Tasks)
  BY DEF QueuesFit, TasksFit
<1>3. microtasks' = Tail(microtasks) \o <<>>
  BY <1>1, <1>2, HeadTailProperties, ConcatEmptySeq
<1>4. Leaves(r, "set", <<>>)
  BY <1>1, <1>3 DEF Leaves
<1> QED
  BY <1>4, LeaveQueues

\* At most one answer is added.
LEMMA OnlyAnswers ==
    ASSUME NEW r \in RequestIds, NEW more, more = <<<<"answer", r>>>> \/ more = <<>>
    PROVE  /\ more \in Seq(Tasks)
           /\ \A x \in Range(more) : x = <<"answer", r>> /\ more # <<>>
           /\ more # <<>> => <<"answer", r>> \in Range(more)
           /\ \A T : <<"answer", r>> \notin T => Count(more, T) = 0
           /\ Count(more, {<<"answer", r>>}) = IF more # <<>> THEN 1 ELSE 0
<1>1. CASE more = <<<<"answer", r>>>>
  <2>1. <<"answer", r>> \in Tasks
    BY TaskTypes
  <2>2. /\ <<<<"answer", r>>>> \in Seq(Tasks) /\ Range(<<<<"answer", r>>>>) = {<<"answer", r>>}
        /\ \A T : Count(<<<<"answer", r>>>>, T) = IF <<"answer", r>> \in T THEN 1 ELSE 0
    BY <2>1, OneQueued
  <2> QED
    BY <1>1, <2>2
<1>2. CASE more = <<>>
  <2>1. <<>> \in Seq(Tasks) /\ Range(<<>>) = {} /\ \A T : Count(<<>>, T) = 0
    BY NothingQueued
  <2> QED
    BY <1>2, <2>1
<1> QED
  BY <1>1, <1>2

\* Numbers of breakpoints.
LEMMA IdsType ==
    ASSUME SessionTypeOK
    PROVE  /\ Ids = 1 .. Len(breakpoints) /\ Len(breakpoints) \in Nat /\ Ids \subseteq Nat
           /\ \A i \in Ids : /\ breakpoints[i] \in [file : Files, line : Lines]
                             /\ breakpoints[i].file \in Files /\ breakpoints[i].line \in Lines
<1>1. breakpoints \in Seq([file : Files, line : Lines])
  BY DEF SessionTypeOK
<1>2. DOMAIN breakpoints = 1 .. Len(breakpoints) /\ Len(breakpoints) \in Nat
  BY <1>1, LenProperties
<1>3. \A i \in 1 .. Len(breakpoints) : breakpoints[i] \in [file : Files, line : Lines]
  BY <1>1, ElementOfSeq
<1> QED
  BY <1>2, <1>3 DEF Ids

\* A confirmation is handled: the breakpoint is registered, and the request waits for
\* one less.
LEMMA BoundQueues ==
    ASSUME SessionTypeOK, QueuesFit, NEW r \in RequestIds, NEW i \in Nat, NEW verified \in BOOLEAN,
           BoundStep(r, i, verified)
    PROVE  QueuesFit'
<1> DEFINE task == <<"bound", r, i, verified>>
           more == IF unsettled[r] = 1 THEN <<<<"answer", r>>>> ELSE <<>>
           f == requests[r].file
<1>1. /\ microtasks # <<>> /\ Head(microtasks) = task
      /\ registeredBreakpoints' = registeredBreakpoints \union {i}
      /\ registeredBreakpointsByFileName' = [registeredBreakpointsByFileName EXCEPT ![f] = Append(@, i)]
      /\ unsettled' = [unsettled EXCEPT ![r] = @ - 1]
      /\ microtasks' = Tail(microtasks) \o more
      /\ UNCHANGED <<requests, debuggerLoaded, breakpoints, breakpointCommands, stage>>
  BY DEF BoundStep, TaskRuns, BreakpointBound, Registers, TaskFrame, editorVars, launchVars
<1>2. /\ microtasks \in Seq(Tasks) /\ unsettled \in [RequestIds -> Nat]
      /\ registeredBreakpointsByFileName \in [Files -> Seq(Ids)]
  BY DEF QueuesFit, TasksFit, SessionTypeOK
<1>3. /\ more \in Seq(Tasks)
      /\ \A x \in Range(more) : x = <<"answer", r>> /\ unsettled[r] = 1
      /\ unsettled[r] = 1 => <<"answer", r>> \in Range(more)
      /\ \A T : <<"answer", r>> \notin T => Count(more, T) = 0
      /\ Count(more, {<<"answer", r>>}) = IF unsettled[r] = 1 THEN 1 ELSE 0
  <2>1. more = <<<<"answer", r>>>> \/ more = <<>>
    OBVIOUS
  <2>2. more # <<>> <=> unsettled[r] = 1
    OBVIOUS
  <2> HIDE DEF more
  <2> QED
    BY <2>1, <2>2, OnlyAnswers
<1> HIDE DEF more
<1>4. microtasks' \in Seq(Tasks) /\ Moves(microtasks, more, microtasks')
  <2>1. /\ Tail(microtasks) \o more \in Seq(Tasks)
        /\ Moves(microtasks, more, Tail(microtasks) \o more)
    BY <1>1, <1>2, <1>3, QueueTaken
  <2> QED
    BY <1>1, <2>1
<1> USE DEF Moves
<1>5. stage[r] = "binding" /\ i \in Ids /\ breakpoints[i].file = f
  <2>1. task \in Range(microtasks)
    BY <1>1, <1>4
  <2> QED
    BY <2>1 DEF QueuesFit, TasksFit
<1>6. f \in Files
  <2>1. stage[r] # "unsent"
    BY <1>5
  <2> QED
    BY <2>1, RequestType DEF QueuesFit
<1>7. Ids' = Ids
  BY <1>1 DEF Ids
<1>8. breakpointCommands \in Seq([Id : Ids, request : RequestIds])
  BY DEF SessionTypeOK
<1>9. \A q \in RequestIds :
         /\ unsettled[q] = Count(breakpointCommands, BindCommands(q)) + Count(microtasks, BindTasks(q))
         /\ Count(breakpointCommands, BindCommands(q)) \in Nat
  BY <1>8, CountType DEF QueuesFit, Awaits
<1>10. \A q \in RequestIds : Count(more, BindTasks(q)) = 0
  BY <1>3, NoBindTasks
<1>11. \A q \in RequestIds : Count(microtasks', BindTasks(q)) =
                                Count(microtasks, BindTasks(q)) - (IF q = r THEN 1 ELSE 0)
  <2> SUFFICES ASSUME NEW q \in RequestIds
               PROVE  Count(microtasks', BindTasks(q)) =
                         Count(microtasks, BindTasks(q)) - (IF q = r THEN 1 ELSE 0)
    OBVIOUS
  <2>1. Head(microtasks) \in BindTasks(q) <=> q = r
    <3>1. task \in BindTasks(q) <=> q = r
      BY BindTasksOf
    <3> QED
      BY <1>1, <3>1
  <2>2. Count(microtasks', BindTasks(q))
           = (Count(microtasks, BindTasks(q)) - (IF q = r THEN 1 ELSE 0)) + 0
    BY <1>4, <1>10, <2>1
  <2>3. Count(microtasks, BindTasks(q)) \in Nat
    BY <1>4
  <2> QED
    BY <2>2, <2>3
<1>12. unsettled[r] \in Nat /\ unsettled[r] > 0
  <2>1. Count(microtasks, BindTasks(r)) \in Nat /\ Count(microtasks', BindTasks(r)) \in Nat
    BY <1>4
  <2>2. Count(microtasks, BindTasks(r)) > 0
    BY <1>11, <2>1
  <2> QED
    BY <1>9, <2>1, <2>2
<1>13. \A q \in RequestIds : unsettled'[q] = IF q = r THEN unsettled[r] - 1 ELSE unsettled[q]
  BY <1>1, <1>2
<1>14. ASSUME NEW q \in RequestIds
       PROVE  /\ <<"set", q>> \in Range(microtasks') <=> <<"set", q>> \in Range(microtasks)
              /\ <<"answer", q>> \in Range(microtasks) => <<"answer", q>> \in Range(microtasks')
              /\ Count(microtasks', {<<"set", q>>}) = Count(microtasks, {<<"set", q>>})
  <2>1. <<"set", q>> # Head(microtasks) /\ <<"answer", q>> # Head(microtasks)
    BY <1>1, TasksDiffer
  <2>2. <<"set", q>> \notin Range(more) /\ Count(more, {<<"set", q>>}) = 0
    BY <1>3, TasksDiffer
  <2>3. Count(microtasks', {<<"set", q>>}) = (Count(microtasks, {<<"set", q>>}) - 0) + 0
    BY <1>4, <2>1, <2>2
  <2>4. Count(microtasks, {<<"set", q>>}) \in Nat
    BY <1>4
  <2>5. /\ <<"set", q>> \in Range(microtasks') <=> <<"set", q>> \in Range(microtasks)
        /\ <<"answer", q>> \in Range(microtasks) => <<"answer", q>> \in Range(microtasks')
    BY <1>4, <2>1, <2>2
  <2> QED
    BY <2>3, <2>4, <2>5
<1>21. ASSUME NEW q \in RequestIds, q # r
       PROVE  /\ <<"answer", q>> \in Range(microtasks') => <<"answer", q>> \in Range(microtasks)
              /\ Count(microtasks', {<<"answer", q>>}) = Count(microtasks, {<<"answer", q>>})
  <2>1. <<"answer", q>> # Head(microtasks)
    BY <1>1, TasksDiffer
  <2>2. <<"answer", q>> \notin Range(more) /\ Count(more, {<<"answer", q>>}) = 0
    BY <1>3, <1>21, TasksDiffer
  <2>3. Count(microtasks', {<<"answer", q>>}) = (Count(microtasks, {<<"answer", q>>}) - 0) + 0
    BY <1>4, <2>1, <2>2
  <2>4. Count(microtasks, {<<"answer", q>>}) \in Nat
    BY <1>4
  <2>5. <<"answer", q>> \in Range(microtasks') => <<"answer", q>> \in Range(microtasks)
    BY <1>4, <2>2
  <2> QED
    BY <2>3, <2>4, <2>5
<1>22. /\ <<"answer", r>> \in Range(microtasks') => unsettled[r] = 1
       /\ Count(microtasks', {<<"answer", r>>}) <= 1
  <2>1. <<"answer", r>> \notin Range(microtasks)
    <3>1. <<"answer", r>> \in Range(microtasks) => unsettled[r] = 0
      BY DEF QueuesFit, TasksFit
    <3> QED
      BY <1>12, <3>1
  <2>2. Count(microtasks, {<<"answer", r>>}) = 0
    <3>1. ~(Count(microtasks, {<<"answer", r>>}) > 0) /\ Count(microtasks, {<<"answer", r>>}) \in Nat
      BY <1>4, <2>1
    <3> QED
      BY <3>1
  <2>3. <<"answer", r>> # Head(microtasks)
    BY <1>1, TasksDiffer
  <2>4. Count(microtasks', {<<"answer", r>>}) = (0 - 0) + Count(more, {<<"answer", r>>})
    BY <1>4, <2>2, <2>3
  <2>5. <<"answer", r>> \in Range(microtasks') => unsettled[r] = 1
    BY <1>3, <1>4, <2>1
  <2> QED
    BY <1>3, <2>4, <2>5
<1>15. Sent'
  BY <1>1 DEF QueuesFit, Sent
<1>16. TasksFit'
  <2>1. ASSUME NEW q \in RequestIds
        PROVE  /\ <<"set", q>> \in Range(microtasks') => debuggerLoaded' /\ stage'[q] = "waiting"
               /\ <<"answer", q>> \in Range(microtasks') => stage'[q] = "binding" /\ unsettled'[q] = 0
               /\ Count(microtasks', {<<"set", q>>}) <= 1
               /\ Count(microtasks', {<<"answer", q>>}) <= 1
    <3>2. /\ <<"set", q>> \in Range(microtasks') => debuggerLoaded' /\ stage'[q] = "waiting"
          /\ Count(microtasks', {<<"set", q>>}) <= 1
      BY <1>1, <1>14 DEF QueuesFit, TasksFit
    <3>3. CASE q = r
      <4>1. unsettled[r] = 1 => stage'[r] = "binding" /\ unsettled'[r] = 0
        BY <1>1, <1>5, <1>13
      <4> QED
        BY <1>22, <3>2, <3>3, <4>1
    <3>4. CASE q # r
      <4>1. /\ Count(microtasks', {<<"answer", q>>}) = Count(microtasks, {<<"answer", q>>})
            /\ <<"answer", q>> \in Range(microtasks') => <<"answer", q>> \in Range(microtasks)
        BY <1>21, <3>4
      <4>2. /\ Count(microtasks, {<<"answer", q>>}) <= 1 /\ Count(microtasks, {<<"answer", q>>}) \in Nat
            /\ <<"answer", q>> \in Range(microtasks) => stage[q] = "binding" /\ unsettled[q] = 0
        BY <1>4 DEF QueuesFit, TasksFit
      <4>3. <<"answer", q>> \in Range(microtasks') => stage'[q] = "binding" /\ unsettled'[q] = 0
        BY <1>1, <1>13, <3>4, <4>1, <4>2
      <4> QED
        BY <3>2, <4>1, <4>2, <4>3
    <3> QED
      BY <3>3, <3>4
  <2>2. ASSUME NEW q \in RequestIds, NEW j \in Nat, NEW v \in BOOLEAN,
               <<"bound", q, j, v>> \in Range(microtasks')
        PROVE  stage'[q] = "binding" /\ j \in Ids' /\ breakpoints'[j].file = requests'[q].file
    <3>1. <<"bound", q, j, v>> \in Range(microtasks)
      BY <1>3, <1>4, <2>2, TasksDiffer
    <3> QED
      BY <1>1, <1>7, <3>1 DEF QueuesFit, TasksFit
  <2> QED
    BY <1>4, <2>1, <2>2 DEF TasksFit
<1>17. CommandsFit'
  BY <1>1 DEF QueuesFit, CommandsFit
<1>18. Awaits'
  <2>1. ASSUME NEW q \in RequestIds
        PROVE  /\ stage'[q] = "waiting" => ~debuggerLoaded' \/ <<"set", q>> \in Range(microtasks')
               /\ unsettled'[q] = Count(breakpointCommands', BindCommands(q)) + Count(microtasks', BindTasks(q))
               /\ stage'[q] = "binding" /\ unsettled'[q] = 0 => <<"answer", q>> \in Range(microtasks')
    <3>1. stage'[q] = "waiting" => ~debuggerLoaded' \/ <<"set", q>> \in Range(microtasks')
      BY <1>1, <1>14 DEF QueuesFit, Awaits
    <3>2. unsettled'[q] = Count(breakpointCommands', BindCommands(q)) + Count(microtasks', BindTasks(q))
      <4>1. Count(microtasks, BindTasks(q)) \in Nat
        BY <1>4
      <4> QED
        BY <1>1, <1>9, <1>11, <1>13, <4>1
    <3>3. ASSUME stage'[q] = "binding", unsettled'[q] = 0
          PROVE  <<"answer", q>> \in Range(microtasks')
      <4>1. CASE q = r
        <5>1. unsettled[r] = 1
          BY <1>12, <1>13, <3>3, <4>1
        <5>2. <<"answer", r>> \in Range(more)
          BY <1>3, <5>1
        <5> QED
          BY <1>4, <4>1, <5>2
      <4>2. CASE q # r
        BY <1>1, <1>13, <1>14, <3>3, <4>2 DEF QueuesFit, Awaits
      <4> QED
        BY <4>1, <4>2
    <3> QED
      BY <3>1, <3>2, <3>3
  <2> QED
    BY <2>1 DEF Awaits
<1>19. RegistriesAgree'
  <2> DEFINE list == registeredBreakpointsByFileName[f]
  <2>1. list \in Seq(Ids)
    BY <1>2, <1>6
  <2>2. Range(Append(list, i)) = Range(list) \union {i}
    BY <1>5, <2>1, RangeAppend
  <2>3. \A g \in Files : registeredBreakpointsByFileName'[g]
                            = IF g = f THEN Append(list, i) ELSE registeredBreakpointsByFileName[g]
    BY <1>1, <1>2
  <2> HIDE DEF list
  <2>4. \A g \in Files : Range(registeredBreakpointsByFileName'[g])
                            = Range(registeredBreakpointsByFileName[g]) \union (IF g = f THEN {i} ELSE {})
    BY <2>2, <2>3 DEF list
  <2>5. \A j : j \in registeredBreakpoints <=> \E g \in Files : j \in Range(registeredBreakpointsByFileName[g])
    BY DEF QueuesFit, RegistriesAgree
  <2>6. \A j : j \in registeredBreakpoints' <=> \E g \in Files : j \in Range(registeredBreakpointsByFileName'[g])
    BY <1>1, <1>6, <2>4, <2>5
  <2>7. registeredBreakpoints' = UNION {Range(registeredBreakpointsByFileName'[g]) : g \in Files}
    BY <2>6
  <2>8. \A g \in Files : \A j \in Range(registeredBreakpointsByFileName[g]) : breakpoints[j].file = g
    BY DEF QueuesFit, RegistriesAgree
  <2>9. \A g \in Files : \A j \in Range(registeredBreakpointsByFileName'[g]) : breakpoints'[j].file = g
    BY <1>1, <1>5, <2>4, <2>8
  <2> QED
    BY <2>7, <2>9 DEF RegistriesAgree
<1>20. BuiltAreKnown'
  <2>1. ASSUME NEW j \in Ids
        PROVE  \/ j \in registeredBreakpoints'
               \/ \E command \in Range(breakpointCommands') : command.Id = j
               \/ \E q \in RequestIds, v \in BOOLEAN : <<"bound", q, j, v>> \in Range(microtasks')
    <3>1. CASE j \in registeredBreakpoints \/ \E command \in Range(breakpointCommands) : command.Id = j
      BY <1>1, <3>1
    <3>2. ASSUME NEW q \in RequestIds, NEW v \in BOOLEAN, <<"bound", q, j, v>> \in Range(microtasks)
          PROVE  \/ j \in registeredBreakpoints'
                 \/ <<"bound", q, j, v>> \in Range(microtasks')
      <4>1. CASE <<"bound", q, j, v>> = task
        BY <1>1, <4>1
      <4>2. CASE <<"bound", q, j, v>> # task
        BY <1>1, <1>4, <3>2, <4>2
      <4> QED
        BY <4>1, <4>2
    <3> QED
      BY <3>1, <3>2 DEF QueuesFit, BuiltAreKnown
  <2> QED
    BY <1>7, <2>1 DEF BuiltAreKnown
<1> QED
  BY <1>15, <1>16, <1>17, <1>18, <1>19, <1>20 DEF QueuesFit

\* An element of a sequence without doubles is in it once.
LEMMA CountInjective ==
    ASSUME NEW S, NEW s \in Seq(S), \A j, k \in DOMAIN s : s[j] = s[k] => j = k, NEW x
    PROVE  Count(s, {x}) <= 1
<1> DEFINE I == {k \in DOMAIN s : s[k] \in {x}}
<1>3. Count(s, {x}) = Cardinality(I)
  BY DEF Count
<1>1. CASE I = {}
  <2> HIDE DEF I
  <2> QED
    BY <1>1, <1>3, FS_EmptySet
<1>2. CASE I # {}
  <2>1. PICK k \in I : TRUE
    BY <1>2
  <2>2. I = {k}
    BY <2>1
  <2> HIDE DEF I
  <2>3. Cardinality(I) = 1
    BY <2>2, FS_Singleton
  <2> QED
    BY <1>3, <2>3
<1> QED
  BY <1>1, <1>2

\* The reactions to the load: each request that waits for it.
LEMMA LoadReactionsType ==
    ASSUME SessionTypeOK
    PROVE  /\ LoadReactions \in Seq(Tasks)
           /\ \A x \in Range(LoadReactions) :
                 \E r \in RequestIds : x = <<"set", r>> /\ stage[r] = "waiting" /\ ~debuggerLoaded
           /\ \A r \in RequestIds :
                 stage[r] = "waiting" /\ ~debuggerLoaded => <<"set", r>> \in Range(LoadReactions)
           /\ \A r : Count(LoadReactions, {<<"set", r>>}) <= 1
           /\ debuggerLoaded => LoadReactions = <<>>
<1>1. CASE debuggerLoaded
  <2>1. LoadReactions = <<>>
    BY <1>1 DEF LoadReactions
  <2>2. <<>> \in Seq(Tasks) /\ Range(<<>>) = {} /\ \A T : Count(<<>>, T) = 0
    BY NothingQueued
  <2> QED
    BY <1>1, <2>1, <2>2
<1>2. CASE ~debuggerLoaded
  <2> DEFINE waiting == {r \in RequestIds : stage[r] = "waiting"}
             n == Cardinality(waiting)
             q == InOrder(waiting)
             s == [k \in 1 .. n |-> <<"set", q[k]>>]
  <2>1. LoadReactions = s
    BY <1>2 DEF LoadReactions
  <2>2. waiting \in SUBSET Nat /\ IsFiniteSet(waiting)
    <3>1. waiting \in SUBSET (1 .. Requests) /\ Requests \in Nat
      BY BoundsAssumption DEF RequestIds
    <3>2. IsFiniteSet(1 .. Requests)
      BY <3>1, FS_Interval
    <3> HIDE DEF waiting
    <3>3. IsFiniteSet(waiting)
      BY <3>1, <3>2, FS_Subset
    <3> QED
      BY <3>1, <3>3
  <2>3. \A r : r \in waiting <=> r \in RequestIds /\ stage[r] = "waiting"
    OBVIOUS
  <2> HIDE DEF waiting
  <2>4. /\ n \in Nat /\ q \in [1 .. n -> waiting]
        /\ \A j, k \in 1 .. n : q[j] = q[k] => j = k
        /\ \A r \in waiting : \E k \in 1 .. n : q[k] = r
    BY <2>2, InOrderProperties
  <2> HIDE DEF n, q
  <2>5. \A k \in 1 .. n : q[k] \in waiting /\ q[k] \in RequestIds
    BY <2>3, <2>4
  <2>6. s \in Seq(Tasks) /\ DOMAIN s = 1 .. n
    <3>1. \A k \in 1 .. n : <<"set", q[k]>> \in Tasks
      BY <2>5, TaskTypes
    <3>2. s \in Seq(Tasks)
      BY <2>4, <3>1, IsASeq
    <3> QED
      BY <3>2
  <2>7. \A j, k \in DOMAIN s : s[j] = s[k] => j = k
    BY <2>4, <2>6
  <2>8. \A r : Count(s, {<<"set", r>>}) <= 1
    <3> HIDE DEF s
    <3> QED
      BY <2>6, <2>7, CountInjective
  <2>9. \A x \in Range(s) : \E k \in 1 .. n : x = <<"set", q[k]>>
    BY <2>6 DEF Range
  <2>10. \A k \in 1 .. n : <<"set", q[k]>> \in Range(s)
    BY <2>6 DEF Range
  <2>11. \A x \in Range(s) : \E r \in RequestIds : x = <<"set", r>> /\ stage[r] = "waiting"
    BY <2>3, <2>5, <2>9
  <2>12. \A r \in RequestIds : stage[r] = "waiting" => <<"set", r>> \in Range(s)
    <3> SUFFICES ASSUME NEW r \in RequestIds, stage[r] = "waiting"
                 PROVE  <<"set", r>> \in Range(s)
      OBVIOUS
    <3>1. r \in waiting
      BY <2>3
    <3>2. PICK k \in 1 .. n : q[k] = r
      BY <2>4, <3>1
    <3> QED
      BY <2>10, <3>2
  <2> HIDE DEF s
  <2> QED
    BY <1>2, <2>1, <2>6, <2>8, <2>11, <2>12
<1> QED
  BY <1>1, <1>2

\* The debugger is loaded, or was and says so again.
LEMMA LoadQueues ==
    ASSUME SessionTypeOK, QueuesFit, LoadComesFirst, debuggerLoaded' = TRUE,
           NEW more, more = <<>> \/ more = <<<<"resume", 0>>>>,
           microtasks' = (microtasks \o LoadReactions) \o more,
           UNCHANGED <<requests, stage, unsettled, registryVars, breakpointCommands>>
    PROVE  QueuesFit'
<1> DEFINE s == LoadReactions
<1>1. microtasks \in Seq(Tasks)
  BY DEF QueuesFit, TasksFit
<1>2. /\ s \in Seq(Tasks)
      /\ \A x \in Range(s) :
            \E r \in RequestIds : x = <<"set", r>> /\ stage[r] = "waiting" /\ ~debuggerLoaded
      /\ \A r \in RequestIds : stage[r] = "waiting" /\ ~debuggerLoaded => <<"set", r>> \in Range(s)
      /\ \A r : Count(s, {<<"set", r>>}) <= 1
      /\ debuggerLoaded => s = <<>>
  BY LoadReactionsType
<1>3. /\ more \in Seq(Tasks)
      /\ \A x \in Range(more) : x = <<"resume", 0>>
      /\ \A T : <<"resume", 0>> \notin T => Count(more, T) = 0
  BY OnlyResumes
<1> DEFINE m == microtasks \o s
<1>4. /\ m \in Seq(Tasks) /\ Range(m) = Range(microtasks) \union Range(s)
      /\ \A T : Count(m, T) = Count(microtasks, T) + Count(s, T)
  <2> HIDE DEF s
  <2> QED
    BY <1>1, <1>2, ConcatProperties, RangeConcatenation, CountConcat
<1>5. microtasks' = m \o more
  OBVIOUS
<1> HIDE DEF m
<1>6. /\ microtasks' \in Seq(Tasks) /\ Range(microtasks') = Range(m) \union Range(more)
      /\ \A T : Count(microtasks', T) = Count(m, T) + Count(more, T)
  <2>1. m \o more \in Seq(Tasks) /\ Range(m \o more) = Range(m) \union Range(more)
    BY <1>3, <1>4, ConcatProperties, RangeConcatenation
  <2>2. \A T : Count(m \o more, T) = Count(m, T) + Count(more, T)
    BY <1>3, <1>4, CountConcat
  <2> QED
    BY <1>5, <2>1, <2>2
<1> HIDE DEF s
<1>7. \A T : /\ Count(microtasks, T) \in Nat /\ Count(s, T) \in Nat
             /\ (Count(s, T) > 0 <=> \E e \in Range(s) : e \in T)
             /\ (Count(microtasks, T) > 0 <=> \E e \in Range(microtasks) : e \in T)
  BY <1>1, <1>2, CountType, CountInRange
<1>8. ASSUME NEW T, <<"resume", 0>> \notin T, \A r : <<"set", r>> \notin T
      PROVE  Count(microtasks', T) = Count(microtasks, T)
  <2>1. Count(s, T) = 0
    <3>1. ~(Count(s, T) > 0)
      BY <1>2, <1>7, <1>8
    <3> QED
      BY <1>7, <3>1
  <2>2. Count(more, T) = 0
    BY <1>3, <1>8
  <2> QED
    BY <1>4, <1>6, <1>7, <2>1, <2>2
<1>9. \A q : /\ Count(microtasks', {<<"answer", q>>}) = Count(microtasks, {<<"answer", q>>})
             /\ Count(microtasks', BindTasks(q)) = Count(microtasks, BindTasks(q))
  <2> SUFFICES ASSUME NEW q
               PROVE  /\ Count(microtasks', {<<"answer", q>>}) = Count(microtasks, {<<"answer", q>>})
                      /\ Count(microtasks', BindTasks(q)) = Count(microtasks, BindTasks(q))
    OBVIOUS
  <2>1. <<"resume", 0>> \notin {<<"answer", q>>} /\ \A r : <<"set", r>> \notin {<<"answer", q>>}
    BY TasksDiffer
  <2>2. <<"resume", 0>> \notin BindTasks(q) /\ \A r : <<"set", r>> \notin BindTasks(q)
    BY NoBindTasks
  <2>3. Count(microtasks', {<<"answer", q>>}) = Count(microtasks, {<<"answer", q>>})
    BY <1>8, <2>1
  <2> QED
    BY <1>8, <2>2, <2>3
<1>10. \A q : <<"answer", q>> \in Range(microtasks') <=> <<"answer", q>> \in Range(microtasks)
  <2> SUFFICES ASSUME NEW q
               PROVE  <<"answer", q>> \in Range(microtasks') <=> <<"answer", q>> \in Range(microtasks)
    OBVIOUS
  <2>1. <<"answer", q>> \notin Range(s)
    BY <1>2, TasksDiffer
  <2>2. <<"answer", q>> \notin Range(more)
    BY <1>3, TasksDiffer
  <2> QED
    BY <1>4, <1>6, <2>1, <2>2
<1>11. \A q, i, v : <<"bound", q, i, v>> \in Range(microtasks') <=> <<"bound", q, i, v>> \in Range(microtasks)
  <2> SUFFICES ASSUME NEW q, NEW i, NEW v
               PROVE  <<"bound", q, i, v>> \in Range(microtasks') <=> <<"bound", q, i, v>> \in Range(microtasks)
    OBVIOUS
  <2>1. <<"bound", q, i, v>> \notin Range(s)
    BY <1>2, TasksDiffer
  <2>2. <<"bound", q, i, v>> \notin Range(more)
    BY <1>3, TasksDiffer
  <2> QED
    BY <1>4, <1>6, <2>1, <2>2
<1>12. ~debuggerLoaded => Range(microtasks) = {}
  BY NothingQueued DEF LoadComesFirst
<1>13. ASSUME NEW q \in RequestIds
       PROVE  /\ <<"set", q>> \in Range(microtasks') => stage[q] = "waiting"
              /\ Count(microtasks', {<<"set", q>>}) <= 1
              /\ stage[q] = "waiting" => <<"set", q>> \in Range(microtasks')
  <2>1. <<"set", q>> \notin Range(more) /\ Count(more, {<<"set", q>>}) = 0
    BY <1>3, TasksDiffer
  <2>2. <<"set", q>> \in Range(s) => stage[q] = "waiting"
    BY <1>2, TasksDiffer
  <2>3. <<"set", q>> \in Range(microtasks) => stage[q] = "waiting"
    BY DEF QueuesFit, TasksFit
  <2>4. Count(microtasks', {<<"set", q>>}) = (Count(microtasks, {<<"set", q>>}) + Count(s, {<<"set", q>>})) + 0
    BY <1>4, <1>6, <2>1
  <2>5. Count(microtasks, {<<"set", q>>}) = 0 \/ Count(s, {<<"set", q>>}) = 0
    <3>1. CASE debuggerLoaded
      <4>1. Count(<<>>, {<<"set", q>>}) = 0
        BY NothingQueued
      <4> QED
        BY <1>2, <3>1, <4>1
    <3>2. CASE ~debuggerLoaded
      <4>1. ~(Count(microtasks, {<<"set", q>>}) > 0)
        BY <1>7, <1>12, <3>2
      <4> QED
        BY <1>7, <4>1
    <3> QED
      BY <3>1, <3>2
  <2>6. Count(microtasks, {<<"set", q>>}) <= 1 /\ Count(s, {<<"set", q>>}) <= 1
    BY <1>2 DEF QueuesFit, TasksFit
  <2>7. Count(microtasks, {<<"set", q>>}) \in Nat /\ Count(s, {<<"set", q>>}) \in Nat
    BY <1>7
  <2>8. Count(microtasks', {<<"set", q>>}) <= 1
    BY <2>4, <2>5, <2>6, <2>7
  <2>9. stage[q] = "waiting" => <<"set", q>> \in Range(microtasks) \/ <<"set", q>> \in Range(s)
    BY <1>2 DEF QueuesFit, Awaits
  <2> QED
    BY <1>4, <1>6, <2>1, <2>2, <2>3, <2>8, <2>9
<1>14. Ids' = Ids
  BY DEF Ids, registryVars
<1>15. TasksFit'
  <2>1. ASSUME NEW q \in RequestIds
        PROVE  /\ <<"set", q>> \in Range(microtasks') => debuggerLoaded' /\ stage'[q] = "waiting"
               /\ <<"answer", q>> \in Range(microtasks') => stage'[q] = "binding" /\ unsettled'[q] = 0
               /\ Count(microtasks', {<<"set", q>>}) <= 1
               /\ Count(microtasks', {<<"answer", q>>}) <= 1
    BY <1>9, <1>10, <1>13 DEF QueuesFit, TasksFit
  <2>2. ASSUME NEW q \in RequestIds, NEW i \in Nat, NEW v \in BOOLEAN,
               <<"bound", q, i, v>> \in Range(microtasks')
        PROVE  stage'[q] = "binding" /\ i \in Ids' /\ breakpoints'[i].file = requests'[q].file
    BY <1>11, <1>14, <2>2 DEF QueuesFit, TasksFit, registryVars
  <2> QED
    BY <1>6, <2>1, <2>2 DEF TasksFit
<1>16. Awaits'
  <2>1. ASSUME NEW q \in RequestIds
        PROVE  /\ stage'[q] = "waiting" => ~debuggerLoaded' \/ <<"set", q>> \in Range(microtasks')
               /\ unsettled'[q] = Count(breakpointCommands', BindCommands(q)) + Count(microtasks', BindTasks(q))
               /\ stage'[q] = "binding" /\ unsettled'[q] = 0 => <<"answer", q>> \in Range(microtasks')
    BY <1>9, <1>10, <1>13 DEF QueuesFit, Awaits
  <2> QED
    BY <2>1 DEF Awaits
<1>17. BuiltAreKnown'
  BY <1>11, <1>14 DEF QueuesFit, BuiltAreKnown, registryVars
<1>18. Sent' /\ CommandsFit' /\ RegistriesAgree'
  BY DEF QueuesFit, Sent, CommandsFit, RegistriesAgree, registryVars
<1> QED
  BY <1>15, <1>16, <1>17, <1>18 DEF QueuesFit

\* A confirmation arrives: a command becomes a task.
LEMMA ConfirmQueues ==
    ASSUME SessionTypeOK, QueuesFit, NEW i \in Nat, NEW verified \in BOOLEAN,
           HandleBreakPointSet(i, verified),
           UNCHANGED <<requests, stage, unsettled, registryVars>>
    PROVE  QueuesFit'
<1> DEFINE ks == {k \in DOMAIN breakpointCommands : breakpointCommands[k].Id = i}
           k == Min(ks)
           command == breakpointCommands[k]
           task == <<"bound", command.request, i, verified>>
<1>1. /\ breakpointCommands \in Seq([Id : Ids, request : RequestIds])
      /\ microtasks \in Seq(Tasks)
  BY DEF SessionTypeOK, QueuesFit, TasksFit
<1>2. debuggerLoaded' = debuggerLoaded
  BY DEF HandleBreakPointSet
<1>3. CASE ks = {}
  <2>1. UNCHANGED <<breakpointCommands, microtasks>>
    BY <1>3 DEF HandleBreakPointSet
  <2> QED
    BY <1>2, <2>1, QueuesFrame DEF queueVars, registryVars
<1>4. CASE ks # {}
  <2>1. /\ breakpointCommands' = RemoveAt(breakpointCommands, k)
        /\ microtasks' = Append(microtasks, task)
    BY <1>4 DEF HandleBreakPointSet, TakeCommand
  <2>2. k \in ks
    <3>1. ks \in SUBSET Nat
      BY <1>1, LenProperties
    <3> HIDE DEF ks
    <3> QED
      BY <1>4, <3>1, MinProperties
  <2>3. k \in 1 .. Len(breakpointCommands) /\ k \in DOMAIN breakpointCommands /\ command.Id = i
    BY <1>1, <2>2, LenProperties
  <2> HIDE DEF k, ks
  <2>4. command \in [Id : Ids, request : RequestIds] /\ command \in Range(breakpointCommands)
    <3>1. command \in [Id : Ids, request : RequestIds]
      BY <1>1, <2>3, ElementOfSeq
    <3> QED
      BY <2>3, <3>1 DEF Range
  <2> HIDE DEF command
  <2> DEFINE r == command.request
  <2>5. r \in RequestIds /\ i \in Ids /\ task = <<"bound", r, i, verified>>
    BY <2>3, <2>4
  <2>6. stage[r] = "binding" /\ breakpoints[i].file = requests[r].file
    BY <2>3, <2>4 DEF QueuesFit, CommandsFit
  <2>7. command \in BindCommands(r) /\ \A q \in RequestIds : command \in BindCommands(q) <=> q = r
    BY <2>4, <2>5, IdsType DEF BindCommands
  <2>8. task \in Tasks
    BY <2>5, TaskTypes
  <2> HIDE DEF task, r
  <2>9. /\ breakpointCommands' \in Seq([Id : Ids, request : RequestIds])
        /\ Range(breakpointCommands) = Range(breakpointCommands') \union {command}
        /\ \A T : Count(breakpointCommands', T)
                    = Count(breakpointCommands, T) - (IF command \in T THEN 1 ELSE 0)
    BY <1>1, <2>1, <2>3, RemoveAtProperties DEF command
  <2>10. /\ microtasks' \in Seq(Tasks) /\ Range(microtasks') = Range(microtasks) \union {task}
         /\ \A T : Count(microtasks', T) = Count(microtasks, T) + (IF task \in T THEN 1 ELSE 0)
    BY <1>1, <2>1, <2>8, RangeAppend, CountAppend
  <2>11. \A T : Count(microtasks, T) \in Nat /\ Count(breakpointCommands, T) \in Nat
    BY <1>1, CountType
  <2>12. \A q : task # <<"set", q>> /\ task # <<"answer", q>>
    BY <2>5, TasksDiffer
  <2>13. \A q : /\ <<"set", q>> \in Range(microtasks') <=> <<"set", q>> \in Range(microtasks)
                /\ <<"answer", q>> \in Range(microtasks') <=> <<"answer", q>> \in Range(microtasks)
                /\ Count(microtasks', {<<"set", q>>}) = Count(microtasks, {<<"set", q>>})
                /\ Count(microtasks', {<<"answer", q>>}) = Count(microtasks, {<<"answer", q>>})
    BY <2>10, <2>11, <2>12
  <2>14. ASSUME NEW q \in RequestIds
         PROVE  Count(breakpointCommands', BindCommands(q)) + Count(microtasks', BindTasks(q))
                  = Count(breakpointCommands, BindCommands(q)) + Count(microtasks, BindTasks(q))
    <3>1. task \in BindTasks(q) <=> q = r
      BY <2>5, BindTasksOf
    <3>2. Count(breakpointCommands', BindCommands(q))
            = Count(breakpointCommands, BindCommands(q)) - (IF q = r THEN 1 ELSE 0)
      BY <2>7, <2>9
    <3>3. Count(microtasks', BindTasks(q)) = Count(microtasks, BindTasks(q)) + (IF q = r THEN 1 ELSE 0)
      BY <2>10, <3>1
    <3> QED
      BY <2>11, <3>2, <3>3
  <2>15. Ids' = Ids
    BY DEF Ids, registryVars
  <2>16. TasksFit'
    <3>1. ASSUME NEW q \in RequestIds, NEW j \in Nat, NEW v \in BOOLEAN,
                 <<"bound", q, j, v>> \in Range(microtasks')
          PROVE  stage'[q] = "binding" /\ j \in Ids' /\ breakpoints'[j].file = requests'[q].file
      <4>1. CASE <<"bound", q, j, v>> = task
        <5>1. q = r /\ j = i
          BY <2>5, <4>1
        <5> QED
          BY <2>5, <2>6, <2>15, <5>1 DEF registryVars
      <4>2. CASE <<"bound", q, j, v>> # task
        <5>1. <<"bound", q, j, v>> \in Range(microtasks)
          BY <2>10, <3>1, <4>2
        <5> QED
          BY <2>15, <5>1 DEF QueuesFit, TasksFit, registryVars
      <4> QED
        BY <4>1, <4>2
    <3> QED
      BY <1>2, <2>10, <2>13, <3>1 DEF QueuesFit, TasksFit
  <2>17. CommandsFit'
    BY <2>9 DEF QueuesFit, CommandsFit, registryVars
  <2>18. Awaits'
    BY <1>2, <2>13, <2>14 DEF QueuesFit, Awaits
  <2>19. BuiltAreKnown'
    <3>1. ASSUME NEW j \in Ids
          PROVE  \/ j \in registeredBreakpoints'
                 \/ \E c \in Range(breakpointCommands') : c.Id = j
                 \/ \E q \in RequestIds, v \in BOOLEAN : <<"bound", q, j, v>> \in Range(microtasks')
      <4>1. CASE j = i
        BY <2>5, <2>10, <4>1
      <4>2. CASE j # i
        <5>1. \A c \in Range(breakpointCommands) : c.Id = j => c \in Range(breakpointCommands')
          BY <2>3, <2>9, <4>2 DEF command
        <5> QED
          BY <2>10, <5>1 DEF QueuesFit, BuiltAreKnown, registryVars
      <4> QED
        BY <4>1, <4>2
    <3> QED
      BY <2>15, <3>1 DEF BuiltAreKnown
  <2>20. Sent' /\ RegistriesAgree'
    BY DEF QueuesFit, Sent, RegistriesAgree, registryVars
  <2> QED
    BY <2>16, <2>17, <2>18, <2>19, <2>20 DEF QueuesFit
<1> QED
  BY <1>3, <1>4

-----------------------------------------------------------------------------
(* What a request builds, binds and removes.                               *)

Added(f, lines) ==
    [k \in DOMAIN InOrder(NewLines(f, lines)) |-> [file |-> f, line |-> InOrder(NewLines(f, lines))[k]]]

\* The breakpoints, those of the request among them.
Built(f, lines) == breakpoints \o Added(f, lines)

\* A function on the first numbers is a sequence.
LEMMA NumberedSeq ==
    ASSUME NEW S, NEW n \in Nat, NEW s \in [1 .. n -> S]
    PROVE  s \in Seq(S) /\ Len(s) = n /\ DOMAIN s = 1 .. n
  OBVIOUS

\* The first breakpoint that was registered at a line is one there.
LEMMA PlacesProperties ==
    ASSUME SessionTypeOK, RegistriesAgree, NEW f \in Files, NEW line
    PROVE  /\ PlacesOf(f, line) # {} =>
                 /\ FirstAt(f, line) \in Range(registeredBreakpointsByFileName[f])
                 /\ breakpoints[FirstAt(f, line)].line = line
           /\ PlacesOf(f, line) = {} <=>
                 \A i \in Range(registeredBreakpointsByFileName[f]) : breakpoints[i].line # line
           /\ Range(registeredBreakpointsByFileName[f]) \subseteq Ids
           /\ \A i \in Range(registeredBreakpointsByFileName[f]) : breakpoints[i].file = f
<1> DEFINE list == registeredBreakpointsByFileName[f]
<1>1. list \in Seq(Ids)
  BY DEF SessionTypeOK
<1>2. DOMAIN list = 1 .. Len(list) /\ Len(list) \in Nat /\ Range(list) \subseteq Ids
  BY <1>1, LenProperties, RangeOfSeq
<1>3. PlacesOf(f, line) = {k \in DOMAIN list : breakpoints[list[k]].line = line}
  BY DEF PlacesOf
<1>4. \A i : i \in Range(list) <=> \E k \in DOMAIN list : list[k] = i
  BY DEF Range
<1>5. \A i \in Range(list) : breakpoints[i].file = f
  BY DEF RegistriesAgree
<1>6. FirstAt(f, line) = list[Min(PlacesOf(f, line))]
  BY DEF FirstAt
<1> HIDE DEF list
<1>7. ASSUME PlacesOf(f, line) # {}
      PROVE  FirstAt(f, line) \in Range(list) /\ breakpoints[FirstAt(f, line)].line = line
  <2>1. PlacesOf(f, line) \in SUBSET Nat
    BY <1>2, <1>3
  <2>2. Min(PlacesOf(f, line)) \in PlacesOf(f, line)
    BY <1>7, <2>1, MinProperties
  <2> QED
    BY <1>3, <1>4, <1>6, <2>2
<1>8. PlacesOf(f, line) = {} <=> \A i \in Range(list) : breakpoints[i].line # line
  BY <1>3, <1>4
<1> QED
  BY <1>2, <1>5, <1>7, <1>8 DEF list

\* Finitely many lines.
LEMMA LinesProperties ==
    ASSUME NEW lines \in SUBSET Lines
    PROVE  lines \in SUBSET Nat /\ IsFiniteSet(lines) /\ Cardinality(lines) \in Nat
<1>1. IsFiniteSet(lines)
  BY LinesAssumption, FS_Subset
<1> QED
  BY <1>1, LinesAssumption, FS_CardinalityType

\* One breakpoint for each of the new lines, with the next Ids.
BuiltFits(f, lines) ==
    /\ Built(f, lines) \in Seq([file : Files, line : Lines])
    /\ Ids \subseteq DOMAIN Built(f, lines)
    /\ \A i \in Ids : Built(f, lines)[i] = breakpoints[i]
    /\ \A i \in DOMAIN Built(f, lines) \ Ids :
          /\ Built(f, lines)[i].file = f /\ Built(f, lines)[i].line \in NewLines(f, lines)
          /\ IdAt(f, lines, Built(f, lines)[i].line) = i
    /\ \A line \in NewLines(f, lines) :
          /\ IdAt(f, lines, line) \in DOMAIN Built(f, lines) \ Ids
          /\ Built(f, lines)[IdAt(f, lines, line)] = [file |-> f, line |-> line]

\* That is what a request builds.
LEMMA BuiltProperties ==
    ASSUME SessionTypeOK, NEW f \in Files, NEW lines \in SUBSET Lines
    PROVE  BuiltFits(f, lines)
<1> DEFINE built == Built(f, lines)
           N == NewLines(f, lines)
           m == Cardinality(N)
           new == InOrder(N)
           added == Added(f, lines)
           n == Len(breakpoints)
           B == [file : Files, line : Lines]
<1>1. N \in SUBSET Lines /\ N \in SUBSET Nat /\ IsFiniteSet(N)
  <2>1. N \in SUBSET Lines
    BY DEF NewLines
  <2> HIDE DEF N
  <2> QED
    BY <2>1, LinesProperties
<1>2. added = [k \in DOMAIN new |-> [file |-> f, line |-> new[k]]]
  BY DEF Added
<1>3. \A line \in N : IdAt(f, lines, line) = n + Cardinality({l \in N : l <= line})
  BY DEF IdAt
<1> HIDE DEF N
<1>4. /\ m \in Nat /\ new \in [1 .. m -> N]
      /\ \A line \in N : \E k \in 1 .. m : new[k] = line
      /\ \A k \in 1 .. m : Cardinality({l \in N : l <= new[k]}) = k
  BY <1>1, InOrderProperties
<1> HIDE DEF m, new
<1>5. /\ added \in [1 .. m -> B]
      /\ \A k \in 1 .. m : added[k] = [file |-> f, line |-> new[k]]
  <2> HIDE DEF added
  <2>1. DOMAIN new = 1 .. m /\ \A k \in 1 .. m : new[k] \in Lines
    BY <1>1, <1>4
  <2>2. added = [k \in 1 .. m |-> [file |-> f, line |-> new[k]]]
    BY <1>2, <2>1
  <2>3. \A k \in 1 .. m : [file |-> f, line |-> new[k]] \in B
    BY <2>1
  <2> HIDE DEF B
  <2> QED
    BY <2>2, <2>3
<1> HIDE DEF added, B
<1>6. added \in Seq(B) /\ Len(added) = m
  BY <1>4, <1>5, NumberedSeq
<1>7. breakpoints \in Seq(B) /\ n \in Nat /\ Ids = 1 .. n
  BY IdsType DEF SessionTypeOK, B
<1> HIDE DEF n
<1>8. /\ built \in Seq(B) /\ Len(built) = n + m
      /\ \A i \in 1 .. n + m : built[i] = IF i <= n THEN breakpoints[i] ELSE added[i - n]
  BY <1>6, <1>7, ConcatProperties DEF added, n, Built
<1>9. DOMAIN built = 1 .. n + m
  BY <1>8, LenProperties
<1>10. \A k \in 1 .. m : new[k] \in N /\ IdAt(f, lines, new[k]) = n + k
  <2>1. \A k \in 1 .. m : new[k] \in N
    BY <1>4
  <2> QED
    BY <1>3, <1>4, <2>1
<1>11. ASSUME NEW i \in DOMAIN built \ Ids
       PROVE  /\ built[i].file = f /\ built[i].line \in N
              /\ IdAt(f, lines, built[i].line) = i
  <2>1. i \in 1 .. n + m /\ ~(i <= n) /\ i - n \in 1 .. m /\ n + (i - n) = i
    BY <1>4, <1>7, <1>9
  <2>2. built[i] = [file |-> f, line |-> new[i - n]]
    BY <1>5, <1>8, <2>1
  <2>3. built[i].file = f /\ built[i].line = new[i - n]
    BY <2>2
  <2> QED
    BY <1>10, <2>1, <2>3
<1>12. ASSUME NEW line \in N
       PROVE  /\ IdAt(f, lines, line) \in DOMAIN built \ Ids
              /\ built[IdAt(f, lines, line)] = [file |-> f, line |-> line]
  <2>1. PICK k \in 1 .. m : new[k] = line
    BY <1>4
  <2>2. IdAt(f, lines, line) = n + k
    BY <1>10, <2>1
  <2>3. n + k \in 1 .. n + m /\ ~(n + k <= n) /\ (n + k) - n = k
    BY <1>4, <1>7
  <2>4. built[n + k] = added[k]
    BY <1>8, <2>3
  <2> QED
    BY <1>5, <1>7, <1>9, <2>1, <2>2, <2>3, <2>4
<1>13. Ids \subseteq DOMAIN built /\ \A i \in Ids : built[i] = breakpoints[i]
  <2> HIDE DEF built
  <2>1. m \in Nat
    BY <1>4
  <2>2. \A i \in Ids : i <= n /\ i \in 1 .. n + m
    BY <1>7, <2>1
  <2>3. \A i \in Ids : built[i] = breakpoints[i]
    BY <1>8, <2>2
  <2> QED
    BY <1>9, <2>2, <2>3
<1> QED
  BY <1>8, <1>11, <1>12, <1>13 DEF N, B, BuiltFits

\* It binds a breakpoint for each of its lines, the new ones among them.
LEMMA BoundProperties ==
    ASSUME SessionTypeOK, RegistriesAgree, NEW f \in Files, NEW lines \in SUBSET Lines
    PROVE  /\ BoundBy(f, lines) \in Seq(DOMAIN Built(f, lines))
           /\ Len(BoundBy(f, lines)) = Cardinality(lines)
           /\ \A i \in Range(BoundBy(f, lines)) :
                 Built(f, lines)[i].file = f /\ Built(f, lines)[i].line \in lines
           /\ \A line \in lines : \E i \in Range(BoundBy(f, lines)) : Built(f, lines)[i].line = line
           /\ DOMAIN Built(f, lines) \ Ids \subseteq Range(BoundBy(f, lines))
           /\ \A i \in Range(BoundBy(f, lines)) \cap Ids : i \in registeredBreakpoints
<1> DEFINE built == Built(f, lines)
           m == Cardinality(lines)
           order == InOrder(lines)
           bound == BoundBy(f, lines)
<1>1. lines \in SUBSET Nat /\ IsFiniteSet(lines)
  BY LinesProperties
<1>2. /\ m \in Nat /\ order \in [1 .. m -> lines]
      /\ \A line \in lines : \E k \in 1 .. m : order[k] = line
  BY <1>1, InOrderProperties
<1>3. bound = [k \in 1 .. m |-> IdAt(f, lines, order[k])]
  BY DEF BoundBy
<1>4. /\ Ids \subseteq DOMAIN built
      /\ \A i \in Ids : built[i] = breakpoints[i]
      /\ \A i \in DOMAIN built \ Ids :
            built[i].line \in NewLines(f, lines) /\ IdAt(f, lines, built[i].line) = i
      /\ \A line \in NewLines(f, lines) :
            /\ IdAt(f, lines, line) \in DOMAIN built \ Ids
            /\ built[IdAt(f, lines, line)] = [file |-> f, line |-> line]
  BY BuiltProperties DEF built, BuiltFits
<1> HIDE DEF built, m, order, bound
<1>5. ASSUME NEW line \in lines
      PROVE  /\ IdAt(f, lines, line) \in DOMAIN built
             /\ built[IdAt(f, lines, line)].file = f
             /\ built[IdAt(f, lines, line)].line = line
             /\ IdAt(f, lines, line) \in Ids => IdAt(f, lines, line) \in registeredBreakpoints
  <2>1. CASE line \in NewLines(f, lines)
    <3>1. /\ IdAt(f, lines, line) \in DOMAIN built \ Ids
          /\ built[IdAt(f, lines, line)] = [file |-> f, line |-> line]
      BY <1>4, <2>1
    <3> QED
      BY <3>1
  <2>2. CASE line \notin NewLines(f, lines)
    <3>1. PlacesOf(f, line) # {} /\ IdAt(f, lines, line) = FirstAt(f, line)
      BY <2>2 DEF NewLines, IdAt
    <3>2. /\ FirstAt(f, line) \in Range(registeredBreakpointsByFileName[f])
          /\ breakpoints[FirstAt(f, line)].line = line
          /\ Range(registeredBreakpointsByFileName[f]) \subseteq Ids
          /\ \A i \in Range(registeredBreakpointsByFileName[f]) : breakpoints[i].file = f
      BY <3>1, PlacesProperties
    <3>3. FirstAt(f, line) \in registeredBreakpoints
      BY <3>2 DEF RegistriesAgree
    <3> QED
      BY <1>4, <3>1, <3>2, <3>3
  <2> QED
    BY <2>1, <2>2
<1>6. \A k \in 1 .. m : order[k] \in lines /\ bound[k] = IdAt(f, lines, order[k])
  BY <1>2, <1>3
<1>7. bound \in [1 .. m -> DOMAIN built]
  BY <1>3, <1>5, <1>6
<1>8. bound \in Seq(DOMAIN built) /\ Len(bound) = m /\ DOMAIN bound = 1 .. m
  BY <1>2, <1>7, NumberedSeq
<1>9. \A i : i \in Range(bound) <=> \E k \in 1 .. m : bound[k] = i
  BY <1>8 DEF Range
<1>10. \A line \in lines : IdAt(f, lines, line) \in Range(bound)
  BY <1>2, <1>6, <1>9
<1>11. \A i \in Range(bound) : \E line \in lines : i = IdAt(f, lines, line)
  BY <1>6, <1>9
<1>12. \A i \in Range(bound) : built[i].file = f /\ built[i].line \in lines
                               /\ (i \in Ids => i \in registeredBreakpoints)
  BY <1>5, <1>11
<1>13. \A line \in lines : \E i \in Range(bound) : built[i].line = line
  BY <1>5, <1>10
<1>14. DOMAIN built \ Ids \subseteq Range(bound)
  <2>1. NewLines(f, lines) \subseteq lines
    BY DEF NewLines
  <2> QED
    BY <1>4, <1>10, <2>1
<1> QED
  BY <1>8, <1>12, <1>13, <1>14 DEF bound, m, built

\* It removes a breakpoint for each registered line that it does not have.
LEMMA RemovedProperties ==
    ASSUME SessionTypeOK, RegistriesAgree, NEW f \in Files, NEW lines
    PROVE  /\ RemovedBy(f, lines) \in Seq(Ids)
           /\ \A i \in Range(RemovedBy(f, lines)) :
                 breakpoints[i].file = f /\ breakpoints[i].line \notin lines
           /\ \A i \in Range(registeredBreakpointsByFileName[f]) :
                 breakpoints[i].line \notin lines =>
                    \E j \in Range(RemovedBy(f, lines)) : breakpoints[j].line = breakpoints[i].line
<1> DEFINE list == registeredBreakpointsByFileName[f]
           places == {k \in DOMAIN list : breakpoints[list[k]].line \notin lines}
           m == Cardinality(places)
           order == InOrder(places)
           removed == RemovedBy(f, lines)
           LineAt(k) == breakpoints[list[k]].line
<1>1. list \in Seq(Ids)
  BY DEF SessionTypeOK
<1>2. DOMAIN list = 1 .. Len(list) /\ Len(list) \in Nat
  BY <1>1, LenProperties
<1>3. removed = [j \in 1 .. m |-> FirstAt(f, LineAt(order[j]))]
  BY DEF RemovedBy
<1>4. \A i : i \in Range(list) <=> \E k \in DOMAIN list : list[k] = i
  BY DEF Range
<1>5. places \in SUBSET Nat /\ IsFiniteSet(places)
  <2>1. places \in SUBSET (1 .. Len(list))
    BY <1>2
  <2>2. IsFiniteSet(1 .. Len(list)) /\ 1 .. Len(list) \subseteq Nat
    BY <1>2, FS_Interval
  <2> DEFINE all == 1 .. Len(list)
  <2> HIDE DEF places, all
  <2>3. IsFiniteSet(places)
    BY <2>1, <2>2, FS_Subset DEF all
  <2> QED
    BY <2>1, <2>2, <2>3
<1>6. \A k : k \in places <=> k \in DOMAIN list /\ LineAt(k) \notin lines
  OBVIOUS
<1> HIDE DEF places
<1>7. /\ m \in Nat /\ order \in [1 .. m -> places]
      /\ \A k \in places : \E j \in 1 .. m : order[j] = k
  BY <1>5, InOrderProperties
<1> HIDE DEF m, order, removed
<1>8. ASSUME NEW k \in DOMAIN list
      PROVE  /\ FirstAt(f, LineAt(k)) \in Ids
             /\ breakpoints[FirstAt(f, LineAt(k))].file = f
             /\ breakpoints[FirstAt(f, LineAt(k))].line = LineAt(k)
  <2>1. list[k] \in Range(list)
    BY <1>4
  <2>2. PlacesOf(f, LineAt(k)) # {}
    BY <2>1, PlacesProperties
  <2> QED
    BY <2>2, PlacesProperties
<1>9. \A j \in 1 .. m : /\ order[j] \in DOMAIN list /\ LineAt(order[j]) \notin lines
                        /\ removed[j] = FirstAt(f, LineAt(order[j]))
  BY <1>3, <1>6, <1>7
<1>10. \A j \in 1 .. m : /\ removed[j] \in Ids
                         /\ breakpoints[removed[j]].file = f
                         /\ breakpoints[removed[j]].line = LineAt(order[j])
  BY <1>8, <1>9
<1>11. removed \in [1 .. m -> Ids]
  BY <1>3, <1>10
<1>12. removed \in Seq(Ids) /\ DOMAIN removed = 1 .. m
  BY <1>7, <1>11, NumberedSeq
<1>13. \A i : i \in Range(removed) <=> \E j \in 1 .. m : removed[j] = i
  BY <1>12 DEF Range
<1>14. \A i \in Range(removed) : breakpoints[i].file = f /\ breakpoints[i].line \notin lines
  BY <1>9, <1>10, <1>13
<1>15. ASSUME NEW i \in Range(list), breakpoints[i].line \notin lines
       PROVE  \E j \in Range(removed) : breakpoints[j].line = breakpoints[i].line
  <2>1. PICK k \in DOMAIN list : list[k] = i
    BY <1>4
  <2>2. k \in places
    BY <1>6, <1>15, <2>1
  <2>3. PICK j \in 1 .. m : order[j] = k
    BY <1>7, <2>2
  <2> QED
    BY <1>10, <1>13, <2>1, <2>3
<1> QED
  BY <1>12, <1>14, <1>15 DEF removed

-----------------------------------------------------------------------------
(* A request is bound.                                                     *)

\* What the reaction to the load does for a request, in a session that is not over.
Binds(r, f, lines) ==
    LET bound == BoundBy(f, lines)
        removed == RemovedBy(f, lines)
    IN  /\ microtasks # <<>> /\ Head(microtasks) = <<"set", r>>
        /\ breakpoints' = Built(f, lines)
        /\ enabled' = (enabled \union Range(bound)) \ Range(removed)
        /\ breakpointCommands' =
               breakpointCommands \o [k \in DOMAIN bound |-> [Id |-> bound[k], request |-> r]]
        /\ toProgram' = (toProgram \o [k \in DOMAIN bound |-> <<"bind", bound[k]>>])
                            \o [k \in DOMAIN removed |-> <<"disable", removed[k]>>]
        /\ unsettled' = [unsettled EXCEPT ![r] = Len(bound)]
        /\ stage' = [stage EXCEPT ![r] = "binding"]
        /\ microtasks' = Tail(microtasks) \o (IF Len(bound) = 0 THEN <<<<"answer", r>>>> ELSE <<>>)
        /\ UNCHANGED <<registeredBreakpoints, registeredBreakpointsByFileName, debuggerLoaded,
                       requests, overlapped, toAdapter, active>>

\* In a session that is not over the reaction to the load binds the request.
LEMMA SetBinds ==
    ASSUME NEW r, SetStep(r), ~terminateEventSent
    PROVE  Binds(r, requests[r].file, requests[r].lines)
<1> DEFINE f == requests[r].file
           lines == requests[r].lines
<1>1. SetBreakPoints(r) /\ microtasks # <<>> /\ Head(microtasks) = <<"set", r>>
  BY DEF SetStep, TaskRuns
<1>2. UNCHANGED <<debuggerLoaded, requests, overlapped, toAdapter, active>>
  BY DEF SetStep, TaskFrame, editorVars, launchVars, programVars
<1>3. breakpoints' = Built(f, lines)
  BY <1>1 DEF SetBreakPoints, Added, Built
<1>4. enabled' = (enabled \union Range(BoundBy(f, lines))) \ Range(RemovedBy(f, lines))
  BY <1>1 DEF SetBreakPoints, EnabledWith
<1> QED
  BY <1>1, <1>2, <1>3, <1>4 DEF SetBreakPoints, PromisesOf, Binds

\* Nothing is queued for a request whose reaction to the load is next.
LEMMA SetFacts ==
    ASSUME SessionTypeOK, QueuesFit, NEW r \in RequestIds, microtasks # <<>>,
           Head(microtasks) = <<"set", r>>
    PROVE  /\ stage[r] = "waiting" /\ debuggerLoaded
           /\ requests[r].file \in Files /\ requests[r].lines \in SUBSET Lines
           /\ r \in DOMAIN requests
           /\ \A command \in Range(breakpointCommands) :
                 command.request \in RequestIds /\ command.request # r
           /\ \A i \in Nat, verified \in BOOLEAN : <<"bound", r, i, verified>> \notin Range(microtasks)
           /\ <<"answer", r>> \notin Range(microtasks)
           /\ Count(breakpointCommands, BindCommands(r)) = 0
           /\ Count(microtasks, BindTasks(r)) = 0
           /\ Count(microtasks, {<<"set", r>>}) = 1
           /\ unsettled[r] = 0
<1>1. microtasks \in Seq(Tasks)
  BY DEF QueuesFit, TasksFit
<1>2. <<"set", r>> \in Range(microtasks)
  BY <1>1, RangeTail
<1>3. stage[r] = "waiting" /\ debuggerLoaded
  BY <1>2 DEF QueuesFit, TasksFit
<1>4. stage[r] # "unsent"
  BY <1>3
<1>5. requests[r].file \in Files /\ requests[r].lines \in SUBSET Lines /\ r \in DOMAIN requests
  BY <1>4, RequestType DEF QueuesFit
<1>6. breakpointCommands \in Seq([Id : Ids, request : RequestIds])
  BY DEF SessionTypeOK
<1>7. Range(breakpointCommands) \subseteq [Id : Ids, request : RequestIds]
  BY <1>6, RangeOfSeq
<1>8. \A command \in Range(breakpointCommands) :
         command.request \in RequestIds /\ command.request # r
  BY <1>3, <1>7 DEF QueuesFit, CommandsFit
<1>9. \A i \in Nat, verified \in BOOLEAN : <<"bound", r, i, verified>> \notin Range(microtasks)
  BY <1>3 DEF QueuesFit, TasksFit
<1>10. Count(breakpointCommands, BindCommands(r)) = 0
  <2>1. ~(\E e \in Range(breakpointCommands) : e \in BindCommands(r))
    BY <1>8 DEF BindCommands
  <2>2. ~(Count(breakpointCommands, BindCommands(r)) > 0)
    BY <1>6, <2>1, CountInRange
  <2>3. Count(breakpointCommands, BindCommands(r)) \in Nat
    BY <1>6, CountType
  <2> QED
    BY <2>2, <2>3
<1>11. Count(microtasks, BindTasks(r)) = 0
  <2>1. ~(\E e \in Range(microtasks) : e \in BindTasks(r))
    BY <1>9 DEF BindTasks
  <2>2. ~(Count(microtasks, BindTasks(r)) > 0)
    BY <1>1, <2>1, CountInRange
  <2>3. Count(microtasks, BindTasks(r)) \in Nat
    BY <1>1, CountType
  <2> QED
    BY <2>2, <2>3
<1>12. Count(microtasks, {<<"set", r>>}) = 1
  <2>1. Count(microtasks, {<<"set", r>>}) > 0
    BY <1>1, <1>2, CountInRange
  <2>2. Count(microtasks, {<<"set", r>>}) \in Nat
    BY <1>1, CountType
  <2>3. Count(microtasks, {<<"set", r>>}) <= 1
    BY DEF QueuesFit, TasksFit
  <2> QED
    BY <2>1, <2>2, <2>3
<1>13. unsettled[r] = 0
  <2>1. unsettled[r] = Count(breakpointCommands, BindCommands(r)) + Count(microtasks, BindTasks(r))
    BY DEF QueuesFit, Awaits
  <2> QED
    BY <1>10, <1>11, <2>1
<1>14. <<"answer", r>> \notin Range(microtasks)
  <2>1. <<"answer", r>> \in Range(microtasks) => stage[r] = "binding"
    BY DEF QueuesFit, TasksFit
  <2> QED
    BY <1>3, <2>1
<1> QED
  BY <1>3, <1>5, <1>8, <1>9, <1>10, <1>11, <1>12, <1>13, <1>14

\* The commands of the new request.
CommandsOf(bound, r) == [k \in DOMAIN bound |-> [Id |-> bound[k], request |-> r]]

CommandsFor(commands, bound, r) ==
    /\ \A command \in Range(commands) : command.request = r /\ command.Id \in Range(bound)
    /\ \A i \in Range(bound) : \E command \in Range(commands) : command.Id = i
    /\ \A q \in RequestIds : Count(commands, BindCommands(q)) = IF q = r THEN Len(bound) ELSE 0

\* They are commands of that request only, one for each breakpoint it binds.
LEMMA NewCommands ==
    ASSUME NEW S \in SUBSET Nat, NEW bound \in Seq(S), NEW r \in RequestIds
    PROVE  /\ CommandsOf(bound, r) \in Seq([Id : S, request : RequestIds])
           /\ CommandsFor(CommandsOf(bound, r), bound, r)
<1> DEFINE new == CommandsOf(bound, r)
<1>13. new = [k \in DOMAIN bound |-> [Id |-> bound[k], request |-> r]]
  BY DEF CommandsOf
<1> HIDE DEF new
<1>1. DOMAIN bound = 1 .. Len(bound) /\ Len(bound) \in Nat
  BY LenProperties
<1>2. \A k \in 1 .. Len(bound) : bound[k] \in S
  BY ElementOfSeq
<1>3. new \in [1 .. Len(bound) -> [Id : S, request : RequestIds]]
  BY <1>1, <1>2, <1>13
<1>4. new \in Seq([Id : S, request : RequestIds]) /\ Len(new) = Len(bound) /\ DOMAIN new = 1 .. Len(bound)
  BY <1>1, <1>3, NumberedSeq
<1>5. \A k \in 1 .. Len(bound) : /\ new[k] \in BindCommands(r)
                                 /\ new[k].request = r /\ new[k].Id = bound[k]
  BY <1>1, <1>2, <1>13 DEF BindCommands
<1>6. \A command : command \in Range(new) <=> \E k \in 1 .. Len(bound) : new[k] = command
  BY <1>4 DEF Range
<1>7. \A i : i \in Range(bound) <=> \E k \in 1 .. Len(bound) : bound[k] = i
  BY <1>1 DEF Range
<1>8. Count(new, BindCommands(r)) = Len(bound)
  BY <1>4, <1>5, CountUniform
<1>9. ASSUME NEW q, q # r
      PROVE  Count(new, BindCommands(q)) = 0
  <2>1. \A k \in 1 .. Len(bound) : new[k] \notin BindCommands(q)
    BY <1>5, <1>9 DEF BindCommands
  <2> QED
    BY <1>4, <2>1, CountUniform
<1>10. \A command \in Range(new) : command.request = r /\ command.Id \in Range(bound)
  BY <1>5, <1>6, <1>7
<1>11. \A i \in Range(bound) : \E command \in Range(new) : command.Id = i
  <2>1. ASSUME NEW i \in Range(bound)
        PROVE  \E command \in Range(new) : command.Id = i
    <3>1. PICK k \in 1 .. Len(bound) : bound[k] = i
      BY <1>7
    <3>2. new[k] \in Range(new) /\ new[k].Id = i
      BY <1>5, <1>6, <3>1
    <3> QED
      BY <3>2
  <2> QED
    BY <2>1
<1>12. \A q \in RequestIds : Count(new, BindCommands(q)) = IF q = r THEN Len(bound) ELSE 0
  BY <1>8, <1>9
<1> QED
  BY <1>4, <1>10, <1>11, <1>12 DEF new, CommandsFor

\* The request then waits for as many confirmations as it has commands.
LEMMA BindQueues ==
    ASSUME SessionTypeOK, QueuesFit, NEW r \in RequestIds, NEW f, NEW lines,
           f = requests[r].file, lines = requests[r].lines, Binds(r, f, lines)
    PROVE  QueuesFit'
<1> DEFINE bound == BoundBy(f, lines)
           more == IF Len(bound) = 0 THEN <<<<"answer", r>>>> ELSE <<>>
           new == CommandsOf(bound, r)
<1>1. /\ microtasks # <<>> /\ Head(microtasks) = <<"set", r>>
      /\ breakpoints' = Built(f, lines)
      /\ breakpointCommands' = breakpointCommands \o new
      /\ unsettled' = [unsettled EXCEPT ![r] = Len(bound)]
      /\ stage' = [stage EXCEPT ![r] = "binding"]
      /\ microtasks' = Tail(microtasks) \o more
      /\ UNCHANGED <<registeredBreakpoints, registeredBreakpointsByFileName, debuggerLoaded, requests>>
  BY DEF Binds, CommandsOf
<1>2. /\ stage[r] = "waiting" /\ debuggerLoaded
      /\ f \in Files /\ lines \in SUBSET Lines
      /\ \A i \in Nat, verified \in BOOLEAN : <<"bound", r, i, verified>> \notin Range(microtasks)
      /\ <<"answer", r>> \notin Range(microtasks)
      /\ Count(breakpointCommands, BindCommands(r)) = 0
      /\ Count(microtasks, BindTasks(r)) = 0
      /\ Count(microtasks, {<<"set", r>>}) = 1
      /\ \A command \in Range(breakpointCommands) :
            command.request \in RequestIds /\ command.request # r
  BY <1>1, SetFacts
<1>3. /\ microtasks \in Seq(Tasks) /\ unsettled \in [RequestIds -> Nat]
      /\ stage \in [RequestIds -> {"unsent", "waiting", "binding", "answered"}]
      /\ breakpointCommands \in Seq([Id : Ids, request : RequestIds])
  BY DEF QueuesFit, TasksFit, SessionTypeOK
<1>4. /\ breakpoints' \in Seq([file : Files, line : Lines])
      /\ Ids \subseteq Ids'
      /\ \A i \in Ids : breakpoints'[i] = breakpoints[i]
  <2>1. /\ Built(f, lines) \in Seq([file : Files, line : Lines])
        /\ Ids \subseteq DOMAIN Built(f, lines)
        /\ \A i \in Ids : Built(f, lines)[i] = breakpoints[i]
    BY <1>2, BuiltProperties DEF BuiltFits
  <2>2. Ids' = DOMAIN Built(f, lines)
    BY <1>1 DEF Ids
  <2> QED
    BY <1>1, <2>1, <2>2
<1>5. /\ bound \in Seq(Ids')
      /\ \A i \in Range(bound) : breakpoints'[i].file = f
      /\ Ids' \ Ids \subseteq Range(bound)
  <2>1. RegistriesAgree
    BY DEF QueuesFit
  <2>2. /\ bound \in Seq(DOMAIN Built(f, lines))
        /\ \A i \in Range(bound) : Built(f, lines)[i].file = f
        /\ DOMAIN Built(f, lines) \ Ids \subseteq Range(bound)
    BY <1>2, <2>1, BoundProperties
  <2>3. Ids' = DOMAIN Built(f, lines)
    BY <1>1 DEF Ids
  <2> HIDE DEF bound
  <2> QED
    BY <1>1, <2>2, <2>3
<1>6. Ids' \subseteq Nat /\ Ids \subseteq Nat
  <2>1. DOMAIN (breakpoints') = 1 .. Len(breakpoints') /\ Len(breakpoints') \in Nat
    BY <1>4, LenProperties
  <2> QED
    BY <2>1, IdsType DEF Ids
<1> HIDE DEF bound
<1>7. Len(bound) \in Nat
  BY <1>5, LenProperties
<1>8. /\ more \in Seq(Tasks)
      /\ \A x \in Range(more) : x = <<"answer", r>> /\ Len(bound) = 0
      /\ Len(bound) = 0 => <<"answer", r>> \in Range(more)
      /\ \A T : <<"answer", r>> \notin T => Count(more, T) = 0
      /\ Count(more, {<<"answer", r>>}) = IF Len(bound) = 0 THEN 1 ELSE 0
  <2>1. more = <<<<"answer", r>>>> \/ more = <<>>
    OBVIOUS
  <2>2. more # <<>> <=> Len(bound) = 0
    OBVIOUS
  <2> HIDE DEF more
  <2> QED
    BY <2>1, <2>2, OnlyAnswers
<1> HIDE DEF more
<1>9. microtasks' \in Seq(Tasks) /\ Moves(microtasks, more, microtasks')
  <2>1. /\ Tail(microtasks) \o more \in Seq(Tasks)
        /\ Moves(microtasks, more, Tail(microtasks) \o more)
    BY <1>1, <1>3, <1>8, QueueTaken
  <2> QED
    BY <1>1, <2>1
<1>10. /\ new \in Seq([Id : Ids', request : RequestIds])
       /\ \A command \in Range(new) : command.request = r /\ command.Id \in Range(bound)
       /\ \A i \in Range(bound) : \E command \in Range(new) : command.Id = i
       /\ \A q \in RequestIds : Count(new, BindCommands(q)) = IF q = r THEN Len(bound) ELSE 0
  <2> DEFINE ids == Ids'
  <2>1. ids \in SUBSET Nat /\ bound \in Seq(ids)
    BY <1>5, <1>6
  <2> HIDE DEF ids
  <2>2. new \in Seq([Id : ids, request : RequestIds]) /\ CommandsFor(new, bound, r)
    BY <2>1, NewCommands
  <2> HIDE DEF new
  <2> QED
    BY <2>2 DEF ids, CommandsFor
<1> HIDE DEF new
<1>11. breakpointCommands \in Seq([Id : Ids', request : RequestIds])
  <2>1. [Id : Ids, request : RequestIds] \subseteq [Id : Ids', request : RequestIds]
    BY <1>4
  <2> QED
    BY <1>3, <2>1, SeqMonotonic
<1>12. Range(breakpointCommands') = Range(breakpointCommands) \union Range(new)
  BY <1>1, <1>10, <1>11, RangeConcatenation
<1>13. \A q \in RequestIds : /\ Count(breakpointCommands', BindCommands(q)) =
                                  Count(breakpointCommands, BindCommands(q)) + (IF q = r THEN Len(bound) ELSE 0)
                             /\ Count(breakpointCommands, BindCommands(q)) \in Nat
  <2>1. breakpointCommands' = breakpointCommands \o new
    BY <1>1 DEF new
  <2> DEFINE C == [Id : Ids', request : RequestIds]
  <2>3. breakpointCommands \in Seq(C) /\ new \in Seq(C)
    BY <1>10, <1>11
  <2> HIDE DEF C
  <2>2. ASSUME NEW T
        PROVE  /\ Count(breakpointCommands \o new, T) = Count(breakpointCommands, T) + Count(new, T)
               /\ Count(breakpointCommands, T) \in Nat
    BY <2>3, CountConcat, CountType
  <2> QED
    BY <1>10, <2>1, <2>2
<1> USE DEF Moves
<1>14. \A q \in RequestIds : Count(microtasks', BindTasks(q)) = Count(microtasks, BindTasks(q))
  <2> SUFFICES ASSUME NEW q \in RequestIds
               PROVE  Count(microtasks', BindTasks(q)) = Count(microtasks, BindTasks(q))
    OBVIOUS
  <2>1. Head(microtasks) \notin BindTasks(q) /\ Count(more, BindTasks(q)) = 0
    BY <1>1, <1>8, NoBindTasks
  <2>2. Count(microtasks', BindTasks(q)) = (Count(microtasks, BindTasks(q)) - 0) + 0
    BY <1>9, <2>1
  <2>3. Count(microtasks, BindTasks(q)) \in Nat
    BY <1>9
  <2> QED
    BY <2>2, <2>3
<1>15. \A q \in RequestIds : unsettled'[q] = IF q = r THEN Len(bound) ELSE unsettled[q]
  BY <1>1, <1>3
<1>16. \A q \in RequestIds : stage'[q] = IF q = r THEN "binding" ELSE stage[q]
  BY <1>1, <1>3
<1>17. ASSUME NEW q \in RequestIds, q # r
       PROVE  /\ <<"set", q>> \in Range(microtasks') <=> <<"set", q>> \in Range(microtasks)
              /\ <<"answer", q>> \in Range(microtasks') <=> <<"answer", q>> \in Range(microtasks)
              /\ Count(microtasks', {<<"set", q>>}) = Count(microtasks, {<<"set", q>>})
              /\ Count(microtasks', {<<"answer", q>>}) = Count(microtasks, {<<"answer", q>>})
  <2>1. <<"set", q>> # Head(microtasks) /\ <<"answer", q>> # Head(microtasks)
    BY <1>1, <1>17, TasksDiffer
  <2>2. <<"set", q>> \notin Range(more) /\ Count(more, {<<"set", q>>}) = 0
    BY <1>8, TasksDiffer
  <2>3. <<"answer", q>> \notin Range(more) /\ Count(more, {<<"answer", q>>}) = 0
    BY <1>8, <1>17, TasksDiffer
  <2>4. Count(microtasks', {<<"set", q>>}) = (Count(microtasks, {<<"set", q>>}) - 0) + 0
    BY <1>9, <2>1, <2>2
  <2>5. Count(microtasks', {<<"answer", q>>}) = (Count(microtasks, {<<"answer", q>>}) - 0) + 0
    BY <1>9, <2>1, <2>3
  <2>6. Count(microtasks, {<<"set", q>>}) \in Nat /\ Count(microtasks, {<<"answer", q>>}) \in Nat
    BY <1>9
  <2>7. /\ <<"set", q>> \in Range(microtasks') <=> <<"set", q>> \in Range(microtasks)
        /\ <<"answer", q>> \in Range(microtasks') <=> <<"answer", q>> \in Range(microtasks)
    BY <1>9, <2>1, <2>2, <2>3
  <2> QED
    BY <2>4, <2>5, <2>6, <2>7
<1>18. /\ <<"set", r>> \notin Range(microtasks') /\ Count(microtasks', {<<"set", r>>}) <= 1
       /\ <<"answer", r>> \in Range(microtasks') <=> Len(bound) = 0
       /\ Count(microtasks', {<<"answer", r>>}) <= 1
  <2>1. Count(more, {<<"set", r>>}) = 0
    BY <1>8, TasksDiffer
  <2>2. Count(microtasks', {<<"set", r>>}) = (1 - 1) + 0
    BY <1>1, <1>2, <1>9, <2>1
  <2>3. ~(Count(microtasks', {<<"set", r>>}) > 0)
    BY <2>2
  <2>4. Count(microtasks, {<<"answer", r>>}) = 0
    <3>1. ~(Count(microtasks, {<<"answer", r>>}) > 0) /\ Count(microtasks, {<<"answer", r>>}) \in Nat
      BY <1>2, <1>9
    <3> QED
      BY <3>1
  <2>5. <<"answer", r>> # Head(microtasks)
    BY <1>1, TasksDiffer
  <2>6. Count(microtasks', {<<"answer", r>>}) = (0 - 0) + (IF Len(bound) = 0 THEN 1 ELSE 0)
    BY <1>8, <1>9, <2>4, <2>5
  <2>7. <<"answer", r>> \in Range(microtasks') <=> Len(bound) = 0
    BY <1>2, <1>8, <1>9
  <2>8. <<"set", r>> \notin Range(microtasks')
    BY <1>9, <2>3
  <2>9. Count(microtasks', {<<"answer", r>>}) <= 1 /\ Count(microtasks', {<<"set", r>>}) <= 1
    BY <2>2, <2>6
  <2> QED
    BY <2>7, <2>8, <2>9
<1>19. Sent'
  <2>1. ASSUME NEW q \in RequestIds
        PROVE  stage'[q] = "unsent" <=> q > Len(requests')
    <3>1. stage[q] = "unsent" <=> q > Len(requests)
      BY DEF QueuesFit, Sent
    <3> QED
      BY <1>1, <1>2, <1>16, <3>1
  <2> QED
    BY <1>1, <2>1 DEF QueuesFit, Sent
<1>20. TasksFit'
  <2>1. ASSUME NEW q \in RequestIds
        PROVE  /\ <<"set", q>> \in Range(microtasks') => debuggerLoaded' /\ stage'[q] = "waiting"
               /\ <<"answer", q>> \in Range(microtasks') => stage'[q] = "binding" /\ unsettled'[q] = 0
               /\ Count(microtasks', {<<"set", q>>}) <= 1
               /\ Count(microtasks', {<<"answer", q>>}) <= 1
    <3>1. CASE q = r
      <4>1. stage'[r] = "binding" /\ unsettled'[r] = Len(bound)
        BY <1>15, <1>16
      <4> QED
        BY <1>18, <3>1, <4>1
    <3>2. CASE q # r
      <4>1. stage'[q] = stage[q] /\ unsettled'[q] = unsettled[q]
        BY <1>15, <1>16, <3>2
      <4>2. /\ <<"set", q>> \in Range(microtasks) => debuggerLoaded /\ stage[q] = "waiting"
            /\ <<"answer", q>> \in Range(microtasks) => stage[q] = "binding" /\ unsettled[q] = 0
            /\ Count(microtasks, {<<"set", q>>}) <= 1
            /\ Count(microtasks, {<<"answer", q>>}) <= 1
        BY DEF QueuesFit, TasksFit
      <4>3. /\ <<"set", q>> \in Range(microtasks') <=> <<"set", q>> \in Range(microtasks)
            /\ <<"answer", q>> \in Range(microtasks') <=> <<"answer", q>> \in Range(microtasks)
            /\ Count(microtasks', {<<"set", q>>}) = Count(microtasks, {<<"set", q>>})
            /\ Count(microtasks', {<<"answer", q>>}) = Count(microtasks, {<<"answer", q>>})
        BY <1>17, <3>2
      <4> QED
        BY <1>1, <4>1, <4>2, <4>3
    <3> QED
      BY <3>1, <3>2
  <2>2. ASSUME NEW q \in RequestIds, NEW i \in Nat, NEW verified \in BOOLEAN,
               <<"bound", q, i, verified>> \in Range(microtasks')
        PROVE  stage'[q] = "binding" /\ i \in Ids' /\ breakpoints'[i].file = requests'[q].file
    <3>1. <<"bound", q, i, verified>> \in Range(microtasks)
      BY <1>8, <1>9, <2>2, TasksDiffer
    <3>2. stage[q] = "binding" /\ i \in Ids /\ breakpoints[i].file = requests[q].file
      BY <3>1 DEF QueuesFit, TasksFit
    <3>3. breakpoints'[i] = breakpoints[i] /\ i \in Ids'
      BY <1>4, <3>2
    <3> QED
      BY <1>1, <1>16, <3>2, <3>3
  <2> QED
    BY <1>9, <2>1, <2>2 DEF TasksFit
<1>21. CommandsFit'
  <2>1. ASSUME NEW command \in Range(breakpointCommands')
        PROVE  /\ stage'[command.request] = "binding"
               /\ breakpoints'[command.Id].file = requests'[command.request].file
    <3>1. CASE command \in Range(breakpointCommands)
      <4>1. Range(breakpointCommands) \subseteq [Id : Ids, request : RequestIds]
        BY <1>3, RangeOfSeq
      <4>2. command.Id \in Ids /\ command.request \in RequestIds /\ command.request # r
        BY <1>2, <3>1, <4>1
      <4>3. /\ stage[command.request] = "binding"
            /\ breakpoints[command.Id].file = requests[command.request].file
        BY <3>1 DEF QueuesFit, CommandsFit
      <4>4. breakpoints'[command.Id] = breakpoints[command.Id]
        BY <1>4, <4>2
      <4> QED
        BY <1>1, <1>16, <4>2, <4>3, <4>4
    <3>2. CASE command \in Range(new)
      <4>1. command.request = r /\ command.Id \in Range(bound)
        BY <1>10, <3>2
      <4>2. breakpoints'[command.Id].file = f
        BY <1>5, <4>1
      <4> QED
        BY <1>1, <1>16, <4>1, <4>2
    <3> QED
      BY <1>12, <3>1, <3>2
  <2> QED
    BY <2>1 DEF CommandsFit
<1>22. Awaits'
  <2>1. ASSUME NEW q \in RequestIds
        PROVE  /\ stage'[q] = "waiting" => ~debuggerLoaded' \/ <<"set", q>> \in Range(microtasks')
               /\ unsettled'[q] = Count(breakpointCommands', BindCommands(q)) + Count(microtasks', BindTasks(q))
               /\ stage'[q] = "binding" /\ unsettled'[q] = 0 => <<"answer", q>> \in Range(microtasks')
    <3>1. /\ stage[q] = "waiting" => ~debuggerLoaded \/ <<"set", q>> \in Range(microtasks)
          /\ unsettled[q] = Count(breakpointCommands, BindCommands(q)) + Count(microtasks, BindTasks(q))
          /\ stage[q] = "binding" /\ unsettled[q] = 0 => <<"answer", q>> \in Range(microtasks)
      BY DEF QueuesFit, Awaits
    <3>2. /\ Count(microtasks', BindTasks(q)) = Count(microtasks, BindTasks(q))
          /\ Count(breakpointCommands', BindCommands(q)) =
                Count(breakpointCommands, BindCommands(q)) + (IF q = r THEN Len(bound) ELSE 0)
          /\ Count(breakpointCommands, BindCommands(q)) \in Nat
          /\ Count(microtasks, BindTasks(q)) \in Nat
      BY <1>9, <1>13, <1>14
    <3>3. CASE q = r
      <4>1. stage'[q] = "binding" /\ unsettled'[q] = Len(bound)
        BY <1>15, <1>16, <3>3
      <4>2. unsettled'[q] = Count(breakpointCommands', BindCommands(q)) + Count(microtasks', BindTasks(q))
        BY <1>2, <1>7, <3>2, <3>3, <4>1
      <4> QED
        BY <1>18, <3>3, <4>1, <4>2
    <3>4. CASE q # r
      <4>1. stage'[q] = stage[q] /\ unsettled'[q] = unsettled[q]
        BY <1>15, <1>16, <3>4
      <4>2. /\ <<"set", q>> \in Range(microtasks') <=> <<"set", q>> \in Range(microtasks)
            /\ <<"answer", q>> \in Range(microtasks') <=> <<"answer", q>> \in Range(microtasks)
        BY <1>17, <3>4
      <4>3. unsettled'[q] = Count(breakpointCommands', BindCommands(q)) + Count(microtasks', BindTasks(q))
        BY <3>1, <3>2, <3>4, <4>1
      <4> QED
        BY <1>1, <3>1, <4>1, <4>2, <4>3
    <3> QED
      BY <3>3, <3>4
  <2> QED
    BY <2>1 DEF Awaits
<1>23. RegistriesAgree'
  <2>1. \A g \in Files : registeredBreakpointsByFileName[g] \in Seq(Ids)
    BY DEF SessionTypeOK
  <2>2. \A g \in Files : Range(registeredBreakpointsByFileName[g]) \subseteq Ids
    BY <2>1, RangeOfSeq
  <2>3. \A g \in Files : \A i \in Range(registeredBreakpointsByFileName[g]) : breakpoints[i].file = g
    BY DEF QueuesFit, RegistriesAgree
  <2>4. \A g \in Files : \A i \in Range(registeredBreakpointsByFileName[g]) : breakpoints'[i].file = g
    BY <1>4, <2>2, <2>3
  <2> QED
    BY <1>1, <2>4 DEF QueuesFit, RegistriesAgree
<1>24. BuiltAreKnown'
  <2>1. ASSUME NEW j \in Ids'
        PROVE  \/ j \in registeredBreakpoints'
               \/ \E command \in Range(breakpointCommands') : command.Id = j
               \/ \E q \in RequestIds, v \in BOOLEAN : <<"bound", q, j, v>> \in Range(microtasks')
    <3>1. CASE j \in Ids
      <4>1. CASE j \in registeredBreakpoints \/ \E command \in Range(breakpointCommands) : command.Id = j
        BY <1>1, <1>12, <4>1
      <4>2. ASSUME NEW q \in RequestIds, NEW v \in BOOLEAN, <<"bound", q, j, v>> \in Range(microtasks)
            PROVE  <<"bound", q, j, v>> \in Range(microtasks')
        BY <1>1, <1>9, <4>2, TasksDiffer
      <4> QED
        BY <3>1, <4>1, <4>2 DEF QueuesFit, BuiltAreKnown
    <3>2. CASE j \notin Ids
      BY <1>5, <1>10, <1>12, <3>2
    <3> QED
      BY <3>1, <3>2
  <2> QED
    BY <2>1 DEF BuiltAreKnown
<1> QED
  BY <1>19, <1>20, <1>21, <1>22, <1>23, <1>24 DEF QueuesFit

-----------------------------------------------------------------------------
(* The steps of the session, sorted.                                       *)

\* The steps that are not those of the loop.
OtherStep ==
    \/ LaunchRequest \/ LaunchFails \/ DisconnectRequest \/ ContinueRequest
    \/ SocketCloses \/ LastTimerFires \/ DataEvent
    \/ ProgramConnects \/ ProgramObeys \/ ProgramRuns \/ ProgramExits

\* Every step is one of these.
LEMMA StepCases ==
    ASSUME SessionTypeOK, QueuesFit, SessionNext
    PROVE  \/ OtherStep
           \/ \E f \in Files, lines \in SUBSET Lines : SetBreakPointsRequest(f, lines)
           \/ ConfigurationDoneRequest
           \/ \E r \in RequestIds : SetStep(r)
           \/ \E r \in RequestIds, i \in Nat, verified \in BOOLEAN : BoundStep(r, i, verified)
           \/ \E r \in RequestIds : AnswerStep(r)
           \/ ResumeStep
           \/ LoadStep \/ OutputStep \/ LastStep
           \/ \E i \in Nat : ConfirmStep(i)
           \/ \E i \in Nat : HitStep(i)
<1>1. microtasks \in Seq(Tasks)
  BY DEF QueuesFit, TasksFit
<1>2. /\ toAdapter \in Seq(Messages \X (Ids \union {0})) /\ Ids \subseteq Nat
      /\ batch \in 0 .. Len(toAdapter)
  BY IdsType DEF SessionTypeOK
<1>3. CASE Microtask
  <2>1. \/ \E r \in RequestIds : SetStep(r)
        \/ \E r \in RequestIds, i \in Nat, verified \in BOOLEAN : BoundStep(r, i, verified)
        \/ \E r \in RequestIds : AnswerStep(r)
        \/ ResumeStep
    BY <1>1, <1>3, TaskCases
  <2> QED
    BY Zenon, <2>1
<1>4. CASE HandleMessage
  <2>1. \/ LoadStep \/ OutputStep \/ LastStep
        \/ \E i \in Nat : ConfirmStep(i)
        \/ \E i \in Nat : HitStep(i)
    BY <1>2, <1>4, MessageCases
  <2> QED
    BY Zenon, <2>1
<1> QED
  BY Zenon, <1>3, <1>4 DEF SessionNext, OtherStep

\* The other steps, the hits and the last message leave the queues alone.
LEMMA QueuesRest ==
    ASSUME OtherStep \/ (\E i \in Nat : HitStep(i)) \/ LastStep \/ UNCHANGED sessionVars
    PROVE  UNCHANGED queueVars
<1> USE DEF queueVars, sessionVars, editorVars, launchVars, resumeVars, endVars, registryVars,
            bindVars, programVars, adapterVars
<1>1. ASSUME LaunchRequest \/ LaunchFails \/ ContinueRequest \/ LastTimerFires
      PROVE  UNCHANGED queueVars
  BY <1>1 DEF LaunchRequest, LaunchFails, ContinueRequest, LastTimerFires
<1>2. ASSUME DisconnectRequest \/ SocketCloses
      PROVE  UNCHANGED queueVars
  BY <1>2 DEF DisconnectRequest, SocketCloses, StopDebugServer
<1>3. ASSUME DataEvent \/ ProgramConnects \/ ProgramObeys \/ ProgramRuns \/ ProgramExits
      PROVE  UNCHANGED queueVars
  BY <1>3 DEF DataEvent, ProgramConnects, ProgramObeys, ProgramRuns, ProgramExits
<1>4. ASSUME NEW i \in Nat, HitStep(i)
      PROVE  UNCHANGED queueVars
  BY <1>4 DEF HitStep, MessageIs, HandleBreakPointHit
<1>5. ASSUME LastStep
      PROVE  UNCHANGED queueVars
  BY <1>5 DEF LastStep, MessageIs, HandleLast
<1>6. ASSUME UNCHANGED sessionVars
      PROVE  UNCHANGED queueVars
  BY <1>6
<1> QED
  BY <1>1, <1>2, <1>3, <1>4, <1>5, <1>6 DEF OtherStep

\* Every step keeps the queues.
LEMMA QueuesStep ==
    ASSUME SessionTypeOK, QueuesFit, LoadComesFirst, [SessionNext]_sessionVars
    PROVE  QueuesFit'
<1>1. ASSUME OtherStep \/ (\E i \in Nat : HitStep(i)) \/ LastStep \/ UNCHANGED sessionVars
      PROVE  QueuesFit'
  BY <1>1, QueuesRest, QueuesFrame
<1>2. ASSUME NEW f \in Files, NEW lines \in SUBSET Lines, SetBreakPointsRequest(f, lines)
      PROVE  QueuesFit'
  BY <1>2, SendQueues
<1>3. ASSUME ConfigurationDoneRequest
      PROVE  QueuesFit'
  BY <1>3, ConfigureQueues
<1>4. ASSUME NEW r \in RequestIds, SetStep(r)
      PROVE  QueuesFit'
  <2>1. CASE terminateEventSent
    BY <1>4, <2>1, DropQueues
  <2>2. CASE ~terminateEventSent
    BY <1>4, <2>2, SetBinds, BindQueues
  <2> QED
    BY <2>1, <2>2
<1>5. ASSUME NEW r \in RequestIds, NEW i \in Nat, NEW verified \in BOOLEAN, BoundStep(r, i, verified)
      PROVE  QueuesFit'
  BY <1>5, BoundQueues
<1>6. ASSUME NEW r \in RequestIds, AnswerStep(r)
      PROVE  QueuesFit'
  BY <1>6, AnswerQueues
<1>7. ASSUME ResumeStep
      PROVE  QueuesFit'
  BY <1>7, ResumeQueues
<1>8. ASSUME LoadStep
      PROVE  QueuesFit'
  <2>1. /\ HandleProcessLoad
        /\ UNCHANGED <<requests, stage, unsettled, registryVars>>
    BY <1>8 DEF LoadStep, MessageIs, editorVars
  <2> DEFINE more == IF ~stopOnEntry /\ Resumes(configurationDone) THEN <<<<"resume", 0>>>> ELSE <<>>
  <2>2. /\ debuggerLoaded' = TRUE /\ UNCHANGED breakpointCommands
        /\ microtasks' = (microtasks \o LoadReactions) \o more
    BY <2>1 DEF HandleProcessLoad
  <2>3. more = <<>> \/ more = <<<<"resume", 0>>>>
    OBVIOUS
  <2> HIDE DEF more
  <2> QED
    BY <2>1, <2>2, <2>3, LoadQueues
<1>9. ASSUME OutputStep
      PROVE  QueuesFit'
  <2>1. /\ HandleDebuggerOutput
        /\ UNCHANGED <<requests, stage, unsettled, registryVars>>
    BY <1>9 DEF OutputStep, MessageIs, editorVars
  <2>2. CASE entryResponse
    <3>1. /\ debuggerLoaded' = TRUE /\ UNCHANGED breakpointCommands
          /\ microtasks' = microtasks \o LoadReactions
      BY <2>1, <2>2 DEF HandleDebuggerOutput
    <3>2. microtasks \in Seq(Tasks) /\ LoadReactions \in Seq(Tasks)
      BY LoadReactionsType DEF QueuesFit, TasksFit
    <3>3. microtasks \o LoadReactions \in Seq(Tasks)
      BY <3>2, ConcatProperties
    <3>4. microtasks' = (microtasks \o LoadReactions) \o <<>>
      BY <3>1, <3>3, ConcatEmptySeq
    <3> QED
      BY <2>1, <3>1, <3>4, LoadQueues
  <2>3. CASE ~entryResponse
    <3>1. UNCHANGED queueVars
      BY <2>1, <2>3 DEF HandleDebuggerOutput, queueVars, registryVars
    <3> QED
      BY <3>1, QueuesFrame
  <2> QED
    BY <2>2, <2>3
<1>10. ASSUME NEW i \in Nat, ConfirmStep(i)
       PROVE  QueuesFit'
  <2>1. PICK verified \in BOOLEAN : HandleBreakPointSet(i, verified)
    BY <1>10 DEF ConfirmStep
  <2>2. UNCHANGED <<requests, stage, unsettled, registryVars>>
    BY <1>10 DEF ConfirmStep, MessageIs, editorVars
  <2> QED
    BY <2>1, <2>2, ConfirmQueues
<1> QED
  BY <1>1, <1>2, <1>3, <1>4, <1>5, <1>6, <1>7, <1>8, <1>9, <1>10, StepCases

\* Only the reaction to the load builds breakpoints or enables them.
LEMMA RegistryRest ==
    ASSUME SessionTypeOK, QueuesFit, [SessionNext]_sessionVars
    PROVE  \/ UNCHANGED <<breakpoints, enabled>>
           \/ \E r \in RequestIds : /\ SetStep(r) /\ ~terminateEventSent
                                    /\ Binds(r, requests[r].file, requests[r].lines)
<1> USE DEF sessionVars, registryVars, queueVars
<1>1. ASSUME OtherStep \/ (\E i \in Nat : HitStep(i)) \/ LastStep \/ UNCHANGED sessionVars
      PROVE  UNCHANGED <<breakpoints, enabled>>
  <2> USE DEF adapterVars
  <2>1. ASSUME LaunchRequest \/ LaunchFails \/ ContinueRequest \/ LastTimerFires \/ DataEvent
        PROVE  UNCHANGED <<breakpoints, enabled>>
    BY <2>1 DEF LaunchRequest, LaunchFails, ContinueRequest, LastTimerFires, DataEvent
  <2>2. ASSUME DisconnectRequest \/ SocketCloses
        PROVE  UNCHANGED <<breakpoints, enabled>>
    BY <2>2 DEF DisconnectRequest, SocketCloses, StopDebugServer
  <2>3. ASSUME ProgramConnects \/ ProgramObeys \/ ProgramRuns \/ ProgramExits
        PROVE  UNCHANGED <<breakpoints, enabled>>
    BY <2>3 DEF ProgramConnects, ProgramObeys, ProgramRuns, ProgramExits
  <2>4. ASSUME (\E i \in Nat : HitStep(i)) \/ LastStep
        PROVE  UNCHANGED <<breakpoints, enabled>>
    BY <2>4 DEF HitStep, LastStep, MessageIs
  <2>5. ASSUME UNCHANGED sessionVars
        PROVE  UNCHANGED <<breakpoints, enabled>>
    BY <2>5
  <2> QED
    BY <1>1, <2>1, <2>2, <2>3, <2>4, <2>5 DEF OtherStep
<1>2. ASSUME NEW f \in Files, NEW lines \in SUBSET Lines, SetBreakPointsRequest(f, lines)
      PROVE  UNCHANGED <<breakpoints, enabled>>
  BY <1>2 DEF SetBreakPointsRequest
<1>3. ASSUME ConfigurationDoneRequest
      PROVE  UNCHANGED <<breakpoints, enabled>>
  BY <1>3 DEF ConfigurationDoneRequest
<1>4. ASSUME NEW r \in RequestIds, SetStep(r)
      PROVE  \/ UNCHANGED <<breakpoints, enabled>>
             \/ ~terminateEventSent /\ Binds(r, requests[r].file, requests[r].lines)
  <2>1. CASE terminateEventSent
    BY <1>4, <2>1 DEF SetStep, SetBreakPoints
  <2>2. CASE ~terminateEventSent
    BY <1>4, <2>2, SetBinds
  <2> QED
    BY <2>1, <2>2
<1>5. ASSUME NEW r \in RequestIds, NEW i \in Nat, NEW verified \in BOOLEAN, BoundStep(r, i, verified)
      PROVE  UNCHANGED <<breakpoints, enabled>>
  BY <1>5 DEF BoundStep, BreakpointBound
<1>6. ASSUME NEW r \in RequestIds, AnswerStep(r)
      PROVE  UNCHANGED <<breakpoints, enabled>>
  BY <1>6 DEF AnswerStep, AnswerBreakpoints
<1>7. ASSUME ResumeStep
      PROVE  UNCHANGED <<breakpoints, enabled>>
  BY <1>7 DEF ResumeStep, ResumeAtEntry
<1>8. ASSUME LoadStep \/ OutputStep \/ \E i \in Nat : ConfirmStep(i)
      PROVE  UNCHANGED <<breakpoints, enabled>>
  BY <1>8 DEF LoadStep, OutputStep, ConfirmStep, MessageIs
<1> QED
  BY <1>1, <1>2, <1>3, <1>4, <1>5, <1>6, <1>7, <1>8, StepCases

\* What is built stays as it is.
LEMMA BuiltStep ==
    ASSUME SessionTypeOK, QueuesFit, [SessionNext]_sessionVars
    PROVE  /\ breakpoints' \in Seq([file : Files, line : Lines])
           /\ Ids' \subseteq Nat /\ 0 \notin Ids' /\ Ids \subseteq Ids'
           /\ \A i \in Ids : breakpoints'[i] = breakpoints[i]
<1>1. CASE UNCHANGED <<breakpoints, enabled>>
  <2>1. breakpoints \in Seq([file : Files, line : Lines])
    BY DEF SessionTypeOK
  <2>2. Ids' = Ids /\ Ids = 1 .. Len(breakpoints) /\ Len(breakpoints) \in Nat
    BY <1>1, IdsType DEF Ids
  <2> QED
    BY <1>1, <2>1, <2>2
<1>2. ASSUME NEW r \in RequestIds, Binds(r, requests[r].file, requests[r].lines)
      PROVE  /\ breakpoints' \in Seq([file : Files, line : Lines])
             /\ Ids' \subseteq Nat /\ 0 \notin Ids' /\ Ids \subseteq Ids'
             /\ \A i \in Ids : breakpoints'[i] = breakpoints[i]
  <2> DEFINE f == requests[r].file
             lines == requests[r].lines
  <2>1. /\ microtasks # <<>> /\ Head(microtasks) = <<"set", r>>
        /\ breakpoints' = Built(f, lines)
    BY <1>2 DEF Binds
  <2>2. f \in Files /\ lines \in SUBSET Lines
    BY <2>1, SetFacts
  <2>3. /\ breakpoints' \in Seq([file : Files, line : Lines])
        /\ Ids \subseteq Ids'
        /\ \A i \in Ids : breakpoints'[i] = breakpoints[i]
    <3>1. /\ Built(f, lines) \in Seq([file : Files, line : Lines])
          /\ Ids \subseteq DOMAIN Built(f, lines)
          /\ \A i \in Ids : Built(f, lines)[i] = breakpoints[i]
      <4> HIDE DEF f, lines
      <4>1. BuiltFits(f, lines)
        BY <2>2, BuiltProperties
      <4> QED
        BY <4>1 DEF BuiltFits
    <3>2. Ids' = DOMAIN Built(f, lines)
      BY <2>1 DEF Ids
    <3> QED
      BY <2>1, <3>1, <3>2
  <2>4. DOMAIN (breakpoints') = 1 .. Len(breakpoints') /\ Len(breakpoints') \in Nat
    BY <2>3, LenProperties
  <2> QED
    BY <2>3, <2>4 DEF Ids
<1> QED
  BY <1>1, <1>2, RegistryRest

-----------------------------------------------------------------------------
(* The wire.                                                               *)

CommandsOn(ids) == ({"bind", "disable"} \X ids) \union ({"resume"} \X (ids \union {0}))
MessagesOn(ids) ==
    ({"BRKS", "BRKF", "BRKH"} \X ids) \union ({"LOAD", "OUTP", "LAST", "CLOSE"} \X (ids \union {0}))

\* A sequence is one of any set that has its elements.
LEMMA SeqWithRange ==
    ASSUME NEW S, NEW s \in Seq(S), NEW T, \A x \in Range(s) : x \in T
    PROVE  s \in Seq(T)
<1>1. DOMAIN s = 1 .. Len(s) /\ Len(s) \in Nat
  BY LenProperties
<1>2. \A k \in 1 .. Len(s) : s[k] \in T
  BY <1>1 DEF Range
<1>3. s = [k \in 1 .. Len(s) |-> s[k]]
  BY <1>1
<1>4. s \in [1 .. Len(s) -> T]
  BY <1>2, <1>3
<1> QED
  BY <1>1, <1>4, NumberedSeq

\* What is on the wire fits when its elements do.
LEMMA WireTypes ==
    ASSUME NEW ids, NEW commands, NEW messages
    PROVE  /\ /\ commands \in Seq({"bind", "disable", "resume"} \X (ids \union {0}))
              /\ \A command \in Range(commands) : command[1] \in {"bind", "disable"} => command[2] \in ids
              <=> commands \in Seq(CommandsOn(ids))
           /\ /\ messages \in Seq(Messages \X (ids \union {0}))
              /\ \A message \in Range(messages) :
                    message[1] \in {"BRKS", "BRKF", "BRKH"} => message[2] \in ids
              <=> messages \in Seq(MessagesOn(ids))
<1> DEFINE C == {"bind", "disable", "resume"} \X (ids \union {0})
           M == Messages \X (ids \union {0})
<1>1. ASSUME commands \in Seq(C),
             \A command \in Range(commands) : command[1] \in {"bind", "disable"} => command[2] \in ids
      PROVE  commands \in Seq(CommandsOn(ids))
  <2>1. \A command \in Range(commands) : command \in C
    BY <1>1, RangeOfSeq
  <2>2. \A command \in Range(commands) : command \in CommandsOn(ids)
    BY <1>1, <2>1 DEF CommandsOn
  <2> QED
    BY <1>1, <2>2, SeqWithRange
<1>2. ASSUME commands \in Seq(CommandsOn(ids))
      PROVE  /\ commands \in Seq(C)
             /\ \A command \in Range(commands) : command[1] \in {"bind", "disable"} => command[2] \in ids
  <2>1. \A command \in Range(commands) : command \in CommandsOn(ids)
    BY <1>2, RangeOfSeq
  <2>2. \A command \in Range(commands) :
           command \in C /\ (command[1] \in {"bind", "disable"} => command[2] \in ids)
    BY <2>1 DEF CommandsOn
  <2> QED
    BY <1>2, <2>2, SeqWithRange
<1>3. ASSUME messages \in Seq(M),
             \A message \in Range(messages) :
                    message[1] \in {"BRKS", "BRKF", "BRKH"} => message[2] \in ids
      PROVE  messages \in Seq(MessagesOn(ids))
  <2>1. \A message \in Range(messages) : message \in M
    BY <1>3, RangeOfSeq
  <2>2. \A message \in Range(messages) : message \in MessagesOn(ids)
    BY <1>3, <2>1 DEF MessagesOn, Messages
  <2> QED
    BY <1>3, <2>2, SeqWithRange
<1>4. ASSUME messages \in Seq(MessagesOn(ids))
      PROVE  /\ messages \in Seq(M)
             /\ \A message \in Range(messages) :
                    message[1] \in {"BRKS", "BRKF", "BRKH"} => message[2] \in ids
  <2>1. \A message \in Range(messages) : message \in MessagesOn(ids)
    BY <1>4, RangeOfSeq
  <2>2. \A message \in Range(messages) :
           message \in M /\ (message[1] \in {"BRKS", "BRKF", "BRKH"} => message[2] \in ids)
    BY <2>1 DEF MessagesOn, Messages
  <2> QED
    BY <1>4, <2>2, SeqWithRange
<1> HIDE DEF C, M
<1>5. /\ commands \in Seq(C)
      /\ \A command \in Range(commands) : command[1] \in {"bind", "disable"} => command[2] \in ids
      <=> commands \in Seq(CommandsOn(ids))
  BY Zenon, <1>1, <1>2
<1>6. /\ messages \in Seq(M)
      /\ \A message \in Range(messages) :
            message[1] \in {"BRKS", "BRKF", "BRKH"} => message[2] \in ids
      <=> messages \in Seq(MessagesOn(ids))
  BY Zenon, <1>3, <1>4
<1> QED
  BY Zenon, <1>5, <1>6 DEF C, M

\* What may happen to the commands on their way to the program.
LEMMA CommandCases ==
    ASSUME SessionTypeOK, QueuesFit, [SessionNext]_sessionVars
    PROVE  \/ UNCHANGED <<toProgram, active>>
           \/ toProgram' = Append(toProgram, <<"resume", 0>>) /\ UNCHANGED active
           \/ toProgram' = <<>> /\ UNCHANGED active /\ (terminateEventSent' \/ program' = "ended")
           \/ ProgramObeys
           \/ \E r \in RequestIds : /\ SetStep(r) /\ ~terminateEventSent
                                    /\ Binds(r, requests[r].file, requests[r].lines)
<1> DEFINE Case == \/ UNCHANGED <<toProgram, active>>
                   \/ toProgram' = Append(toProgram, <<"resume", 0>>) /\ UNCHANGED active
                   \/ toProgram' = <<>> /\ UNCHANGED active /\ (terminateEventSent' \/ program' = "ended")
<1> USE DEF sessionVars, programVars, adapterVars
<1>1. ASSUME OtherStep \/ UNCHANGED sessionVars
      PROVE  Case \/ ProgramObeys
  <2>1. ASSUME LaunchRequest \/ LaunchFails \/ ContinueRequest \/ LastTimerFires \/ DataEvent
        PROVE  Case
    BY <2>1 DEF LaunchRequest, LaunchFails, ContinueRequest, LastTimerFires, DataEvent
  <2>2. ASSUME DisconnectRequest \/ SocketCloses
        PROVE  Case
    BY <2>2 DEF DisconnectRequest, SocketCloses, StopDebugServer
  <2>3. ASSUME ProgramConnects \/ ProgramRuns \/ ProgramExits
        PROVE  Case
    BY <2>3 DEF ProgramConnects, ProgramRuns, ProgramExits
  <2>4. ASSUME UNCHANGED sessionVars
        PROVE  Case
    BY <2>4
  <2> QED
    BY <1>1, <2>1, <2>2, <2>3, <2>4 DEF OtherStep
<1>2. ASSUME NEW f \in Files, NEW lines \in SUBSET Lines, SetBreakPointsRequest(f, lines)
      PROVE  Case
  BY <1>2 DEF SetBreakPointsRequest
<1>3. ASSUME ConfigurationDoneRequest
      PROVE  Case
  BY <1>3 DEF ConfigurationDoneRequest
<1>4. ASSUME NEW r \in RequestIds, SetStep(r)
      PROVE  \/ Case
             \/ ~terminateEventSent /\ Binds(r, requests[r].file, requests[r].lines)
  <2>1. CASE terminateEventSent
    BY <1>4, <2>1 DEF SetStep, SetBreakPoints, TaskFrame
  <2>2. CASE ~terminateEventSent
    BY <1>4, <2>2, SetBinds
  <2> QED
    BY <2>1, <2>2
<1>5. ASSUME NEW r \in RequestIds, NEW i \in Nat, NEW verified \in BOOLEAN, BoundStep(r, i, verified)
      PROVE  Case
  BY <1>5 DEF BoundStep, BreakpointBound, TaskFrame
<1>6. ASSUME NEW r \in RequestIds, AnswerStep(r)
      PROVE  Case
  BY <1>6 DEF AnswerStep, AnswerBreakpoints, TaskFrame
<1>7. ASSUME ResumeStep
      PROVE  Case
  BY <1>7 DEF ResumeStep, ResumeAtEntry, TaskFrame
<1>8. ASSUME LoadStep \/ OutputStep \/ LastStep
      PROVE  Case
  BY <1>8
     DEF LoadStep, OutputStep, LastStep, MessageIs, HandleProcessLoad, HandleDebuggerOutput,
         HandleLast
<1>9. ASSUME NEW i \in Nat, ConfirmStep(i) \/ HitStep(i)
      PROVE  Case
  BY <1>9 DEF ConfirmStep, HitStep, MessageIs, HandleBreakPointSet, HandleBreakPointHit
<1> HIDE DEF Case
<1>10. \/ Case \/ ProgramObeys
       \/ \E r \in RequestIds : /\ SetStep(r) /\ ~terminateEventSent
                                /\ Binds(r, requests[r].file, requests[r].lines)
  BY <1>1, <1>2, <1>3, <1>4, <1>5, <1>6, <1>7, <1>8, <1>9, StepCases
<1> QED
  BY Zenon, <1>10 DEF Case

\* And to the messages on their way to the adapter.
LEMMA WireCases ==
    ASSUME SessionTypeOK, QueuesFit, [SessionNext]_sessionVars
    PROVE  \/ UNCHANGED toAdapter
           \/ toAdapter' = Append(toAdapter, <<"CLOSE", 0>>)
           \/ toAdapter # <<>> /\ toAdapter' = Tail(toAdapter)
           \/ ProgramConnects \/ ProgramObeys \/ ProgramRuns
<1> DEFINE Case == \/ UNCHANGED toAdapter
                   \/ toAdapter' = Append(toAdapter, <<"CLOSE", 0>>)
                   \/ toAdapter # <<>> /\ toAdapter' = Tail(toAdapter)
<1> USE DEF sessionVars
<1>1. ASSUME OtherStep \/ UNCHANGED sessionVars
      PROVE  Case \/ ProgramConnects \/ ProgramObeys \/ ProgramRuns
  <2>1. ASSUME LaunchRequest \/ LaunchFails \/ ContinueRequest \/ LastTimerFires \/ DataEvent
        PROVE  Case
    BY <2>1 DEF LaunchRequest, LaunchFails, ContinueRequest, LastTimerFires, DataEvent
  <2>2. ASSUME DisconnectRequest
        PROVE  Case
    BY <2>2 DEF DisconnectRequest, KillProgram
  <2>3. ASSUME SocketCloses
        PROVE  Case
    BY <2>3 DEF SocketCloses
  <2>4. ASSUME ProgramExits
        PROVE  Case
    BY <2>4 DEF ProgramExits
  <2>5. ASSUME UNCHANGED sessionVars
        PROVE  Case
    BY <2>5
  <2> QED
    BY <1>1, <2>1, <2>2, <2>3, <2>4, <2>5 DEF OtherStep
<1>2. ASSUME NEW f \in Files, NEW lines \in SUBSET Lines, SetBreakPointsRequest(f, lines)
      PROVE  Case
  BY <1>2 DEF SetBreakPointsRequest
<1>3. ASSUME ConfigurationDoneRequest
      PROVE  Case
  BY <1>3 DEF ConfigurationDoneRequest
<1>4. ASSUME NEW r \in RequestIds, SetStep(r) \/ AnswerStep(r)
      PROVE  Case
  BY <1>4 DEF SetStep, AnswerStep, TaskFrame
<1>5. ASSUME NEW r \in RequestIds, NEW i \in Nat, NEW verified \in BOOLEAN, BoundStep(r, i, verified)
      PROVE  Case
  BY <1>5 DEF BoundStep, TaskFrame
<1>6. ASSUME ResumeStep
      PROVE  Case
  BY <1>6 DEF ResumeStep, TaskFrame
<1>7. ASSUME LoadStep \/ OutputStep \/ LastStep
      PROVE  Case
  BY <1>7 DEF LoadStep, OutputStep, LastStep, MessageIs
<1>8. ASSUME NEW i \in Nat, ConfirmStep(i) \/ HitStep(i)
      PROVE  Case
  BY <1>8 DEF ConfirmStep, HitStep, MessageIs
<1> HIDE DEF Case
<1>9. Case \/ ProgramConnects \/ ProgramObeys \/ ProgramRuns
  BY <1>1, <1>2, <1>3, <1>4, <1>5, <1>6, <1>7, <1>8, StepCases
<1> QED
  BY Zenon, <1>9 DEF Case

\* What is on the wire stays about breakpoints that were built, and so does what the
\* program stops at.
LEMMA WireStep ==
    ASSUME SessionTypeOK, QueuesFit, WireFits, [SessionNext]_sessionVars
    PROVE  /\ toProgram' \in Seq(CommandsOn(Ids')) /\ toAdapter' \in Seq(MessagesOn(Ids'))
           /\ active' \subseteq Ids'
<1> DEFINE C == CommandsOn(Ids')
           M == MessagesOn(Ids')
<1>1. toProgram \in Seq(CommandsOn(Ids)) /\ toAdapter \in Seq(MessagesOn(Ids)) /\ active \subseteq Ids
  BY WireTypes DEF SessionTypeOK, WireFits
<1>2. Ids \subseteq Ids'
  BY BuiltStep
<1>3. CommandsOn(Ids) \subseteq C /\ MessagesOn(Ids) \subseteq M
  BY <1>2 DEF CommandsOn, MessagesOn
<1>4. toProgram \in Seq(C) /\ toAdapter \in Seq(M) /\ active \subseteq Ids'
  BY <1>1, <1>2, <1>3, SeqMonotonic
<1>5. <<"resume", 0>> \in C /\ <<>> \in Seq(C)
  BY DEF CommandsOn
<1>6. \A i \in Ids' : <<"bind", i>> \in C /\ <<"disable", i>> \in C
  BY DEF CommandsOn
<1>7. /\ <<"CLOSE", 0>> \in M /\ <<"LAST", 0>> \in M /\ <<"OUTP", 0>> \in M /\ <<"LOAD", 0>> \in M
      /\ \A i \in Ids' : <<"BRKS", i>> \in M /\ <<"BRKF", i>> \in M /\ <<"BRKH", i>> \in M
  BY DEF MessagesOn
<1>8. ASSUME ProgramObeys
      PROVE  /\ toProgram # <<>> /\ toProgram' = Tail(toProgram) /\ active' \subseteq Ids'
             /\ \/ UNCHANGED toAdapter
                \/ \E answer \in {"BRKS", "BRKF"}, i \in Ids' : toAdapter' = Append(toAdapter, <<answer, i>>)
  <2>1. toProgram # <<>> /\ toProgram' = Tail(toProgram)
    BY <1>8 DEF ProgramObeys
  <2>2. Head(toProgram) \in CommandsOn(Ids)
    BY <1>1, <2>1, RangeTail
  <2>3. Head(toProgram)[1] = "bind" => Head(toProgram)[2] \in Ids'
    BY <1>2, <2>2 DEF CommandsOn
  <2> QED
    BY <1>4, <1>8, <2>1, <2>3 DEF ProgramObeys
<1> HIDE DEF C, M
<1>9. active' \subseteq Ids'
  BY <1>4, <1>8, CommandCases DEF Binds
<1>10. toProgram' \in Seq(C)
  <2>1. CASE UNCHANGED toProgram \/ toProgram' = <<>>
    BY <1>4, <1>5, <2>1
  <2>2. CASE toProgram' = Append(toProgram, <<"resume", 0>>)
    BY <1>4, <1>5, <2>2, RangeAppend
  <2>3. CASE ProgramObeys
    BY <1>4, <1>8, <2>3, RangeTail
  <2>4. ASSUME NEW r \in RequestIds, Binds(r, requests[r].file, requests[r].lines)
        PROVE  toProgram' \in Seq(C)
    <3> DEFINE bound == BoundBy(requests[r].file, requests[r].lines)
               removed == RemovedBy(requests[r].file, requests[r].lines)
               binds == [k \in DOMAIN bound |-> <<"bind", bound[k]>>]
               disables == [k \in DOMAIN removed |-> <<"disable", removed[k]>>]
    <3>1. toProgram' = (toProgram \o binds) \o disables
      BY <2>4 DEF Binds
    <3>2. /\ microtasks # <<>> /\ Head(microtasks) = <<"set", r>>
          /\ breakpoints' = Built(requests[r].file, requests[r].lines)
      BY <2>4 DEF Binds
    <3>3. requests[r].file \in Files /\ requests[r].lines \in SUBSET Lines /\ RegistriesAgree
      BY <3>2, SetFacts DEF QueuesFit
    <3>4. bound \in Seq(Ids')
      BY <3>2, <3>3, BoundProperties DEF Ids
    <3>5. removed \in Seq(Ids)
      BY <3>3, RemovedProperties
    <3> HIDE DEF bound, removed
    <3>6. removed \in Seq(Ids')
      BY <1>2, <3>5, SeqMonotonic
    <3>7. /\ DOMAIN bound = 1 .. Len(bound) /\ Len(bound) \in Nat
          /\ DOMAIN removed = 1 .. Len(removed) /\ Len(removed) \in Nat
      BY <3>4, <3>6, LenProperties
    <3>8. /\ \A k \in 1 .. Len(bound) : bound[k] \in Ids'
          /\ \A k \in 1 .. Len(removed) : removed[k] \in Ids'
      BY <3>4, <3>6, ElementOfSeq
    <3>9. binds \in [1 .. Len(bound) -> C] /\ disables \in [1 .. Len(removed) -> C]
      BY <1>6, <3>7, <3>8
    <3>10. binds \in Seq(C) /\ disables \in Seq(C)
      BY <3>7, <3>9, NumberedSeq
    <3> HIDE DEF binds, disables
    <3>11. toProgram \o binds \in Seq(C)
      BY <1>4, <3>10, ConcatProperties
    <3> QED
      BY <3>1, <3>10, <3>11, ConcatProperties
  <2> QED
    BY <2>1, <2>2, <2>3, <2>4, CommandCases
<1>11. toAdapter' \in Seq(M)
  <2>1. CASE UNCHANGED toAdapter
    BY <1>4, <2>1
  <2>2. ASSUME NEW message \in M, toAdapter' = Append(toAdapter, message)
        PROVE  toAdapter' \in Seq(M)
    BY <1>4, <2>2, RangeAppend
  <2>3. CASE toAdapter # <<>> /\ toAdapter' = Tail(toAdapter)
    BY <1>4, <2>3, RangeTail
  <2>4. CASE ProgramConnects
    <3>1. \/ UNCHANGED toAdapter
          \/ toAdapter' = Append(toAdapter, <<"LOAD", 0>>)
          \/ toAdapter' = toAdapter \o <<<<"OUTP", 0>>, <<"LAST", 0>>>>
      BY <2>4 DEF ProgramConnects
    <3>2. <<<<"OUTP", 0>>, <<"LAST", 0>>>> \in Seq(M)
      BY <1>7
    <3>3. toAdapter \o <<<<"OUTP", 0>>, <<"LAST", 0>>>> \in Seq(M)
      BY <1>4, <3>2, ConcatProperties
    <3> QED
      BY <1>7, <2>1, <2>2, <3>1, <3>3
  <2>5. CASE ProgramObeys
    BY <1>7, <1>8, <2>1, <2>2, <2>5
  <2>6. CASE ProgramRuns
    <3>1. \/ toAdapter' = Append(toAdapter, <<"OUTP", 0>>)
          \/ toAdapter' = Append(toAdapter, <<"LAST", 0>>)
          \/ \E i \in active : toAdapter' = Append(toAdapter, <<"BRKH", i>>)
      BY <2>6 DEF ProgramRuns
    <3> QED
      BY <1>4, <1>7, <2>2, <3>1
  <2> QED
    BY <1>7, <2>1, <2>2, <2>3, <2>4, <2>5, <2>6, WireCases
<1> QED
  BY <1>9, <1>10, <1>11 DEF C, M

-----------------------------------------------------------------------------
(* The start of the session.                                               *)

\* What comes from the program comes after the launch.
LEMMA Arrived ==
    ASSUME LoadComesFirst, toAdapter # <<>>
    PROVE  launch # "none" /\ program \notin {"none", "starting"} /\ configurationDone # "none"
  BY DEF LoadComesFirst

\* The wait for configurationDone, the launch and what the program does change in few steps.
LEMMA QuietSteps ==
    ASSUME \/ \E f \in Files, lines \in SUBSET Lines : SetBreakPointsRequest(f, lines)
           \/ \E r \in RequestIds : SetStep(r)
           \/ \E r \in RequestIds, i \in Nat, verified \in BOOLEAN : BoundStep(r, i, verified)
           \/ ResumeStep
           \/ \E i \in Nat : ConfirmStep(i)
    PROVE  UNCHANGED <<editor, launchVars, resumeVars, endVars, programVars>>
<1> USE DEF launchVars, resumeVars, endVars, programVars
<1>1. ASSUME NEW f, NEW lines, SetBreakPointsRequest(f, lines)
      PROVE  UNCHANGED <<editor, launchVars, resumeVars, endVars, programVars>>
  BY <1>1 DEF SetBreakPointsRequest
<1>2. ASSUME NEW r, SetStep(r)
      PROVE  UNCHANGED <<editor, launchVars, resumeVars, endVars, programVars>>
  BY <1>2 DEF SetStep, TaskFrame
<1>3. ASSUME NEW r, NEW i, NEW verified, BoundStep(r, i, verified)
      PROVE  UNCHANGED <<editor, launchVars, resumeVars, endVars, programVars>>
  BY <1>3 DEF BoundStep, TaskFrame
<1>4. ASSUME ResumeStep
      PROVE  UNCHANGED <<editor, launchVars, resumeVars, endVars, programVars>>
  BY <1>4 DEF ResumeStep, TaskFrame
<1>5. ASSUME NEW i, ConfirmStep(i)
      PROVE  UNCHANGED <<editor, launchVars, resumeVars, endVars, programVars>>
  BY <1>5 DEF ConfirmStep, MessageIs, HandleBreakPointSet
<1> QED
  BY Zenon, <1>1, <1>2, <1>3, <1>4, <1>5

\* Those that are quiet, and take or leave a message, at most.
LEMMA QuietWire ==
    ASSUME \/ \E f \in Files, lines \in SUBSET Lines : SetBreakPointsRequest(f, lines)
           \/ \E r \in RequestIds : SetStep(r) \/ AnswerStep(r)
           \/ \E r \in RequestIds, i \in Nat, verified \in BOOLEAN : BoundStep(r, i, verified)
           \/ ResumeStep \/ ConfigurationDoneRequest
    PROVE  UNCHANGED <<toAdapter, lastTimer, program, launch, entryResponse, editor>>
<1> USE DEF launchVars, resumeVars, endVars, programVars
<1>1. ASSUME NEW f, NEW lines, SetBreakPointsRequest(f, lines)
      PROVE  UNCHANGED <<toAdapter, lastTimer, program, launch, entryResponse, editor>>
  BY <1>1 DEF SetBreakPointsRequest
<1>2. ASSUME NEW r, SetStep(r) \/ AnswerStep(r)
      PROVE  UNCHANGED <<toAdapter, lastTimer, program, launch, entryResponse, editor>>
  BY <1>2 DEF SetStep, AnswerStep, TaskFrame
<1>3. ASSUME NEW r, NEW i, NEW verified, BoundStep(r, i, verified)
      PROVE  UNCHANGED <<toAdapter, lastTimer, program, launch, entryResponse, editor>>
  BY <1>3 DEF BoundStep, TaskFrame
<1>4. ASSUME ResumeStep
      PROVE  UNCHANGED <<toAdapter, lastTimer, program, launch, entryResponse, editor>>
  BY <1>4 DEF ResumeStep, TaskFrame
<1>5. ASSUME ConfigurationDoneRequest
      PROVE  UNCHANGED <<toAdapter, lastTimer, program, launch, entryResponse, editor>>
  BY <1>5 DEF ConfigurationDoneRequest
<1> QED
  BY Zenon, <1>1, <1>2, <1>3, <1>4, <1>5

\* A step of the loop takes a task or a message, or it is the whole of an event.
LEMMA UnloadedSteps ==
    ASSUME SessionTypeOK, QueuesFit, WireFits, LoadComesFirst, ~debuggerLoaded,
           [SessionNext]_sessionVars
    PROVE  \/ OtherStep
           \/ \E f \in Files, lines \in SUBSET Lines : SetBreakPointsRequest(f, lines)
           \/ ConfigurationDoneRequest
           \/ LoadStep \/ OutputStep \/ LastStep
           \/ UNCHANGED sessionVars
<1>1. microtasks = <<>> /\ breakpoints = <<>>
  BY DEF LoadComesFirst
<1>2. Ids = {}
  BY <1>1 DEF Ids
<1>3. /\ \A r : ~SetStep(r) /\ ~AnswerStep(r)
      /\ \A r, i, verified : ~BoundStep(r, i, verified)
      /\ ~ResumeStep
  BY <1>1 DEF SetStep, AnswerStep, BoundStep, ResumeStep, TaskRuns
<1>4. ASSUME NEW i \in Nat, ConfirmStep(i) \/ HitStep(i)
      PROVE  FALSE
  <2>1. PICK kind \in {"BRKS", "BRKF", "BRKH"} : MessageIs(<<kind, i>>)
    BY <1>4 DEF ConfirmStep, HitStep
  <2>2. toAdapter # <<>> /\ Head(toAdapter) = <<kind, i>>
    BY <2>1 DEF MessageIs
  <2>3. toAdapter \in Seq(Messages \X (Ids \union {0}))
    BY DEF SessionTypeOK
  <2>4. <<kind, i>> \in Range(toAdapter)
    BY <2>2, <2>3, RangeTail
  <2>5. <<kind, i>>[1] = kind /\ <<kind, i>>[2] = i
    OBVIOUS
  <2>6. i \in Ids
    BY <2>4, <2>5 DEF WireFits
  <2> QED
    BY <1>2, <2>6
<1> QED
  BY <1>3, <1>4, StepCases

\* Every step keeps the order of the load and the binds.
LEMMA LoadFirstStep ==
    ASSUME SessionTypeOK, QueuesFit, WireFits, LoadComesFirst, [SessionNext]_sessionVars
    PROVE  LoadComesFirst'
<1> USE DEF sessionVars, adapterVars, launchVars, resumeVars, endVars, programVars, editorVars
<1>1. ASSUME ~debuggerLoaded'
      PROVE  /\ breakpoints' = <<>> /\ microtasks' = <<>> /\ ~resumeWaits'
             /\ \A r \in RequestIds : stage'[r] \in {"unsent", "waiting"}
  <2>1. ~debuggerLoaded
    <3>1. CASE debuggerLoaded
      <4>1. CASE OtherStep \/ (\E i \in Nat : HitStep(i)) \/ LastStep \/ UNCHANGED sessionVars
        BY <1>1, <3>1, <4>1, QueuesRest DEF queueVars
      <4>2. CASE \/ \E f \in Files, lines \in SUBSET Lines : SetBreakPointsRequest(f, lines)
                 \/ \E r \in RequestIds : SetStep(r)
                 \/ \E r \in RequestIds, i \in Nat, verified \in BOOLEAN : BoundStep(r, i, verified)
                 \/ ResumeStep
                 \/ \E i \in Nat : ConfirmStep(i)
        BY <1>1, <3>1, <4>2, QuietSteps
      <4>3. CASE ConfigurationDoneRequest
        BY <1>1, <3>1, <4>3 DEF ConfigurationDoneRequest
      <4>4. ASSUME NEW r \in RequestIds, AnswerStep(r)
            PROVE  FALSE
        BY <1>1, <3>1, <4>4 DEF AnswerStep, TaskFrame
      <4>5. CASE LoadStep \/ OutputStep
        BY <1>1, <3>1, <4>5 DEF LoadStep, OutputStep, HandleProcessLoad, HandleDebuggerOutput
      <4> QED
        BY <4>1, <4>2, <4>3, <4>4, <4>5, StepCases
    <3> QED
      BY <3>1
  <2>2. /\ breakpoints = <<>> /\ microtasks = <<>> /\ ~resumeWaits
        /\ \A r \in RequestIds : stage[r] \in {"unsent", "waiting"}
    BY <2>1 DEF LoadComesFirst
  <2>3. CASE OtherStep \/ LastStep \/ UNCHANGED sessionVars
    <3>1. UNCHANGED queueVars
      BY <2>3, QueuesRest
    <3>2. UNCHANGED resumeWaits
      <4>1. CASE LaunchRequest \/ LaunchFails \/ ContinueRequest \/ LastTimerFires \/ DataEvent
        BY <4>1 DEF LaunchRequest, LaunchFails, ContinueRequest, LastTimerFires, DataEvent
      <4>2. CASE DisconnectRequest \/ SocketCloses
        BY <4>2 DEF DisconnectRequest, SocketCloses, StopDebugServer
      <4>3. CASE ProgramConnects \/ ProgramObeys \/ ProgramRuns \/ ProgramExits
        BY <4>3 DEF ProgramConnects, ProgramObeys, ProgramRuns, ProgramExits
      <4>4. CASE LastStep
        BY <4>4 DEF LastStep, HandleLast
      <4>5. CASE UNCHANGED sessionVars
        BY <4>5
      <4> QED
        BY <2>3, <4>1, <4>2, <4>3, <4>4, <4>5 DEF OtherStep
    <3> QED
      BY <2>2, <3>1, <3>2 DEF queueVars
  <2>4. ASSUME NEW f \in Files, NEW lines \in SUBSET Lines, SetBreakPointsRequest(f, lines)
        PROVE  /\ breakpoints' = <<>> /\ microtasks' = <<>> /\ ~resumeWaits'
               /\ \A r \in RequestIds : stage'[r] \in {"unsent", "waiting"}
    <3>1. /\ UNCHANGED <<breakpoints, resumeWaits>>
          /\ microtasks' = <<>>
          /\ stage' = [stage EXCEPT ![Len(requests) + 1] = "waiting"]
      BY <2>1, <2>4 DEF SetBreakPointsRequest, registryVars
    <3>2. stage \in [RequestIds -> {"unsent", "waiting", "binding", "answered"}]
      BY DEF SessionTypeOK
    <3> QED
      BY <2>2, <3>1, <3>2
  <2>5. CASE ConfigurationDoneRequest
    <3>1. UNCHANGED <<breakpoints, stage>> /\ ResolveConfigurationDone(<<>>)
      BY <2>5 DEF ConfigurationDoneRequest, registryVars, bindVars
    <3>2. <<>> \o <<>> = <<>>
      OBVIOUS
    <3> QED
      BY <2>2, <3>1, <3>2 DEF ResolveConfigurationDone, ResumeReactions
  <2>6. CASE LoadStep
    BY <1>1, <2>6 DEF LoadStep, HandleProcessLoad
  <2>7. CASE OutputStep
    BY <1>1, <2>2, <2>7 DEF OutputStep, HandleDebuggerOutput, MessageIs, registryVars
  <2> QED
    BY <2>1, <2>3, <2>4, <2>5, <2>6, <2>7, UnloadedSteps
<1>2. /\ launch' = "none" => program' = "none"
      /\ program' \in {"none", "starting"} => ~debuggerLoaded' /\ toAdapter' = <<>>
      /\ configurationDone' = "none" <=> launch' = "none"
  <2>1. /\ launch = "none" => program = "none"
        /\ program \in {"none", "starting"} => ~debuggerLoaded /\ toAdapter = <<>>
        /\ configurationDone = "none" <=> launch = "none"
    BY DEF LoadComesFirst
  <2>2. CASE \/ \E f \in Files, lines \in SUBSET Lines : SetBreakPointsRequest(f, lines)
             \/ \E r \in RequestIds : SetStep(r)
             \/ \E r \in RequestIds, i \in Nat, verified \in BOOLEAN : BoundStep(r, i, verified)
             \/ ResumeStep
    BY <2>1, <2>2, QuietSteps, QuietWire
  <2>3. CASE ConfigurationDoneRequest
    BY <2>1, <2>3 DEF ConfigurationDoneRequest, ResolveConfigurationDone
  <2>4. ASSUME NEW r \in RequestIds, AnswerStep(r)
        PROVE  /\ launch' = "none" => program' = "none"
               /\ program' \in {"none", "starting"} => ~debuggerLoaded' /\ toAdapter' = <<>>
               /\ configurationDone' = "none" <=> launch' = "none"
    BY <2>1, <2>4 DEF AnswerStep, AnswerBreakpoints, ResolveConfigurationDone, TaskFrame
  <2>5. CASE \/ LoadStep \/ OutputStep \/ LastStep
             \/ \E i \in Nat : ConfirmStep(i) \/ HitStep(i)
    <3>1. UNCHANGED <<launch, program>> /\ toAdapter # <<>>
      BY <2>5 DEF LoadStep, OutputStep, LastStep, ConfirmStep, HitStep, MessageIs
    <3>2. UNCHANGED configurationDone
      BY <2>5 DEF LoadStep, OutputStep, LastStep, ConfirmStep, HitStep,
                  HandleProcessLoad, HandleDebuggerOutput, HandleLast, HandleBreakPointSet, HandleBreakPointHit
    <3> QED
      BY <2>1, <3>1, <3>2
  <2>6. CASE LaunchRequest
    BY <2>1, <2>6 DEF LaunchRequest
  <2>7. CASE LaunchFails
    BY <2>1, <2>7 DEF LaunchFails
  <2>8. CASE DisconnectRequest
    <3>1. UNCHANGED <<launch, debuggerLoaded, configurationDone>> /\ launch # "none" /\ KillProgram
      BY <2>8 DEF DisconnectRequest, StopDebugServer
    <3> QED
      BY <2>1, <3>1 DEF KillProgram
  <2>9. CASE SocketCloses
    BY <2>1, <2>9 DEF SocketCloses, StopDebugServer
  <2>10. CASE LastTimerFires \/ ContinueRequest \/ UNCHANGED sessionVars
    BY <2>1, <2>10 DEF LastTimerFires, ContinueRequest
  <2>11. CASE DataEvent
    BY <2>1, <2>11 DEF DataEvent
  <2>12. CASE ProgramConnects
    BY <2>1, <2>12 DEF ProgramConnects
  <2>13. CASE ProgramObeys
    BY <2>1, <2>13 DEF ProgramObeys, ProgramConnected
  <2>14. CASE ProgramRuns \/ ProgramExits
    BY <2>1, <2>14 DEF ProgramRuns, ProgramExits
  <2> QED
    BY <2>2, <2>3, <2>4, <2>5, <2>6, <2>7, <2>8, <2>9, <2>10, <2>11, <2>12, <2>13, <2>14, StepCases
       DEF OtherStep
<1> QED
  BY <1>1, <1>2 DEF LoadComesFirst

-----------------------------------------------------------------------------
(* The first and the last messages.                                        *)

\* What a sequence with one more element has of a set.
Lengthens(s, t, e, T) ==
    /\ Count(t, T) = Count(s, T) + (IF e \in T THEN 1 ELSE 0)
    /\ Count(s, T) \in Nat
    /\ OnlyFirst(s, T) /\ (e \notin T \/ s = <<>>) => OnlyFirst(t, T)
    /\ Count(s, T) = 0 => OnlyLast(t, T)

Longer(s, t, e) == Lengthens(s, t, e, Loads) /\ Lengthens(s, t, e, Lasts) /\ Lengthens(s, t, e, Closes)

\* What an element more does to a place that must be the first or the last.
LEMMA PlacesOnAppend ==
    ASSUME NEW S, NEW s \in Seq(S), NEW e \in S
    PROVE  Append(s, e) \in Seq(S) /\ Longer(s, Append(s, e), e)
<1> SUFFICES ASSUME NEW T
             PROVE  /\ Append(s, e) \in Seq(S)
                    /\ Count(Append(s, e), T) = Count(s, T) + (IF e \in T THEN 1 ELSE 0)
                    /\ Count(s, T) \in Nat
                    /\ OnlyFirst(s, T) /\ (e \notin T \/ s = <<>>) => OnlyFirst(Append(s, e), T)
                    /\ Count(s, T) = 0 => OnlyLast(Append(s, e), T)
  BY DEF Longer, Lengthens
<1> DEFINE n == Len(s)
           t == Append(s, e)
<1>1. n \in Nat /\ DOMAIN s = 1 .. n
  BY LenProperties
<1>2. /\ t \in Seq(S) /\ Len(t) = n + 1
      /\ \A k \in 1 .. n : t[k] = s[k]
      /\ t[n + 1] = e
  BY AppendProperties
<1>3. Count(s, T) \in Nat /\ (Count(s, T) > 0 <=> \E k \in DOMAIN s : s[k] \in T)
  BY CountType
<1>4. Count(t, T) = Count(s, T) + (IF e \in T THEN 1 ELSE 0)
  BY CountAppend
<1>5. DOMAIN t = 1 .. n + 1
  BY <1>2, LenProperties
<1>6. s = <<>> => n = 0
  OBVIOUS
<1> HIDE DEF n, t
<1>7. \A k \in 1 .. n + 1 : k \in 1 .. n \/ k = n + 1
  BY <1>1
<1>8. ASSUME OnlyFirst(s, T), e \notin T \/ s = <<>>
      PROVE  OnlyFirst(t, T)
  BY <1>1, <1>2, <1>5, <1>6, <1>7, <1>8 DEF OnlyFirst
<1>9. ASSUME Count(s, T) = 0
      PROVE  OnlyLast(t, T)
  BY <1>1, <1>2, <1>3, <1>5, <1>7, <1>9 DEF OnlyLast
<1> QED
  BY <1>2, <1>3, <1>4, <1>8, <1>9 DEF t

\* What the tail leaves of such a place.
LEMMA PlacesOnTail ==
    ASSUME NEW S, NEW s \in Seq(S), s # <<>>, NEW T
    PROVE  /\ Tail(s) \in Seq(S)
           /\ Count(s, T) = Count(Tail(s), T) + (IF Head(s) \in T THEN 1 ELSE 0)
           /\ Count(Tail(s), T) \in Nat
           /\ OnlyFirst(s, T) => OnlyFirst(Tail(s), T) /\ Count(Tail(s), T) = 0
           /\ OnlyLast(s, T) => OnlyLast(Tail(s), T)
           /\ OnlyLast(s, T) /\ Head(s) \in T => Tail(s) = <<>>
<1> DEFINE n == Len(s)
           t == Tail(s)
<1>1. /\ t \in Seq(S) /\ n \in Nat \ {0} /\ Len(t) = n - 1 /\ Head(s) = s[1]
      /\ \A k \in 1 .. n - 1 : t[k] = s[k + 1]
  BY HeadAndTail
<1>2. DOMAIN s = 1 .. n
  BY LenProperties
<1>3. DOMAIN t = 1 .. n - 1
  BY <1>1, LenProperties
<1>4. Count(s, T) = Count(t, T) + (IF Head(s) \in T THEN 1 ELSE 0)
  BY CountTail
<1>5. Count(t, T) \in Nat /\ (Count(t, T) > 0 <=> \E k \in DOMAIN t : t[k] \in T)
  BY <1>1, CountType
<1>6. Len(t) = 0 => t = <<>>
  BY <1>1, EmptySeq
<1> HIDE DEF n, t
<1>7. \A k \in 1 .. n - 1 : k + 1 \in 1 .. n /\ k + 1 # 1 /\ (k + 1 = n => k = n - 1)
  BY <1>1
<1>8. ASSUME OnlyFirst(s, T)
      PROVE  OnlyFirst(t, T) /\ Count(t, T) = 0
  <2>1. \A k \in DOMAIN t : t[k] \notin T
    BY <1>1, <1>2, <1>3, <1>7, <1>8 DEF OnlyFirst
  <2> QED
    BY <1>5, <2>1 DEF OnlyFirst
<1>9. ASSUME OnlyLast(s, T)
      PROVE  OnlyLast(t, T)
  <2> SUFFICES ASSUME NEW k \in 1 .. n - 1, t[k] \in T
               PROVE  k = n - 1
    BY <1>1, <1>3 DEF OnlyLast
  <2>1. k + 1 \in DOMAIN s /\ s[k + 1] \in T
    BY <1>1, <1>2, <1>7
  <2>2. k + 1 = n
    BY <1>9, <2>1 DEF OnlyLast, n
  <2> QED
    BY <1>7, <2>2
<1>10. ASSUME OnlyLast(s, T), Head(s) \in T
       PROVE  t = <<>>
  <2>1. 1 \in 1 .. n
    BY <1>1
  <2>2. 1 = n
    BY <1>1, <1>2, <1>10, <2>1 DEF OnlyLast, n
  <2> QED
    BY <1>1, <1>6, <2>2
<1> QED
  BY <1>1, <1>4, <1>5, <1>8, <1>9, <1>10 DEF t

\* The kinds of message.
LEMMA MessageKinds ==
    ASSUME NEW i \in Nat
    PROVE  /\ <<"LOAD", i>> \in Loads /\ <<"LOAD", i>> \notin Lasts /\ <<"LOAD", i>> \notin Closes
           /\ <<"LAST", i>> \in Lasts /\ <<"LAST", i>> \notin Loads /\ <<"LAST", i>> \notin Closes
           /\ <<"CLOSE", i>> \in Closes /\ <<"CLOSE", i>> \notin Loads /\ <<"CLOSE", i>> \notin Lasts
           /\ \A kind \in {"OUTP", "BRKS", "BRKF", "BRKH"} :
                 <<kind, i>> \notin Loads /\ <<kind, i>> \notin Lasts /\ <<kind, i>> \notin Closes
  BY DEF Loads, Lasts, Closes

\* What a message on its way may be, when the adapter or the program sends one more.
LEMMA WireType ==
    ASSUME SessionTypeOK
    PROVE  /\ toAdapter \in Seq(Messages \X Nat)
           /\ \A T : Count(toAdapter, T) \in Nat
           /\ \A kind \in Messages, i \in Nat : <<kind, i>> \in Messages \X Nat
<1>1. toAdapter \in Seq(Messages \X (Ids \union {0})) /\ Ids \union {0} \subseteq Nat
  BY IdsType DEF SessionTypeOK
<1> DEFINE ids == Ids \union {0}
<1>2. Messages \X ids \subseteq Messages \X Nat
  <2>1. ids \subseteq Nat
    BY <1>1
  <2> HIDE DEF ids
  <2> QED
    BY <2>1
<1>3. toAdapter \in Seq(Messages \X Nat)
  BY <1>1, <1>2, SeqMonotonic
<1> QED
  BY <1>3, CountType

\* The steps of the program that send a message: which, and to what end.
LEMMA Sends ==
    ASSUME SessionTypeOK, WireFits, LoadComesFirst
    PROVE  /\ ProgramObeys =>
                 /\ ProgramConnected /\ ProgramConnected' /\ (program' = "exiting" <=> program = "exiting")
                 /\ \/ UNCHANGED toAdapter
                    \/ \E kind \in {"BRKS", "BRKF"}, i \in Nat : toAdapter' = Append(toAdapter, <<kind, i>>)
           /\ ProgramRuns =>
                 /\ program = "running"
                 /\ \/ /\ program' \in {"running", "hit"}
                       /\ \E kind \in {"OUTP", "BRKH"}, i \in Nat : toAdapter' = Append(toAdapter, <<kind, i>>)
                    \/ program' = "exiting" /\ toAdapter' = Append(toAdapter, <<"LAST", 0>>)
           /\ ProgramConnects =>
                 /\ program = "starting" /\ toAdapter = <<>>
                 /\ \/ program' = "entry" /\ toAdapter' = Append(toAdapter, <<"LOAD", 0>>)
                    \/ /\ program' = "exiting"
                       /\ toAdapter' = Append(Append(toAdapter, <<"OUTP", 0>>), <<"LAST", 0>>)
                    \/ program' = "none" /\ UNCHANGED toAdapter
<1>1. Ids \subseteq Nat /\ active \subseteq Ids
  BY IdsType DEF SessionTypeOK
<1>2. ASSUME ProgramObeys
      PROVE  /\ ProgramConnected /\ ProgramConnected' /\ (program' = "exiting" <=> program = "exiting")
             /\ \/ UNCHANGED toAdapter
                \/ \E kind \in {"BRKS", "BRKF"}, i \in Nat : toAdapter' = Append(toAdapter, <<kind, i>>)
  <2>1. toProgram # <<>> /\ toProgram \in Seq({"bind", "disable", "resume"} \X (Ids \union {0}))
    BY <1>2 DEF ProgramObeys, SessionTypeOK
  <2> DEFINE ids == Ids \union {0}
  <2>4. ids \subseteq Nat
    BY <1>1
  <2>2. Head(toProgram) \in {"bind", "disable", "resume"} \X ids
    BY <2>1, RangeTail
  <2> HIDE DEF ids
  <2>3. Head(toProgram)[2] \in Nat
    BY <2>2, <2>4
  <2> QED
    BY <1>2, <2>3 DEF ProgramObeys, ProgramConnected
<1>3. ASSUME ProgramRuns
      PROVE  /\ program = "running"
             /\ \/ /\ program' \in {"running", "hit"}
                   /\ \E kind \in {"OUTP", "BRKH"}, i \in Nat : toAdapter' = Append(toAdapter, <<kind, i>>)
                \/ program' = "exiting" /\ toAdapter' = Append(toAdapter, <<"LAST", 0>>)
  BY <1>1, <1>3 DEF ProgramRuns
<1>4. ASSUME ProgramConnects
      PROVE  /\ program = "starting" /\ toAdapter = <<>>
             /\ \/ program' = "entry" /\ toAdapter' = Append(toAdapter, <<"LOAD", 0>>)
                \/ /\ program' = "exiting"
                   /\ toAdapter' = Append(Append(toAdapter, <<"OUTP", 0>>), <<"LAST", 0>>)
                \/ program' = "none" /\ UNCHANGED toAdapter
  <2>1. program = "starting" /\ toAdapter = <<>>
    BY <1>4 DEF ProgramConnects, LoadComesFirst
  <2>2. <<>> \o <<<<"OUTP", 0>>, <<"LAST", 0>>>> = Append(Append(<<>>, <<"OUTP", 0>>), <<"LAST", 0>>)
    OBVIOUS
  <2> QED
    BY <1>4, <2>1, <2>2 DEF ProgramConnects
<1> QED
  BY <1>2, <1>3, <1>4

\* What the editor was told of, in numbers.
Numbers == [stopped : BOOLEAN, launched : Nat, terminated : Nat, gone : BOOLEAN]

\* Nothing happens to the ends.
LEMMA EndsSame ==
    ASSUME EndsOnce, Told,
           UNCHANGED <<toAdapter, lastTimer, program, launch, entryResponse>>,
           UNCHANGED <<editor.launched, editor.terminated, editor.gone>>
    PROVE  EndsOnce' /\ Told'
<1>1. EndsOnce'
  BY DEF EndsOnce
<1>2. Told'
  BY DEF Told, StartsLeft, EndsLeft
<1> QED
  BY <1>1, <1>2

\* One that is neither the first nor one of the last is sent by a program that runs.
LEMMA EndsMore ==
    ASSUME SessionTypeOK, EndsOnce, Told,
           NEW kind \in {"OUTP", "BRKS", "BRKF", "BRKH"}, NEW i \in Nat,
           toAdapter' = Append(toAdapter, <<kind, i>>), ProgramConnected, ProgramConnected',
           program' = "exiting" <=> program = "exiting",
           UNCHANGED <<lastTimer, launch, entryResponse, editor>>
    PROVE  EndsOnce' /\ Told'
<1> DEFINE e == <<kind, i>>
           M == Messages \X Nat
<1>1. toAdapter \in Seq(M) /\ e \in M /\ toAdapter' = Append(toAdapter, e)
  BY WireType DEF Messages
<1>2. e \notin Loads /\ e \notin Lasts /\ e \notin Closes
  BY MessageKinds
<1> HIDE DEF e, M
<1>3. program # "ended" /\ program' # "ended" /\ program # "starting" /\ program' # "starting"
  BY DEF ProgramConnected
<1>4. Count(toAdapter, Closes) = 0
  BY <1>3, WireType DEF EndsOnce
<1>10. Longer(toAdapter, toAdapter', e)
  BY <1>1, PlacesOnAppend
<1>5. /\ Count(toAdapter', Loads) = Count(toAdapter, Loads)
      /\ OnlyFirst(toAdapter, Loads) => OnlyFirst(toAdapter', Loads)
  BY <1>2, <1>10 DEF Longer, Lengthens
<1>6. Count(toAdapter', Lasts) = Count(toAdapter, Lasts)
  BY <1>2, <1>10 DEF Longer, Lengthens
<1>7. Count(toAdapter', Closes) = Count(toAdapter, Closes) /\ OnlyLast(toAdapter', Closes)
  BY <1>2, <1>4, <1>10 DEF Longer, Lengthens
<1>8. EndsOnce'
  BY <1>3, <1>4, <1>5, <1>6, <1>7 DEF EndsOnce
<1>9. Told'
  BY <1>3, <1>4, <1>5, <1>6, <1>7 DEF Told, StartsLeft, EndsLeft
<1> QED
  BY <1>8, <1>9

\* The socket of the program closes.
LEMMA EndsClose ==
    ASSUME SessionTypeOK, EndsOnce, program \notin {"none", "starting", "ended"}, program' = "ended",
           toAdapter' = Append(toAdapter, <<"CLOSE", 0>>), UNCHANGED lastTimer
    PROVE  /\ EndsOnce'
           /\ Count(toAdapter', Loads) = Count(toAdapter, Loads)
           /\ Count(toAdapter', Lasts) = Count(toAdapter, Lasts)
           /\ Count(toAdapter', Closes) = 1
<1> DEFINE e == <<"CLOSE", 0>>
           M == Messages \X Nat
<1>1. toAdapter \in Seq(M) /\ e \in M /\ toAdapter' = Append(toAdapter, e)
  BY WireType DEF Messages
<1>2. e \notin Loads /\ e \notin Lasts /\ e \in Closes
  BY MessageKinds
<1> HIDE DEF e, M
<1>3. Count(toAdapter, Closes) = 0
  BY WireType DEF EndsOnce
<1>8. Longer(toAdapter, toAdapter', e)
  BY <1>1, PlacesOnAppend
<1>4. /\ Count(toAdapter', Loads) = Count(toAdapter, Loads)
      /\ OnlyFirst(toAdapter, Loads) => OnlyFirst(toAdapter', Loads)
  BY <1>2, <1>8 DEF Longer, Lengthens
<1>5. Count(toAdapter', Lasts) = Count(toAdapter, Lasts)
  BY <1>2, <1>8 DEF Longer, Lengthens
<1>6. Count(toAdapter', Closes) = 1 /\ OnlyLast(toAdapter', Closes)
  BY <1>2, <1>3, <1>8 DEF Longer, Lengthens
<1>7. EndsOnce'
  BY <1>4, <1>5, <1>6 DEF EndsOnce
<1> QED
  BY <1>4, <1>5, <1>6, <1>7

\* A message is handled.
LEMMA EndsTaken ==
    ASSUME SessionTypeOK, EndsOnce, toAdapter # <<>>, toAdapter' = Tail(toAdapter)
    PROVE  /\ OnlyFirst(toAdapter', Loads) /\ OnlyLast(toAdapter', Closes)
           /\ Count(toAdapter', Loads) = 0
           /\ Head(toAdapter) \in Loads => Count(toAdapter, Loads) = 1
           /\ \A T : Count(toAdapter, T) = Count(toAdapter', T) + (IF Head(toAdapter) \in T THEN 1 ELSE 0)
           /\ \A T : Count(toAdapter', T) \in Nat
           /\ Head(toAdapter) \in Closes => Count(toAdapter', Closes) = 0
<1> DEFINE M == Messages \X Nat
<1>1. toAdapter \in Seq(M) /\ toAdapter # <<>> /\ toAdapter' = Tail(toAdapter)
  BY WireType
<1> HIDE DEF M
<1>2. \A T : /\ Count(toAdapter, T) = Count(toAdapter', T) + (IF Head(toAdapter) \in T THEN 1 ELSE 0)
             /\ Count(toAdapter', T) \in Nat
  BY <1>1, PlacesOnTail
<1>3. OnlyFirst(toAdapter', Loads) /\ Count(toAdapter', Loads) = 0
  BY <1>1, PlacesOnTail DEF EndsOnce
<1>4. OnlyLast(toAdapter', Closes) /\ (Head(toAdapter) \in Closes => toAdapter' = <<>>)
  BY <1>1, PlacesOnTail DEF EndsOnce
<1>5. Count(<<>>, Closes) = 0
  BY NothingQueued
<1>6. Head(toAdapter) \in Closes => Count(toAdapter', Closes) = 0
  BY <1>4, <1>5
<1>7. Head(toAdapter) \in Loads => Count(toAdapter, Loads) = 1
  BY <1>2, <1>3
<1> QED
  BY <1>2, <1>3, <1>4, <1>6, <1>7

\* The editor's numbers, and the counts of the wire, are numbers.
LEMMA NumbersType ==
    ASSUME SessionTypeOK
    PROVE  /\ editor \in Numbers
           /\ editor.launched \in Nat /\ editor.terminated \in Nat /\ editor.gone \in BOOLEAN
           /\ lastTimer \in BOOLEAN /\ entryResponse \in BOOLEAN
           /\ \A T : Count(toAdapter, T) \in Nat
<1>1. editor \in [stopped : BOOLEAN, launched : 0 .. 3, terminated : 0 .. 3, gone : BOOLEAN]
  BY DEF SessionTypeOK
<1>2. 0 .. 3 \subseteq Nat
  OBVIOUS
<1>3. editor \in Numbers
  BY <1>1, <1>2 DEF Numbers
<1> QED
  BY <1>3, WireType DEF SessionTypeOK, Numbers

\* One more was told, and one less is left.
LEMMA OneLess ==
    ASSUME NEW told \in Nat, NEW left \in Nat, NEW rest \in Nat,
           told + left <= 3, rest + 1 <= left
    PROVE  (told + 1) + rest <= 3
  OBVIOUS

\* The end is told once more.
LEMMA TerminatedProperties ==
    ASSUME NEW ed \in Numbers
    PROVE  /\ Terminated(ed) \in Numbers /\ Terminated(ed).launched = ed.launched
           /\ Terminated(ed).terminated = ed.terminated + 1 /\ Terminated(ed).gone = ed.gone
  BY DEF Terminated, Numbers

\* The start is told.
Started(ed, n, stops0) == [[ed EXCEPT !.launched = n] EXCEPT !.stopped = stops0]

\* The launch is told once more.
LEMMA StartedProperties ==
    ASSUME NEW ed \in Numbers, NEW n \in Nat, NEW stops0 \in BOOLEAN
    PROVE  /\ Started(ed, n, stops0) \in Numbers /\ Started(ed, n, stops0).launched = n
           /\ Started(ed, n, stops0).terminated = ed.terminated
           /\ Started(ed, n, stops0).gone = ed.gone
  BY DEF Started, Numbers

\* Every step that is not one of the program, or of its first or last message.
LEMMA EndsLoop ==
    ASSUME SessionTypeOK, QueuesFit, WireFits, LoadComesFirst, EndsOnce, Told,
           \/ \E f \in Files, lines \in SUBSET Lines : SetBreakPointsRequest(f, lines)
           \/ \E r \in RequestIds : SetStep(r) \/ AnswerStep(r)
           \/ \E r \in RequestIds, i \in Nat, verified \in BOOLEAN : BoundStep(r, i, verified)
           \/ ResumeStep \/ ConfigurationDoneRequest \/ ContinueRequest \/ DataEvent
           \/ UNCHANGED sessionVars
           \/ \E i \in Nat : ConfirmStep(i) \/ HitStep(i)
    PROVE  EndsOnce' /\ Told' /\ editor' \in Numbers
<1> USE DEF launchVars, endVars, programVars, sessionVars
<1>1. /\ editor \in Numbers
      /\ editor.launched \in Nat /\ editor.terminated \in Nat /\ editor.gone \in BOOLEAN
      /\ \A T : Count(toAdapter, T) \in Nat
  BY NumbersType
<1>2. CASE \/ \E f \in Files, lines \in SUBSET Lines : SetBreakPointsRequest(f, lines)
           \/ \E r \in RequestIds : SetStep(r) \/ AnswerStep(r)
           \/ \E r \in RequestIds, i \in Nat, verified \in BOOLEAN : BoundStep(r, i, verified)
           \/ ResumeStep \/ ConfigurationDoneRequest \/ UNCHANGED sessionVars
  <2>1. UNCHANGED <<toAdapter, lastTimer, program, launch, entryResponse, editor>>
    BY <1>2, QuietWire
  <2> QED
    BY <1>1, <2>1, EndsSame
<1>3. CASE ContinueRequest
  <2>1. /\ UNCHANGED <<toAdapter, lastTimer, program, launch, entryResponse>>
        /\ editor' = [editor EXCEPT !.stopped = FALSE]
    BY <1>3 DEF ContinueRequest
  <2>2. editor' \in Numbers /\ UNCHANGED <<editor.launched, editor.terminated, editor.gone>>
    BY <1>1, <2>1 DEF Numbers
  <2> QED
    BY <2>1, <2>2, EndsSame
<1>4. CASE DataEvent
  <2>1. /\ UNCHANGED <<toAdapter, lastTimer, program, entryResponse, editor>>
        /\ launch' = IF launch = "starting" THEN "connected" ELSE launch
    BY <1>4 DEF DataEvent
  <2>2. EndsOnce'
    BY <2>1 DEF EndsOnce
  <2>3. launch' = "none" <=> launch = "none"
    BY <2>1
  <2>4. launch' = "starting" => launch = "starting"
    BY <2>1
  <2>5. EndsLeft' = EndsLeft
    BY <2>1 DEF EndsLeft
  <2>6. StartsLeft' \in Nat /\ StartsLeft \in Nat /\ StartsLeft' <= StartsLeft
    BY <2>1, <2>3, <2>4 DEF StartsLeft
  <2> QED
    BY <1>1, <2>1, <2>2, <2>5, <2>6 DEF Told
<1>5. ASSUME NEW i \in Nat, NEW kind \in {"BRKS", "BRKF", "BRKH"}, MessageIs(<<kind, i>>),
             UNCHANGED <<entryResponse>>, UNCHANGED lastTimer,
             editor' = editor \/ editor' = [editor EXCEPT !.stopped = TRUE]
      PROVE  EndsOnce' /\ Told' /\ editor' \in Numbers
  <2>1. /\ toAdapter # <<>> /\ Head(toAdapter) = <<kind, i>> /\ toAdapter' = Tail(toAdapter)
        /\ UNCHANGED <<launch, program>>
    BY <1>5 DEF MessageIs
  <2>2. editor' \in Numbers /\ UNCHANGED <<editor.launched, editor.terminated, editor.gone>>
    BY <1>1, <1>5 DEF Numbers
  <2>3. Head(toAdapter) \notin Loads /\ Head(toAdapter) \notin Lasts /\ Head(toAdapter) \notin Closes
    BY <2>1, MessageKinds
  <2>4. /\ OnlyFirst(toAdapter', Loads) /\ OnlyLast(toAdapter', Closes)
        /\ Count(toAdapter, Loads) = Count(toAdapter', Loads)
        /\ Count(toAdapter, Lasts) = Count(toAdapter', Lasts)
        /\ Count(toAdapter, Closes) = Count(toAdapter', Closes)
    <3>1. /\ OnlyFirst(toAdapter', Loads) /\ OnlyLast(toAdapter', Closes)
          /\ \A T : Count(toAdapter, T) = Count(toAdapter', T) + (IF Head(toAdapter) \in T THEN 1 ELSE 0)
          /\ \A T : Count(toAdapter', T) \in Nat
      BY <2>1, EndsTaken
    <3> QED
      BY <2>3, <3>1
  <2>5. EndsOnce'
    BY <1>5, <2>1, <2>4 DEF EndsOnce
  <2>6. Told'
    BY <1>5, <2>1, <2>2, <2>4 DEF Told, StartsLeft, EndsLeft
  <2> QED
    BY <2>2, <2>5, <2>6
<1>6. ASSUME NEW i \in Nat, ConfirmStep(i) \/ HitStep(i)
      PROVE  EndsOnce' /\ Told' /\ editor' \in Numbers
  <2>1. CASE ConfirmStep(i)
    <3>1. PICK kind \in {"BRKS", "BRKF"} : MessageIs(<<kind, i>>)
      BY <2>1 DEF ConfirmStep
    <3>2. UNCHANGED <<editor, entryResponse, lastTimer>>
      BY <2>1 DEF ConfirmStep, HandleBreakPointSet
    <3> QED
      BY <1>5, <3>1, <3>2
  <2>2. CASE HitStep(i)
    <3>1. MessageIs(<<"BRKH", i>>)
      BY <2>2 DEF HitStep
    <3>2. /\ UNCHANGED <<entryResponse, lastTimer>>
          /\ editor' = editor \/ editor' = [editor EXCEPT !.stopped = TRUE]
      BY <2>2 DEF HitStep, HandleBreakPointHit
    <3> QED
      BY <1>5, <3>1, <3>2
  <2> QED
    BY <1>6, <2>1, <2>2
<1> QED
  BY <1>2, <1>3, <1>4, <1>6

\* The other steps, one by one.
LEMMA EndsStep ==
    ASSUME SessionTypeOK, QueuesFit, WireFits, LoadComesFirst, EndsOnce, Told,
           [SessionNext]_sessionVars
    PROVE  EndsOnce' /\ Told' /\ editor' \in Numbers
<1> USE DEF launchVars, endVars, programVars, sessionVars, adapterVars
<1>1. /\ editor \in Numbers
      /\ editor.launched \in Nat /\ editor.terminated \in Nat /\ editor.gone \in BOOLEAN
      /\ lastTimer \in BOOLEAN /\ entryResponse \in BOOLEAN
      /\ \A T : Count(toAdapter, T) \in Nat
  BY NumbersType
<1>2. CASE LaunchRequest
  <2>1. /\ launch = "none" /\ launch' = "starting" /\ entryResponse' = TRUE /\ program' = "starting"
        /\ UNCHANGED <<toAdapter, lastTimer, editor>>
    BY <1>2 DEF LaunchRequest
  <2>2. program = "none"
    BY <2>1 DEF LoadComesFirst
  <2>3. EndsOnce'
    BY <1>1, <2>1, <2>2 DEF EndsOnce
  <2>4. Told'
    BY <1>1, <2>1, <2>2 DEF Told, StartsLeft, EndsLeft
  <2> QED
    BY <1>1, <2>1, <2>3, <2>4
<1>3. CASE LaunchFails
  <2>1. /\ launch = "starting" /\ launch' = "failed"
        /\ editor' = [editor EXCEPT !.launched = @ + 1]
        /\ program' = program \/ (program = "starting" /\ program' = "none")
        /\ UNCHANGED <<toAdapter, lastTimer, entryResponse>>
    BY <1>3 DEF LaunchFails
  <2>2. editor' \in Numbers /\ editor'.launched = editor.launched + 1
        /\ editor'.terminated = editor.terminated /\ editor'.gone = editor.gone
    BY <1>1, <2>1 DEF Numbers
  <2>3. EndsOnce'
    BY <1>1, <2>1 DEF EndsOnce
  <2>4. Told'
    BY <1>1, <2>1, <2>2 DEF Told, StartsLeft, EndsLeft
  <2> QED
    BY <2>2, <2>3, <2>4
<1>4. CASE DisconnectRequest
  <2>1. /\ launch # "none" /\ ~editor.gone /\ KillProgram
        /\ editor' = Terminated([editor EXCEPT !.gone = TRUE])
        /\ UNCHANGED <<lastTimer, launch, entryResponse>>
    BY <1>4 DEF DisconnectRequest, StopDebugServer
  <2>2. editor' \in Numbers /\ editor'.launched = editor.launched
        /\ editor'.terminated = editor.terminated + 1 /\ editor'.gone = TRUE
    <3> DEFINE gone == [editor EXCEPT !.gone = TRUE]
    <3>1. /\ gone \in Numbers /\ gone.launched = editor.launched
          /\ gone.terminated = editor.terminated /\ gone.gone = TRUE
      BY <1>1 DEF Numbers
    <3>2. editor' = Terminated(gone)
      BY <2>1
    <3> HIDE DEF gone
    <3> QED
      BY <3>1, <3>2, TerminatedProperties
  <2>3. CASE program \in {"none", "ended"}
    <3>1. UNCHANGED <<program, toAdapter>>
      BY <2>1, <2>3 DEF KillProgram
    <3>2. EndsOnce'
      BY <1>1, <2>1, <3>1 DEF EndsOnce
    <3>3. Told'
      BY <1>1, <2>1, <2>2, <3>1 DEF Told, StartsLeft, EndsLeft
    <3> QED
      BY <2>2, <3>2, <3>3
  <2>4. CASE program = "starting"
    <3>1. program' = "none" /\ UNCHANGED toAdapter
      BY <2>1, <2>4 DEF KillProgram
    <3>2. EndsOnce'
      BY <1>1, <2>1, <2>4, <3>1 DEF EndsOnce
    <3>3. Told'
      BY <1>1, <2>1, <2>2, <2>4, <3>1 DEF Told, StartsLeft, EndsLeft
    <3> QED
      BY <2>2, <3>2, <3>3
  <2>5. CASE program \notin {"none", "starting", "ended"}
    <3>1. program' = "ended" /\ toAdapter' = Append(toAdapter, <<"CLOSE", 0>>)
      BY <2>1, <2>5 DEF KillProgram
    <3>2. /\ EndsOnce'
          /\ Count(toAdapter', Loads) = Count(toAdapter, Loads)
          /\ Count(toAdapter', Lasts) = Count(toAdapter, Lasts)
          /\ Count(toAdapter', Closes) = 1
      BY <2>1, <2>5, <3>1, EndsClose
    <3>3. StartsLeft' = StartsLeft
      BY <2>1, <2>5, <3>1, <3>2 DEF StartsLeft
    <3>4. EndsLeft' + 1 <= EndsLeft
      BY <1>1, <2>1, <2>2, <2>5, <3>1, <3>2 DEF EndsLeft
    <3>5. StartsLeft \in Nat /\ EndsLeft \in Nat /\ EndsLeft' \in Nat
      BY DEF StartsLeft, EndsLeft
    <3>6. Told'
      <4>1. editor'.launched + StartsLeft' <= 3
        BY <2>2, <3>3 DEF Told
      <4>2. editor'.terminated + EndsLeft' <= 3
        BY <1>1, <2>2, <3>4, <3>5, OneLess DEF Told
      <4> QED
        BY <4>1, <4>2 DEF Told
    <3> QED
      BY <2>2, <3>2, <3>6
  <2> QED
    BY <2>3, <2>4, <2>5
<1>5. CASE SocketCloses
  <2>1. /\ toAdapter # <<>> /\ Head(toAdapter) = <<"CLOSE", 0>> /\ toAdapter' = Tail(toAdapter)
        /\ editor' = Terminated(editor)
        /\ UNCHANGED <<lastTimer, launch, entryResponse, program>>
    BY <1>5 DEF SocketCloses, StopDebugServer
  <2>2. editor' \in Numbers /\ editor'.launched = editor.launched
        /\ editor'.terminated = editor.terminated + 1 /\ editor'.gone = editor.gone
    BY <1>1, <2>1, TerminatedProperties
  <2>3. Head(toAdapter) \in Closes /\ Head(toAdapter) \notin Loads /\ Head(toAdapter) \notin Lasts
    BY <2>1, MessageKinds
  <2>4. /\ OnlyFirst(toAdapter', Loads) /\ OnlyLast(toAdapter', Closes)
        /\ Count(toAdapter', Closes) = 0 /\ Count(toAdapter, Closes) = 1
        /\ Count(toAdapter, Loads) = Count(toAdapter', Loads)
        /\ Count(toAdapter, Lasts) = Count(toAdapter', Lasts)
    <3>1. /\ OnlyFirst(toAdapter', Loads) /\ OnlyLast(toAdapter', Closes)
          /\ Count(toAdapter', Closes) = 0
          /\ \A T : Count(toAdapter, T) = Count(toAdapter', T) + (IF Head(toAdapter) \in T THEN 1 ELSE 0)
          /\ \A T : Count(toAdapter', T) \in Nat
      BY <2>1, <2>3, EndsTaken
    <3> QED
      BY <2>3, <3>1
  <2>5. program = "ended"
    BY <2>4 DEF EndsOnce
  <2>6. EndsOnce'
    BY <1>1, <2>1, <2>4, <2>5 DEF EndsOnce
  <2>7. StartsLeft' = StartsLeft
    BY <2>1, <2>4 DEF StartsLeft
  <2>8. EndsLeft' + 1 <= EndsLeft
    BY <1>1, <2>1, <2>2, <2>4, <2>5 DEF EndsLeft
  <2>9. StartsLeft \in Nat /\ EndsLeft \in Nat /\ EndsLeft' \in Nat
    BY DEF StartsLeft, EndsLeft
  <2>10. Told'
    <3>1. editor'.launched + StartsLeft' <= 3
      BY <2>2, <2>7 DEF Told
    <3>2. editor'.terminated + EndsLeft' <= 3
      BY <1>1, <2>2, <2>8, <2>9, OneLess DEF Told
    <3> QED
      BY <3>1, <3>2 DEF Told
  <2> QED
    BY <2>2, <2>6, <2>10
<1>6. CASE LastTimerFires
  <2>1. /\ lastTimer /\ lastTimer' = FALSE /\ editor' = Terminated(editor)
        /\ UNCHANGED <<toAdapter, launch, entryResponse, program>>
    BY <1>6 DEF LastTimerFires
  <2>2. editor' \in Numbers /\ editor'.launched = editor.launched
        /\ editor'.terminated = editor.terminated + 1 /\ editor'.gone = editor.gone
    BY <1>1, <2>1, TerminatedProperties
  <2>3. program \in {"exiting", "ended"} /\ Count(toAdapter, Lasts) = 0
    BY <1>1, <2>1 DEF EndsOnce
  <2>4. EndsOnce'
    BY <1>1, <2>1, <2>3 DEF EndsOnce
  <2>5. Told'
    BY <1>1, <2>1, <2>2, <2>3 DEF Told, StartsLeft, EndsLeft
  <2> QED
    BY <2>2, <2>4, <2>5
<1>7. CASE LoadStep
  <2>1. PICK i \in Nat : MessageIs(<<"LOAD", i>>)
    BY <1>7 DEF LoadStep
  <2>2. /\ toAdapter # <<>> /\ Head(toAdapter) = <<"LOAD", i>> /\ toAdapter' = Tail(toAdapter)
        /\ UNCHANGED <<launch, program>>
    BY <2>1 DEF MessageIs
  <2>3. /\ editor' = [editor EXCEPT !.launched = IF entryResponse THEN @ + 1 ELSE @,
                                    !.stopped = stopOnEntry]
        /\ UNCHANGED <<entryResponse, lastTimer>> /\ stopOnEntry \in BOOLEAN
    BY <1>7 DEF LoadStep, HandleProcessLoad, SessionTypeOK
  <2>4. /\ editor' \in Numbers
        /\ editor'.launched = editor.launched + (IF entryResponse THEN 1 ELSE 0)
        /\ editor'.terminated = editor.terminated /\ editor'.gone = editor.gone
    <3> DEFINE n == IF entryResponse THEN editor.launched + 1 ELSE editor.launched
    <3>1. n \in Nat /\ n = editor.launched + (IF entryResponse THEN 1 ELSE 0)
      BY <1>1
    <3>2. editor' = Started(editor, n, stopOnEntry)
      BY <2>3 DEF Started
    <3> HIDE DEF n
    <3>3. /\ editor' \in Numbers /\ editor'.launched = n
          /\ editor'.terminated = editor.terminated /\ editor'.gone = editor.gone
      <4>1. stopOnEntry \in BOOLEAN
        BY <2>3
      <4>2. editor \in Numbers /\ n \in Nat
        BY <1>1, <3>1
      <4>3. /\ Started(editor, n, stopOnEntry) \in Numbers
            /\ Started(editor, n, stopOnEntry).launched = n
            /\ Started(editor, n, stopOnEntry).terminated = editor.terminated
            /\ Started(editor, n, stopOnEntry).gone = editor.gone
        BY <4>1, <4>2, StartedProperties
      <4> QED
        BY <3>2, <4>3
    <3> QED
      BY <3>1, <3>3
  <2>5. Head(toAdapter) \in Loads /\ Head(toAdapter) \notin Lasts /\ Head(toAdapter) \notin Closes
    BY <2>2, MessageKinds
  <2>6. /\ OnlyFirst(toAdapter', Loads) /\ OnlyLast(toAdapter', Closes)
        /\ Count(toAdapter', Loads) = 0 /\ Count(toAdapter, Loads) = 1
        /\ Count(toAdapter, Closes) = Count(toAdapter', Closes)
        /\ Count(toAdapter, Lasts) = Count(toAdapter', Lasts)
    <3>1. /\ OnlyFirst(toAdapter', Loads) /\ OnlyLast(toAdapter', Closes)
          /\ Count(toAdapter', Loads) = 0
          /\ \A T : Count(toAdapter, T) = Count(toAdapter', T) + (IF Head(toAdapter) \in T THEN 1 ELSE 0)
          /\ \A T : Count(toAdapter', T) \in Nat
      BY <2>2, EndsTaken
    <3> QED
      BY <2>5, <3>1
  <2>7. launch # "none" /\ program # "starting"
    BY <2>2, Arrived
  <2>8. EndsOnce'
    BY <1>1, <2>2, <2>3, <2>6 DEF EndsOnce
  <2>9. StartsLeft' + 1 = StartsLeft /\ StartsLeft' \in Nat
    BY <2>2, <2>3, <2>6, <2>7 DEF StartsLeft
  <2>10. EndsLeft' = EndsLeft /\ EndsLeft \in Nat
    BY <2>2, <2>3, <2>4, <2>6 DEF EndsLeft
  <2>11. Told'
    BY <1>1, <2>4, <2>9, <2>10 DEF Told
  <2> QED
    BY <2>4, <2>8, <2>11
<1>8. CASE OutputStep
  <2>1. PICK i \in Nat : MessageIs(<<"OUTP", i>>)
    BY <1>8 DEF OutputStep
  <2>2. /\ toAdapter # <<>> /\ Head(toAdapter) = <<"OUTP", i>> /\ toAdapter' = Tail(toAdapter)
        /\ UNCHANGED <<launch, program>>
    BY <2>1 DEF MessageIs
  <2>3. /\ IF entryResponse THEN editor' = [editor EXCEPT !.launched = @ + 1] /\ entryResponse' = FALSE
                            ELSE UNCHANGED <<editor, entryResponse>>
        /\ UNCHANGED lastTimer
    BY <1>8 DEF OutputStep, HandleDebuggerOutput
  <2>4. /\ editor' \in Numbers
        /\ editor'.launched = editor.launched + (IF entryResponse THEN 1 ELSE 0)
        /\ editor'.terminated = editor.terminated /\ editor'.gone = editor.gone
        /\ entryResponse' = FALSE
    BY <1>1, <2>3 DEF Numbers
  <2>5. Head(toAdapter) \notin Loads /\ Head(toAdapter) \notin Lasts /\ Head(toAdapter) \notin Closes
    BY <2>2, MessageKinds
  <2>6. /\ OnlyFirst(toAdapter', Loads) /\ OnlyLast(toAdapter', Closes)
        /\ Count(toAdapter, Loads) = Count(toAdapter', Loads)
        /\ Count(toAdapter, Closes) = Count(toAdapter', Closes)
        /\ Count(toAdapter, Lasts) = Count(toAdapter', Lasts)
    <3>1. /\ OnlyFirst(toAdapter', Loads) /\ OnlyLast(toAdapter', Closes)
          /\ \A T : Count(toAdapter, T) = Count(toAdapter', T) + (IF Head(toAdapter) \in T THEN 1 ELSE 0)
          /\ \A T : Count(toAdapter', T) \in Nat
      BY <2>2, EndsTaken
    <3> QED
      BY <2>5, <3>1
  <2>7. launch # "none"
    BY <2>2, Arrived
  <2>8. EndsOnce'
    BY <1>1, <2>2, <2>3, <2>6 DEF EndsOnce
  <2>9. StartsLeft' + (IF entryResponse THEN 1 ELSE 0) = StartsLeft /\ StartsLeft' \in Nat
    BY <1>1, <2>2, <2>4, <2>6, <2>7 DEF StartsLeft
  <2>10. EndsLeft' = EndsLeft /\ EndsLeft \in Nat
    BY <2>2, <2>3, <2>4, <2>6 DEF EndsLeft
  <2>11. Told'
    BY <1>1, <2>4, <2>9, <2>10 DEF Told
  <2> QED
    BY <2>4, <2>8, <2>11
<1>9. CASE LastStep
  <2>1. PICK i \in Nat : MessageIs(<<"LAST", i>>)
    BY <1>9 DEF LastStep
  <2>2. /\ toAdapter # <<>> /\ Head(toAdapter) = <<"LAST", i>> /\ toAdapter' = Tail(toAdapter)
        /\ UNCHANGED <<launch, program>>
    BY <2>1 DEF MessageIs
  <2>3. lastTimer' = TRUE /\ UNCHANGED <<editor, entryResponse>>
    BY <1>9 DEF LastStep, HandleLast
  <2>4. Head(toAdapter) \notin Loads /\ Head(toAdapter) \in Lasts /\ Head(toAdapter) \notin Closes
    BY <2>2, MessageKinds
  <2>5. /\ OnlyFirst(toAdapter', Loads) /\ OnlyLast(toAdapter', Closes)
        /\ Count(toAdapter, Loads) = Count(toAdapter', Loads)
        /\ Count(toAdapter, Closes) = Count(toAdapter', Closes)
        /\ Count(toAdapter, Lasts) = Count(toAdapter', Lasts) + 1
        /\ Count(toAdapter', Lasts) \in Nat
    <3>1. /\ OnlyFirst(toAdapter', Loads) /\ OnlyLast(toAdapter', Closes)
          /\ \A T : Count(toAdapter, T) = Count(toAdapter', T) + (IF Head(toAdapter) \in T THEN 1 ELSE 0)
          /\ \A T : Count(toAdapter', T) \in Nat
      BY <2>2, EndsTaken
    <3> QED
      BY <2>4, <3>1
  <2>6. program \in {"exiting", "ended"} /\ Count(toAdapter', Lasts) = 0
    BY <1>1, <2>5 DEF EndsOnce
  <2>7. EndsOnce'
    BY <1>1, <2>2, <2>3, <2>5, <2>6 DEF EndsOnce
  <2>8. Told'
    BY <1>1, <2>2, <2>3, <2>5, <2>6 DEF Told, StartsLeft, EndsLeft
  <2> QED
    BY <1>1, <2>3, <2>7, <2>8
<1>10. CASE ProgramConnects
  <2>1. UNCHANGED <<lastTimer, launch, entryResponse, editor>>
    BY <1>10 DEF ProgramConnects
  <2>2. /\ program = "starting" /\ toAdapter = <<>>
        /\ \/ program' = "entry" /\ toAdapter' = Append(toAdapter, <<"LOAD", 0>>)
           \/ program' = "exiting" /\ toAdapter' = Append(Append(toAdapter, <<"OUTP", 0>>), <<"LAST", 0>>)
           \/ program' = "none" /\ UNCHANGED toAdapter
    BY <1>10, Sends
  <2>3. Count(toAdapter, Loads) = 0 /\ Count(toAdapter, Lasts) = 0 /\ Count(toAdapter, Closes) = 0
    BY <2>2, NothingQueued
  <2>4. ~lastTimer
    BY <2>2 DEF EndsOnce
  <2> DEFINE M == Messages \X Nat
  <2>5. toAdapter \in Seq(M) /\ <<"LOAD", 0>> \in M /\ <<"OUTP", 0>> \in M /\ <<"LAST", 0>> \in M
    BY WireType DEF Messages
  <2> HIDE DEF M
  <2>6. CASE program' = "entry" /\ toAdapter' = Append(toAdapter, <<"LOAD", 0>>)
    <3> DEFINE e == <<"LOAD", 0>>
    <3>1. e \in Loads /\ e \notin Lasts /\ e \notin Closes /\ e \in M /\ toAdapter' = Append(toAdapter, e)
      BY <2>5, <2>6, MessageKinds
    <3> HIDE DEF e
    <3>0. OnlyFirst(toAdapter, Loads) /\ Longer(toAdapter, toAdapter', e)
      BY <2>5, <3>1, PlacesOnAppend DEF EndsOnce
    <3>2. Count(toAdapter', Loads) = 1 /\ OnlyFirst(toAdapter', Loads)
      BY <2>2, <2>3, <3>0, <3>1 DEF Longer, Lengthens
    <3>3. Count(toAdapter', Lasts) = 0
      BY <2>3, <3>0, <3>1 DEF Longer, Lengthens
    <3>4. Count(toAdapter', Closes) = 0 /\ OnlyLast(toAdapter', Closes)
      BY <2>3, <3>0, <3>1 DEF Longer, Lengthens
    <3>5. EndsOnce'
      BY <2>1, <2>4, <2>6, <3>2, <3>3, <3>4 DEF EndsOnce
    <3>6. Told'
      BY <1>1, <2>1, <2>2, <2>3, <2>4, <2>6, <3>2, <3>3, <3>4 DEF Told, StartsLeft, EndsLeft
    <3> QED
      BY <1>1, <2>1, <3>5, <3>6
  <2>7. CASE program' = "exiting" /\ toAdapter' = Append(Append(toAdapter, <<"OUTP", 0>>), <<"LAST", 0>>)
    <3> DEFINE e == <<"OUTP", 0>>
               l == <<"LAST", 0>>
               t == Append(toAdapter, e)
    <3>1. e \notin Loads /\ e \notin Lasts /\ e \notin Closes /\ e \in M
      BY <2>5, MessageKinds
    <3>2. l \notin Loads /\ l \in Lasts /\ l \notin Closes /\ l \in M
      BY <2>5, MessageKinds
    <3>3. toAdapter' = Append(t, l)
      BY <2>7
    <3> HIDE DEF e, l
    <3>12. t \in Seq(M) /\ Longer(toAdapter, t, e) /\ OnlyFirst(toAdapter, Loads)
      BY <2>5, <3>1, PlacesOnAppend DEF EndsOnce
    <3> HIDE DEF t
    <3>13. Longer(t, toAdapter', l)
      BY <3>2, <3>3, <3>12, PlacesOnAppend
    <3>4. Count(t, Loads) = 0 /\ OnlyFirst(t, Loads)
      BY <2>3, <3>1, <3>12 DEF Longer, Lengthens
    <3>5. Count(t, Lasts) = 0
      BY <2>3, <3>1, <3>12 DEF Longer, Lengthens
    <3>6. Count(t, Closes) = 0
      BY <2>3, <3>1, <3>12 DEF Longer, Lengthens
    <3>7. Count(toAdapter', Loads) = 0 /\ OnlyFirst(toAdapter', Loads)
      BY <3>2, <3>4, <3>13 DEF Longer, Lengthens
    <3>8. Count(toAdapter', Lasts) = 1
      BY <3>2, <3>5, <3>13 DEF Longer, Lengthens
    <3>9. Count(toAdapter', Closes) = 0 /\ OnlyLast(toAdapter', Closes)
      BY <3>2, <3>6, <3>13 DEF Longer, Lengthens
    <3>10. EndsOnce'
      BY <2>1, <2>4, <2>7, <3>7, <3>8, <3>9 DEF EndsOnce
    <3>11. Told'
      BY <1>1, <2>1, <2>2, <2>3, <2>4, <2>7, <3>7, <3>8, <3>9 DEF Told, StartsLeft, EndsLeft
    <3> QED
      BY <1>1, <2>1, <3>10, <3>11
  <2>8. CASE program' = "none" /\ UNCHANGED toAdapter
    <3>1. EndsOnce'
      BY <2>1, <2>3, <2>4, <2>8 DEF EndsOnce
    <3>2. Told'
      BY <1>1, <2>1, <2>2, <2>3, <2>4, <2>8 DEF Told, StartsLeft, EndsLeft
    <3> QED
      BY <1>1, <2>1, <3>1, <3>2
  <2> QED
    BY <2>2, <2>6, <2>7, <2>8
<1>11. CASE ProgramObeys
  <2>1. UNCHANGED <<lastTimer, launch, entryResponse, editor>>
    BY <1>11 DEF ProgramObeys
  <2>2. /\ ProgramConnected /\ ProgramConnected' /\ (program' = "exiting" <=> program = "exiting")
        /\ \/ UNCHANGED toAdapter
           \/ \E kind \in {"BRKS", "BRKF"}, i \in Nat : toAdapter' = Append(toAdapter, <<kind, i>>)
    BY <1>11, Sends
  <2>3. CASE UNCHANGED toAdapter
    <3>1. program \notin {"ended", "starting"} /\ program' \notin {"ended", "starting"}
      BY <2>2 DEF ProgramConnected
    <3>2. EndsOnce'
      BY <2>1, <2>2, <2>3, <3>1 DEF EndsOnce
    <3>3. Told'
      BY <2>1, <2>2, <2>3, <3>1 DEF Told, StartsLeft, EndsLeft
    <3> QED
      BY <1>1, <2>1, <3>2, <3>3
  <2>4. ASSUME NEW kind \in {"BRKS", "BRKF"}, NEW i \in Nat, toAdapter' = Append(toAdapter, <<kind, i>>)
        PROVE  EndsOnce' /\ Told'
    BY <2>1, <2>2, <2>4, EndsMore
  <2> QED
    BY <1>1, <2>1, <2>2, <2>3, <2>4
<1>12. CASE ProgramRuns
  <2>1. UNCHANGED <<lastTimer, launch, entryResponse, editor>>
    BY <1>12 DEF ProgramRuns
  <2>2. /\ program = "running"
        /\ \/ /\ program' \in {"running", "hit"}
              /\ \E kind \in {"OUTP", "BRKH"}, i \in Nat : toAdapter' = Append(toAdapter, <<kind, i>>)
           \/ program' = "exiting" /\ toAdapter' = Append(toAdapter, <<"LAST", 0>>)
    BY <1>12, Sends
  <2>3. ASSUME program' \in {"running", "hit"}, NEW kind \in {"OUTP", "BRKH"}, NEW i \in Nat,
               toAdapter' = Append(toAdapter, <<kind, i>>)
        PROVE  EndsOnce' /\ Told'
    <3>1. ProgramConnected /\ ProgramConnected' /\ (program' = "exiting" <=> program = "exiting")
      BY <2>2, <2>3 DEF ProgramConnected
    <3> QED
      BY <2>1, <2>3, <3>1, EndsMore
  <2>4. CASE program' = "exiting" /\ toAdapter' = Append(toAdapter, <<"LAST", 0>>)
    <3> DEFINE e == <<"LAST", 0>>
               M == Messages \X Nat
    <3>1. toAdapter \in Seq(M) /\ e \in M /\ toAdapter' = Append(toAdapter, e)
      BY <2>4, WireType DEF Messages
    <3>2. e \notin Loads /\ e \in Lasts /\ e \notin Closes
      BY MessageKinds
    <3> HIDE DEF e, M
    <3>9. Longer(toAdapter, toAdapter', e)
      BY <3>1, PlacesOnAppend
    <3>3. Count(toAdapter, Closes) = 0 /\ Count(toAdapter, Lasts) = 0 /\ ~lastTimer
      BY <1>1, <2>2 DEF EndsOnce
    <3>4. /\ Count(toAdapter', Loads) = Count(toAdapter, Loads)
          /\ OnlyFirst(toAdapter, Loads) => OnlyFirst(toAdapter', Loads)
      BY <3>2, <3>9 DEF Longer, Lengthens
    <3>5. Count(toAdapter', Lasts) = 1
      BY <3>2, <3>3, <3>9 DEF Longer, Lengthens
    <3>6. Count(toAdapter', Closes) = 0 /\ OnlyLast(toAdapter', Closes)
      BY <3>2, <3>3, <3>9 DEF Longer, Lengthens
    <3>7. EndsOnce'
      BY <2>1, <2>4, <3>3, <3>4, <3>5, <3>6 DEF EndsOnce
    <3>8. Told'
      BY <1>1, <2>1, <2>2, <2>4, <3>3, <3>4, <3>5, <3>6 DEF Told, StartsLeft, EndsLeft
    <3> QED
      BY <1>1, <2>1, <3>7, <3>8
  <2> QED
    BY <1>1, <2>1, <2>2, <2>3, <2>4
<1>13. CASE ProgramExits
  <2>1. /\ program = "exiting" /\ program' = "ended" /\ toAdapter' = Append(toAdapter, <<"CLOSE", 0>>)
        /\ UNCHANGED <<lastTimer, launch, entryResponse, editor>>
    BY <1>13 DEF ProgramExits
  <2>2. /\ EndsOnce'
        /\ Count(toAdapter', Loads) = Count(toAdapter, Loads)
        /\ Count(toAdapter', Lasts) = Count(toAdapter, Lasts)
        /\ Count(toAdapter', Closes) = 1
    BY <2>1, EndsClose
  <2>3. Told'
    BY <1>1, <2>1, <2>2 DEF Told, StartsLeft, EndsLeft
  <2> QED
    BY <1>1, <2>1, <2>2, <2>3
<1>14. CASE \/ \E f \in Files, lines \in SUBSET Lines : SetBreakPointsRequest(f, lines)
            \/ \E r \in RequestIds : SetStep(r) \/ AnswerStep(r)
            \/ \E r \in RequestIds, i \in Nat, verified \in BOOLEAN : BoundStep(r, i, verified)
            \/ ResumeStep \/ ConfigurationDoneRequest \/ ContinueRequest \/ DataEvent
            \/ UNCHANGED sessionVars
            \/ \E i \in Nat : ConfirmStep(i) \/ HitStep(i)
  BY <1>14, EndsLoop
<1> QED
  BY <1>2, <1>3, <1>4, <1>5, <1>6, <1>7, <1>8, <1>9, <1>10, <1>11, <1>12, <1>13, <1>14, StepCases
     DEF OtherStep

\* A session that is not over stays ready.
LEMMA StaysStep ==
    ASSUME SessionTypeOK, QueuesFit, LoadComesFirst, Stays, [SessionNext]_sessionVars
    PROVE  Stays'
<1> USE DEF launchVars, resumeVars, endVars, sessionVars, adapterVars
<1>1. /\ launch # "none" /\ ~terminateEventSent => pythonProcess
      /\ crashed => terminateEventSent
      /\ resumeWaits => configurationDone = "pending"
  BY DEF Stays
<1>2. CASE \/ \E f \in Files, lines \in SUBSET Lines : SetBreakPointsRequest(f, lines)
           \/ \E r \in RequestIds : SetStep(r)
           \/ \E r \in RequestIds, i \in Nat, verified \in BOOLEAN : BoundStep(r, i, verified)
           \/ ResumeStep
           \/ \E i \in Nat : ConfirmStep(i)
           \/ UNCHANGED sessionVars
  <2>1. UNCHANGED <<launch, terminateEventSent, pythonProcess, crashed, resumeWaits, configurationDone>>
    BY <1>2, QuietSteps
  <2> QED
    BY <1>1, <2>1 DEF Stays
<1>3. ASSUME ConfigurationDoneRequest \/ \E r \in RequestIds : AnswerStep(r)
      PROVE  Stays'
  <2>1. UNCHANGED <<launch, terminateEventSent, pythonProcess, crashed>>
    BY <1>3 DEF ConfigurationDoneRequest, AnswerStep, TaskFrame
  <2>2. \/ UNCHANGED <<resumeWaits, configurationDone>>
        \/ resumeWaits' = FALSE
    BY <1>3 DEF ConfigurationDoneRequest, AnswerStep, AnswerBreakpoints, ResolveConfigurationDone
  <2> QED
    BY <1>1, <2>1, <2>2 DEF Stays
<1>4. CASE LaunchRequest
  BY <1>1, <1>4 DEF LaunchRequest, Stays
<1>5. CASE LaunchFails \/ ContinueRequest \/ LastTimerFires
  BY <1>1, <1>5 DEF LaunchFails, ContinueRequest, LastTimerFires, Stays
<1>6. CASE DisconnectRequest \/ SocketCloses
  BY <1>1, <1>6 DEF DisconnectRequest, SocketCloses, StopDebugServer, Stays
<1>7. CASE DataEvent
  <2>1. /\ UNCHANGED <<terminateEventSent, pythonProcess, crashed, resumeWaits, configurationDone>>
        /\ launch' = IF launch = "starting" THEN "connected" ELSE launch
    BY <1>7 DEF DataEvent
  <2> QED
    BY <1>1, <2>1 DEF Stays
<1>8. CASE ProgramConnects \/ ProgramObeys \/ ProgramRuns \/ ProgramExits
  BY <1>1, <1>8 DEF ProgramConnects, ProgramObeys, ProgramRuns, ProgramExits, Stays
<1>9. CASE LoadStep
  <2>1. UNCHANGED <<launch, pythonProcess>> /\ toAdapter # <<>>
    BY <1>9 DEF LoadStep, MessageIs
  <2>2. configurationDone \in {"none", "pending", "resolved"} /\ configurationDone # "none"
    BY <2>1, Arrived DEF SessionTypeOK
  <2>3. /\ UNCHANGED <<terminateEventSent, crashed, configurationDone>>
        /\ resumeWaits' => ~Resumes(configurationDone)
    BY <1>9 DEF LoadStep, HandleProcessLoad
  <2> QED
    BY <1>1, <2>1, <2>2, <2>3 DEF Stays, Resumes
<1>10. CASE OutputStep \/ LastStep
  <2>1. UNCHANGED <<launch, pythonProcess, crashed, resumeWaits, configurationDone>>
    BY <1>10 DEF OutputStep, LastStep, MessageIs, HandleDebuggerOutput, HandleLast
  <2>2. terminateEventSent' = terminateEventSent \/ terminateEventSent' = TRUE
    BY <1>10 DEF OutputStep, LastStep, HandleDebuggerOutput, HandleLast
  <2> QED
    BY <1>1, <2>1, <2>2 DEF Stays
<1>11. ASSUME NEW i \in Nat, HitStep(i)
       PROVE  Stays'
  <2>1. UNCHANGED <<launch, pythonProcess>> /\ toAdapter # <<>>
    BY <1>11 DEF HitStep, MessageIs
  <2>2. /\ UNCHANGED <<terminateEventSent, resumeWaits, configurationDone>>
        /\ crashed' => crashed \/ ~pythonProcess
    BY <1>11 DEF HitStep, HandleBreakPointHit
  <2>3. launch # "none"
    BY <2>1, Arrived
  <2> QED
    BY <1>1, <2>1, <2>2, <2>3 DEF Stays
<1> QED
  BY <1>2, <1>3, <1>4, <1>5, <1>6, <1>7, <1>8, <1>9, <1>10, <1>11, StepCases DEF OtherStep

\* The lifecycle of the session.
LEMMA LifecycleStep ==
    ASSUME SessionTypeOK, QueuesFit, WireFits, Lifecycle, [SessionNext]_sessionVars
    PROVE  Lifecycle' /\ editor' \in Numbers
<1>1. LoadComesFirst /\ EndsOnce /\ Told /\ Stays
  BY DEF Lifecycle
<1>2. LoadComesFirst'
  BY <1>1, LoadFirstStep
<1>3. EndsOnce' /\ Told' /\ editor' \in Numbers
  BY <1>1, EndsStep
<1>4. Stays'
  BY <1>1, StaysStep
<1> QED
  BY <1>2, <1>3, <1>4 DEF Lifecycle

-----------------------------------------------------------------------------
(* The types.                                                              *)

\* Where the requests are changes when one is sent, bound or answered.
LEMMA RequestCases ==
    ASSUME SessionTypeOK, QueuesFit, [SessionNext]_sessionVars
    PROVE  \/ UNCHANGED <<requests, overlapped, stage, configurationSent>>
           \/ UNCHANGED <<requests, overlapped, stage>> /\ configurationSent' = TRUE
           \/ \E f \in Files, lines \in SUBSET Lines : SetBreakPointsRequest(f, lines)
           \/ \E r \in RequestIds : SetStep(r) \/ AnswerStep(r)
<1> DEFINE Rest == UNCHANGED <<requests, overlapped, stage, configurationSent>>
<1> USE DEF sessionVars, adapterVars, editorVars, bindVars
<1>1. CASE OtherStep \/ UNCHANGED sessionVars
  <2>1. CASE LaunchRequest \/ LaunchFails \/ ContinueRequest \/ LastTimerFires \/ DataEvent
    BY <2>1 DEF LaunchRequest, LaunchFails, ContinueRequest, LastTimerFires, DataEvent
  <2>2. CASE DisconnectRequest \/ SocketCloses
    BY <2>2 DEF DisconnectRequest, SocketCloses, StopDebugServer
  <2>3. CASE ProgramConnects \/ ProgramObeys \/ ProgramRuns \/ ProgramExits
    BY <2>3 DEF ProgramConnects, ProgramObeys, ProgramRuns, ProgramExits
  <2>4. CASE UNCHANGED sessionVars
    BY <2>4
  <2> QED
    BY <1>1, <2>1, <2>2, <2>3, <2>4 DEF OtherStep
<1>2. CASE ConfigurationDoneRequest
  BY <1>2 DEF ConfigurationDoneRequest
<1>3. CASE \E r \in RequestIds, i \in Nat, verified \in BOOLEAN : BoundStep(r, i, verified)
  BY <1>3 DEF BoundStep, BreakpointBound, TaskFrame
<1>4. CASE ResumeStep
  BY <1>4 DEF ResumeStep, ResumeAtEntry, TaskFrame
<1>5. CASE LoadStep \/ OutputStep \/ LastStep \/ \E i \in Nat : ConfirmStep(i) \/ HitStep(i)
  BY <1>5 DEF LoadStep, OutputStep, LastStep, ConfirmStep, HitStep, MessageIs
<1> QED
  BY <1>1, <1>2, <1>3, <1>4, <1>5, StepCases

\* The types of the requests.
LEMMA RequestTypes ==
    ASSUME SessionTypeOK, QueuesFit, [SessionNext]_sessionVars
    PROVE  /\ requests' \in Seq([file : Files, lines : SUBSET Lines])
           /\ stage' \in [RequestIds -> {"unsent", "waiting", "binding", "answered"}]
           /\ overlapped' \subseteq Files
           /\ configurationSent' \in BOOLEAN
<1>1. /\ requests \in Seq([file : Files, lines : SUBSET Lines])
      /\ stage \in [RequestIds -> {"unsent", "waiting", "binding", "answered"}]
      /\ overlapped \subseteq Files
      /\ configurationSent \in BOOLEAN
  BY DEF SessionTypeOK
<1>2. ASSUME NEW f \in Files, NEW lines \in SUBSET Lines, SetBreakPointsRequest(f, lines)
      PROVE  /\ requests' \in Seq([file : Files, lines : SUBSET Lines])
             /\ stage' \in [RequestIds -> {"unsent", "waiting", "binding", "answered"}]
             /\ overlapped' \subseteq Files /\ UNCHANGED configurationSent
  <2>1. /\ requests' = Append(requests, [file |-> f, lines |-> lines])
        /\ stage' = [stage EXCEPT ![Len(requests) + 1] = "waiting"]
        /\ overlapped' = overlapped \union {f} \/ UNCHANGED overlapped
        /\ UNCHANGED configurationSent
    BY <1>2 DEF SetBreakPointsRequest
  <2>2. [file |-> f, lines |-> lines] \in [file : Files, lines : SUBSET Lines]
    OBVIOUS
  <2>3. requests' \in Seq([file : Files, lines : SUBSET Lines])
    BY <1>1, <2>1, <2>2, AppendProperties
  <2> QED
    BY <1>1, <2>1, <2>3
<1>3. ASSUME NEW r \in RequestIds, SetStep(r) \/ AnswerStep(r)
      PROVE  /\ UNCHANGED <<requests, overlapped, configurationSent>>
             /\ stage' \in [RequestIds -> {"unsent", "waiting", "binding", "answered"}]
  <2>1. UNCHANGED <<requests, overlapped, configurationSent>>
    BY <1>3 DEF SetStep, AnswerStep, TaskFrame, editorVars
  <2>2. \/ stage' = [stage EXCEPT ![r] = "answered"]
        \/ stage' = [stage EXCEPT ![r] = "binding"]
    BY <1>3 DEF SetStep, AnswerStep, SetBreakPoints, AnswerBreakpoints
  <2> QED
    BY <1>1, <2>1, <2>2
<1> QED
  BY <1>1, <1>2, <1>3, RequestCases

\* The flags, the launch and what the program does.
LEMMA FlagTypes ==
    ASSUME SessionTypeOK, QueuesFit, [SessionNext]_sessionVars
    PROVE  /\ launch' \in {"none", "starting", "connected", "failed"}
           /\ stopOnEntry' \in BOOLEAN /\ entryResponse' \in BOOLEAN /\ debuggerLoaded' \in BOOLEAN
           /\ resumeWaits' \in BOOLEAN /\ pythonProcess' \in BOOLEAN
           /\ terminateEventSent' \in BOOLEAN /\ lastTimer' \in BOOLEAN /\ crashed' \in BOOLEAN
           /\ configurationDone' \in {"none", "pending", "resolved"}
           /\ program' \in {"none", "starting", "entry", "hit", "running", "exiting", "ended"}
           /\ stops' \in 0 .. Stops
<1> DEFINE Types == /\ launch \in {"none", "starting", "connected", "failed"}
                    /\ stopOnEntry \in BOOLEAN /\ entryResponse \in BOOLEAN /\ debuggerLoaded \in BOOLEAN
                    /\ resumeWaits \in BOOLEAN /\ pythonProcess \in BOOLEAN
                    /\ terminateEventSent \in BOOLEAN /\ lastTimer \in BOOLEAN /\ crashed \in BOOLEAN
                    /\ configurationDone \in {"none", "pending", "resolved"}
                    /\ program \in {"none", "starting", "entry", "hit", "running", "exiting", "ended"}
                    /\ stops \in 0 .. Stops
<1> USE DEF sessionVars, adapterVars, editorVars, launchVars, resumeVars, endVars, programVars
<1>1. Types
  BY DEF SessionTypeOK
<1>2. CASE \/ \E f \in Files, lines \in SUBSET Lines : SetBreakPointsRequest(f, lines)
           \/ \E r \in RequestIds : SetStep(r)
           \/ \E r \in RequestIds, i \in Nat, verified \in BOOLEAN : BoundStep(r, i, verified)
           \/ ResumeStep
           \/ \E i \in Nat : ConfirmStep(i)
  <2>1. UNCHANGED <<editor, launchVars, resumeVars, endVars, programVars>>
    BY <1>2, QuietSteps
  <2>2. UNCHANGED stopOnEntry
    BY <1>2
       DEF SetBreakPointsRequest, SetStep, BoundStep, ResumeStep, ConfirmStep, MessageIs,
           TaskFrame
  <2> QED
    BY <1>1, <2>1, <2>2
<1>3. CASE ConfigurationDoneRequest
  <2>1. UNCHANGED <<launch, stopOnEntry, entryResponse, debuggerLoaded, endVars, programVars>>
    BY <1>3 DEF ConfigurationDoneRequest
  <2>2. \/ UNCHANGED resumeVars
        \/ resumeWaits' = FALSE /\ configurationDone' = "resolved"
    BY <1>3 DEF ConfigurationDoneRequest, ResolveConfigurationDone
  <2>3. resumeWaits' \in BOOLEAN /\ configurationDone' \in {"none", "pending", "resolved"}
    BY <1>1, <2>2
  <2> QED
    BY <1>1, <2>1, <2>3
<1>4. CASE \E r \in RequestIds : AnswerStep(r)
  <2>1. UNCHANGED <<launch, stopOnEntry, entryResponse, debuggerLoaded, endVars, programVars>>
    BY <1>4 DEF AnswerStep, TaskFrame
  <2>2. \/ UNCHANGED resumeVars
        \/ resumeWaits' = FALSE /\ configurationDone' = "resolved"
    BY <1>4 DEF AnswerStep, AnswerBreakpoints, ResolveConfigurationDone
  <2>3. resumeWaits' \in BOOLEAN /\ configurationDone' \in {"none", "pending", "resolved"}
    BY <1>1, <2>2
  <2> QED
    BY <1>1, <2>1, <2>3
<1>5. CASE LaunchRequest \/ LaunchFails
  <2>1. /\ UNCHANGED <<stopOnEntry, debuggerLoaded, resumeWaits, terminateEventSent, lastTimer,
                        crashed, stops>>
        /\ launch' = "starting" \/ launch' = "failed"
        /\ entryResponse' = TRUE \/ entryResponse' = entryResponse
        /\ pythonProcess' = TRUE \/ pythonProcess' = pythonProcess
        /\ configurationDone' = "pending" \/ configurationDone' = configurationDone
        /\ program' \in {"starting", "none", program}
    BY <1>5 DEF LaunchRequest, LaunchFails
  <2>2. entryResponse' \in BOOLEAN /\ pythonProcess' \in BOOLEAN
    BY <1>1, <2>1
  <2>3. /\ program' \in {"none", "starting", "entry", "hit", "running", "exiting", "ended"}
        /\ configurationDone' \in {"none", "pending", "resolved"}
    BY <1>1, <2>1
  <2> QED
    BY <1>1, <2>1, <2>2, <2>3
<1>6. CASE ContinueRequest \/ LastTimerFires \/ DataEvent \/ UNCHANGED sessionVars
  <2>1. /\ launch' = launch \/ launch' = "connected"
        /\ UNCHANGED <<stopOnEntry, entryResponse, debuggerLoaded, resumeVars, programVars,
                       pythonProcess, terminateEventSent, crashed>>
        /\ lastTimer' = lastTimer \/ lastTimer' = FALSE
    BY <1>6 DEF ContinueRequest, LastTimerFires, DataEvent
  <2>2. lastTimer' \in BOOLEAN /\ launch' \in {"none", "starting", "connected", "failed"}
    BY <1>1, <2>1
  <2> QED
    BY <1>1, <2>1, <2>2
<1>7. CASE DisconnectRequest \/ SocketCloses
  <2>1. /\ UNCHANGED <<editorVars, launchVars, resumeVars, lastTimer, crashed, stops>>
        /\ pythonProcess' = FALSE /\ terminateEventSent' = TRUE
        /\ program' = program \/ program' \in {"none", "ended"}
    BY <1>7 DEF DisconnectRequest, SocketCloses, StopDebugServer, KillProgram
  <2>2. pythonProcess' \in BOOLEAN /\ terminateEventSent' \in BOOLEAN
    BY <2>1
  <2>3. program' \in {"none", "starting", "entry", "hit", "running", "exiting", "ended"}
    BY <1>1, <2>1
  <2> QED
    BY <1>1, <2>1, <2>2, <2>3
<1>8. CASE ProgramConnects \/ ProgramObeys \/ ProgramRuns \/ ProgramExits
  <2>1. UNCHANGED adapterVars
    BY <1>8 DEF ProgramConnects, ProgramObeys, ProgramRuns, ProgramExits
  <2>2. program' \in {"none", "starting", "entry", "hit", "running", "exiting", "ended"}
    BY <1>1, <1>8 DEF ProgramConnects, ProgramObeys, ProgramRuns, ProgramExits
  <2>3. stops' \in 0 .. Stops
    BY <1>1, <1>8, BoundsAssumption DEF ProgramConnects, ProgramObeys, ProgramRuns, ProgramExits
  <2> QED
    BY <1>1, <2>1, <2>2, <2>3
<1>9. CASE LoadStep
  <2>1. UNCHANGED <<editorVars, launch, pythonProcess, programVars>>
    BY <1>9 DEF LoadStep, MessageIs
  <2>2. /\ UNCHANGED <<entryResponse, configurationDone, terminateEventSent, lastTimer, crashed>>
        /\ debuggerLoaded' = TRUE /\ resumeWaits' \in BOOLEAN
    BY <1>9 DEF LoadStep, HandleProcessLoad
  <2> QED
    BY <1>1, <2>1, <2>2
<1>10. CASE OutputStep \/ LastStep
  <2>1. UNCHANGED <<editorVars, launch, pythonProcess, programVars>>
    BY <1>10 DEF OutputStep, LastStep, MessageIs
  <2>2. /\ UNCHANGED <<resumeVars, crashed>>
        /\ debuggerLoaded' = debuggerLoaded \/ debuggerLoaded' = TRUE
        /\ entryResponse' = entryResponse \/ entryResponse' = FALSE
        /\ terminateEventSent' = terminateEventSent \/ terminateEventSent' = TRUE
        /\ lastTimer' = lastTimer \/ lastTimer' = TRUE
    BY <1>10 DEF OutputStep, LastStep, HandleDebuggerOutput, HandleLast
  <2>3. /\ debuggerLoaded' \in BOOLEAN /\ entryResponse' \in BOOLEAN
        /\ terminateEventSent' \in BOOLEAN /\ lastTimer' \in BOOLEAN
    BY <1>1, <2>2
  <2> QED
    BY <1>1, <2>1, <2>2, <2>3
<1>11. CASE \E i \in Nat : HitStep(i)
  <2>1. UNCHANGED <<editorVars, launch, pythonProcess, programVars>>
    BY <1>11 DEF HitStep, MessageIs
  <2>2. /\ UNCHANGED <<resumeVars, debuggerLoaded, entryResponse, terminateEventSent, lastTimer>>
        /\ crashed' = crashed \/ crashed' = TRUE
    BY <1>11 DEF HitStep, HandleBreakPointHit
  <2>3. crashed' \in BOOLEAN
    BY <1>1, <2>2
  <2> QED
    BY <1>1, <2>1, <2>2, <2>3
<1> QED
  BY <1>2, <1>3, <1>4, <1>5, <1>6, <1>7, <1>8, <1>9, <1>10, <1>11, StepCases DEF OtherStep

\* What the requests wait for changes when one is bound or a confirmation comes.
LEMMA ListCases ==
    ASSUME SessionTypeOK, QueuesFit, [SessionNext]_sessionVars
    PROVE  \/ UNCHANGED <<registeredBreakpointsByFileName, registeredBreakpoints, breakpointCommands, unsettled>>
           \/ \E r \in RequestIds : Binds(r, requests[r].file, requests[r].lines)
           \/ \E r \in RequestIds, i \in Nat, verified \in BOOLEAN : BoundStep(r, i, verified)
           \/ \E i \in Nat : ConfirmStep(i)
<1> DEFINE Rest == UNCHANGED <<registeredBreakpointsByFileName, registeredBreakpoints,
                               breakpointCommands, unsettled>>
<1> USE DEF registryVars, bindVars
<1>1. CASE OtherStep \/ (\E i \in Nat : HitStep(i)) \/ LastStep \/ UNCHANGED sessionVars
  BY <1>1, QueuesRest DEF queueVars
<1>2. CASE \E f \in Files, lines \in SUBSET Lines : SetBreakPointsRequest(f, lines)
  BY <1>2 DEF SetBreakPointsRequest
<1>3. CASE ConfigurationDoneRequest
  BY <1>3 DEF ConfigurationDoneRequest
<1>4. ASSUME NEW r \in RequestIds, SetStep(r)
      PROVE  Rest \/ Binds(r, requests[r].file, requests[r].lines)
  <2>1. CASE terminateEventSent
    BY <1>4, <2>1 DEF SetStep, SetBreakPoints
  <2>2. CASE ~terminateEventSent
    BY <1>4, <2>2, SetBinds
  <2> QED
    BY <2>1, <2>2
<1>5. CASE \E r \in RequestIds : AnswerStep(r)
  BY <1>5 DEF AnswerStep, AnswerBreakpoints
<1>6. CASE ResumeStep
  BY <1>6 DEF ResumeStep, ResumeAtEntry
<1>7. CASE LoadStep \/ OutputStep
  BY <1>7 DEF LoadStep, OutputStep, MessageIs, HandleProcessLoad, HandleDebuggerOutput
<1> QED
  BY <1>1, <1>2, <1>3, <1>4, <1>5, <1>6, <1>7, StepCases

\* The types of the lists.
LEMMA ListTypes ==
    ASSUME SessionTypeOK, QueuesFit, QueuesFit', [SessionNext]_sessionVars
    PROVE  /\ enabled' \subseteq Ids' /\ registeredBreakpoints' \subseteq Ids'
           /\ registeredBreakpointsByFileName' \in [Files -> Seq(Ids')]
           /\ breakpointCommands' \in Seq([Id : Ids', request : RequestIds])
           /\ unsettled' \in [RequestIds -> Nat]
<1> DEFINE C == [Id : Ids', request : RequestIds]
<1>1. /\ enabled \subseteq Ids /\ registeredBreakpointsByFileName \in [Files -> Seq(Ids)]
      /\ breakpointCommands \in Seq([Id : Ids, request : RequestIds])
      /\ unsettled \in [RequestIds -> Nat]
  BY DEF SessionTypeOK
<1>2. Ids \subseteq Ids' /\ Ids' \subseteq Nat
  BY BuiltStep
<1>3. \A f \in Files : registeredBreakpointsByFileName[f] \in Seq(Ids')
  BY <1>1, <1>2, SeqMonotonic
<1>4. registeredBreakpointsByFileName \in [Files -> Seq(Ids')]
  BY <1>1, <1>3
<1>5. breakpointCommands \in Seq(C)
  <2>1. [Id : Ids, request : RequestIds] \subseteq C
    BY <1>2
  <2> QED
    BY <1>1, <2>1, SeqMonotonic
<1> HIDE DEF C
<1>6. ASSUME NEW r \in RequestIds, Binds(r, requests[r].file, requests[r].lines)
      PROVE  /\ enabled' \subseteq Ids' /\ breakpointCommands' \in Seq(C)
             /\ unsettled' \in [RequestIds -> Nat]
             /\ UNCHANGED <<registeredBreakpoints, registeredBreakpointsByFileName>>
  <2> DEFINE bound == BoundBy(requests[r].file, requests[r].lines)
             removed == RemovedBy(requests[r].file, requests[r].lines)
             new == CommandsOf(bound, r)
  <2>1. /\ microtasks # <<>> /\ Head(microtasks) = <<"set", r>>
        /\ breakpoints' = Built(requests[r].file, requests[r].lines)
        /\ enabled' = (enabled \union Range(bound)) \ Range(removed)
        /\ breakpointCommands' = breakpointCommands \o new
        /\ unsettled' = [unsettled EXCEPT ![r] = Len(bound)]
        /\ UNCHANGED <<registeredBreakpoints, registeredBreakpointsByFileName>>
    BY <1>6 DEF Binds, CommandsOf
  <2>2. requests[r].file \in Files /\ requests[r].lines \in SUBSET Lines /\ RegistriesAgree
    BY <2>1, SetFacts DEF QueuesFit
  <2>3. bound \in Seq(Ids')
    BY <2>1, <2>2, BoundProperties DEF Ids
  <2> HIDE DEF bound, removed
  <2>4. Range(bound) \subseteq Ids' /\ Len(bound) \in Nat
    BY <2>3, RangeOfSeq, LenProperties
  <2>5. new \in Seq(C)
    <3> DEFINE ids == Ids'
    <3>1. ids \in SUBSET Nat /\ bound \in Seq(ids)
      BY <1>2, <2>3
    <3> HIDE DEF ids
    <3>2. new \in Seq([Id : ids, request : RequestIds])
      BY <3>1, NewCommands
    <3> QED
      BY <3>2 DEF ids, C
  <2> HIDE DEF new
  <2>6. breakpointCommands' \in Seq(C)
    BY <1>5, <2>1, <2>5, ConcatProperties
  <2> QED
    BY <1>1, <1>2, <2>1, <2>4, <2>6
<1>7. ASSUME NEW r \in RequestIds, NEW i \in Nat, NEW verified \in BOOLEAN, BoundStep(r, i, verified)
      PROVE  /\ registeredBreakpointsByFileName' \in [Files -> Seq(Ids')]
             /\ unsettled' \in [RequestIds -> Nat]
             /\ UNCHANGED breakpointCommands
  <2> DEFINE f == requests[r].file
  <2>1. /\ microtasks # <<>> /\ Head(microtasks) = <<"bound", r, i, verified>>
        /\ registeredBreakpointsByFileName' = [registeredBreakpointsByFileName EXCEPT ![f] = Append(@, i)]
        /\ unsettled' = [unsettled EXCEPT ![r] = @ - 1]
        /\ UNCHANGED <<breakpoints, breakpointCommands>>
    BY <1>7 DEF BoundStep, TaskRuns, BreakpointBound, Registers
  <2>2. microtasks \in Seq(Tasks)
    BY DEF QueuesFit, TasksFit
  <2>3. <<"bound", r, i, verified>> \in Range(microtasks)
    BY <2>1, <2>2, RangeTail
  <2>4. i \in Ids
    BY <2>3 DEF QueuesFit, TasksFit
  <2>5. registeredBreakpointsByFileName' \in [Files -> Seq(Ids')]
    <3>1. \A g \in Files : Append(registeredBreakpointsByFileName[g], i) \in Seq(Ids')
      BY <1>2, <1>3, <2>4, AppendProperties
    <3> QED
      BY <1>4, <2>1, <3>1
  <2>6. unsettled[r] = Count(breakpointCommands, BindCommands(r)) + Count(microtasks, BindTasks(r))
    BY DEF QueuesFit, Awaits
  <2>7. Count(breakpointCommands, BindCommands(r)) \in Nat /\ Count(microtasks, BindTasks(r)) \in Nat
    BY <1>5, <2>2, CountType
  <2>8. Count(microtasks, BindTasks(r)) > 0
    <3>1. <<"bound", r, i, verified>> \in BindTasks(r)
      BY BindTasksOf
    <3> QED
      BY <2>2, <2>3, <3>1, CountInRange
  <2>9. unsettled[r] - 1 \in Nat
    BY <2>6, <2>7, <2>8
  <2> QED
    BY <1>1, <2>1, <2>5, <2>9
<1>8. ASSUME NEW i \in Nat, ConfirmStep(i)
      PROVE  /\ UNCHANGED <<registeredBreakpointsByFileName, unsettled>>
             /\ breakpointCommands' \in Seq(C)
  <2>1. UNCHANGED <<registeredBreakpointsByFileName, unsettled>>
    BY <1>8 DEF ConfirmStep, MessageIs, registryVars
  <2> DEFINE ks == {k \in DOMAIN breakpointCommands : breakpointCommands[k].Id = i}
  <2>2. \/ UNCHANGED breakpointCommands
        \/ ks # {} /\ breakpointCommands' = RemoveAt(breakpointCommands, Min(ks))
    BY <1>8 DEF ConfirmStep, HandleBreakPointSet, TakeCommand
  <2>3. ASSUME ks # {}
        PROVE  Min(ks) \in 1 .. Len(breakpointCommands)
    <3>1. DOMAIN breakpointCommands = 1 .. Len(breakpointCommands) /\ Len(breakpointCommands) \in Nat
      BY <1>5, LenProperties
    <3>2. ks \in SUBSET Nat /\ ks \subseteq 1 .. Len(breakpointCommands)
      BY <3>1
    <3> HIDE DEF ks
    <3> QED
      BY <2>3, <3>2, MinProperties
  <2> HIDE DEF ks
  <2>4. ks # {} => RemoveAt(breakpointCommands, Min(ks)) \in Seq(C)
    BY <1>5, <2>3, RemoveAtProperties
  <2> QED
    BY <1>5, <2>1, <2>2, <2>4
<1>9. enabled' \subseteq Ids'
  BY <1>1, <1>2, <1>6, RegistryRest
<1>10. /\ registeredBreakpointsByFileName' \in [Files -> Seq(Ids')]
       /\ breakpointCommands' \in Seq(C)
       /\ unsettled' \in [RequestIds -> Nat]
  BY <1>1, <1>4, <1>5, <1>6, <1>7, <1>8, ListCases
<1>11. registeredBreakpoints' \subseteq Ids'
  <2>1. registeredBreakpoints' = UNION {Range(registeredBreakpointsByFileName'[f]) : f \in Files}
    BY DEF QueuesFit, RegistriesAgree
  <2>2. \A f \in Files : Range(registeredBreakpointsByFileName'[f]) \subseteq Ids'
    BY <1>10, RangeOfSeq
  <2> QED
    BY <2>1, <2>2
<1> QED
  BY <1>9, <1>10, <1>11 DEF C

\* The messages of the data event that are left.
LEMMA BatchType ==
    ASSUME SessionTypeOK, QueuesFit, LoadComesFirst, WireFits, [SessionNext]_sessionVars
    PROVE  batch' \in 0 .. Len(toAdapter')
<1> USE DEF sessionVars, adapterVars
<1>1. /\ toAdapter \in Seq(Messages \X Nat) /\ batch \in 0 .. Len(toAdapter) /\ Len(toAdapter) \in Nat
      /\ \A kind \in Messages, i \in Nat : <<kind, i>> \in Messages \X Nat
  BY WireType, LenProperties DEF SessionTypeOK
<1> DEFINE M == Messages \X Nat
<1>2. \A kind \in Messages, i \in Nat :
         Len(Append(toAdapter, <<kind, i>>)) = Len(toAdapter) + 1
  BY <1>1, AppendProperties
<1>3. ASSUME UNCHANGED batch,
             UNCHANGED toAdapter \/ \E kind \in Messages, i \in Nat : toAdapter' = Append(toAdapter, <<kind, i>>)
      PROVE  batch' \in 0 .. Len(toAdapter')
  BY <1>1, <1>2, <1>3
<1>4. CASE \/ \E f \in Files, lines \in SUBSET Lines : SetBreakPointsRequest(f, lines)
           \/ \E r \in RequestIds : SetStep(r) \/ AnswerStep(r)
           \/ \E r \in RequestIds, i \in Nat, verified \in BOOLEAN : BoundStep(r, i, verified)
           \/ ResumeStep \/ ConfigurationDoneRequest
  <2>1. UNCHANGED batch
    BY <1>4 DEF SetBreakPointsRequest, SetStep, AnswerStep, BoundStep, ResumeStep, TaskFrame,
                ConfigurationDoneRequest
  <2> QED
    BY <1>3, <1>4, <2>1, QuietWire
<1>5. CASE LaunchRequest \/ LaunchFails \/ ContinueRequest \/ LastTimerFires \/ UNCHANGED sessionVars
  BY <1>3, <1>5 DEF LaunchRequest, LaunchFails, ContinueRequest, LastTimerFires
<1>6. CASE DisconnectRequest
  <2>1. UNCHANGED batch /\ KillProgram
    BY <1>6 DEF DisconnectRequest, StopDebugServer
  <2>2. "CLOSE" \in Messages
    BY DEF Messages
  <2> QED
    BY <1>3, <2>1, <2>2 DEF KillProgram
<1>7. CASE SocketCloses
  <2>1. UNCHANGED batch /\ batch = 0 /\ toAdapter # <<>> /\ toAdapter' = Tail(toAdapter)
    BY <1>7 DEF SocketCloses, StopDebugServer, EventLoopIdle
  <2>2. Tail(toAdapter) \in Seq(M)
    BY <1>1, <2>1, RangeTail
  <2>3. Len(toAdapter') \in Nat
    BY <2>1, <2>2, LenProperties
  <2> QED
    BY <2>1, <2>3
<1>8. CASE DataEvent
  <2>1. UNCHANGED toAdapter /\ batch' \in 1 .. Len(toAdapter)
    BY <1>8 DEF DataEvent
  <2> QED
    BY <1>1, <2>1
<1>9. CASE LoadStep \/ OutputStep \/ LastStep \/ \E i \in Nat : ConfirmStep(i) \/ HitStep(i)
  <2>1. batch > 0 /\ toAdapter # <<>> /\ batch' = batch - 1 /\ toAdapter' = Tail(toAdapter)
    BY <1>9 DEF LoadStep, OutputStep, LastStep, ConfirmStep, HitStep, MessageIs
  <2>2. Len(Tail(toAdapter)) = Len(toAdapter) - 1
    BY <1>1, <2>1, HeadAndTail
  <2> DEFINE n == Len(toAdapter)
  <2>3. n \in Nat /\ batch \in 0 .. n /\ batch > 0 /\ Len(toAdapter') = n - 1
    BY <1>1, <2>1, <2>2
  <2>4. batch' = batch - 1
    BY <2>1
  <2> HIDE DEF n
  <2> QED
    BY <2>3, <2>4
<1>10. CASE ProgramConnects
  <2>1. UNCHANGED batch /\ toAdapter = <<>>
    BY <1>10 DEF ProgramConnects, LoadComesFirst
  <2>2. batch = 0
    BY <1>1, <2>1
  <2>3. toAdapter' \in Seq(MessagesOn(Ids'))
    BY WireStep
  <2>4. Len(toAdapter') \in Nat
    BY <2>3, LenProperties
  <2> QED
    BY <2>1, <2>2, <2>4
<1>11. CASE ProgramObeys \/ ProgramRuns \/ ProgramExits
  <2>1. UNCHANGED batch
    BY <1>11 DEF ProgramObeys, ProgramRuns, ProgramExits
  <2>2. \/ UNCHANGED toAdapter
        \/ \E kind \in Messages, i \in Nat : toAdapter' = Append(toAdapter, <<kind, i>>)
    BY <1>11, Sends DEF ProgramExits, Messages
  <2> QED
    BY <1>3, <2>1, <2>2
<1> QED
  BY <1>4, <1>5, <1>6, <1>7, <1>8, <1>9, <1>10, <1>11, StepCases DEF OtherStep

\* Every step keeps the types, and what is on the wire.
LEMMA TypeStep ==
    ASSUME SessionTypeOK, QueuesFit, WireFits, Lifecycle, [SessionNext]_sessionVars
    PROVE  SessionTypeOK' /\ WireFits'
<1>1. LoadComesFirst
  BY DEF Lifecycle
<1>2. QueuesFit' /\ Lifecycle' /\ editor' \in Numbers
  BY <1>1, QueuesStep, LifecycleStep
<1>3. /\ toProgram' \in Seq({"bind", "disable", "resume"} \X (Ids' \union {0}))
      /\ toAdapter' \in Seq(Messages \X (Ids' \union {0}))
      /\ WireFits' /\ active' \subseteq Ids'
  <2>1. /\ toProgram' \in Seq(CommandsOn(Ids')) /\ toAdapter' \in Seq(MessagesOn(Ids'))
        /\ active' \subseteq Ids'
    BY WireStep
  <2>2. /\ toProgram' \in Seq({"bind", "disable", "resume"} \X (Ids' \union {0}))
        /\ \A command \in Range(toProgram') : command[1] \in {"bind", "disable"} => command[2] \in Ids'
        /\ toAdapter' \in Seq(Messages \X (Ids' \union {0}))
        /\ \A message \in Range(toAdapter') :
              message[1] \in {"BRKS", "BRKF", "BRKH"} => message[2] \in Ids'
    BY <2>1, WireTypes
  <2> QED
    BY <2>1, <2>2 DEF WireFits
<1>4. editor' \in [stopped : BOOLEAN, launched : 0 .. 3, terminated : 0 .. 3, gone : BOOLEAN]
  <2>1. editor'.launched + StartsLeft' <= 3 /\ editor'.terminated + EndsLeft' <= 3
    BY <1>2 DEF Lifecycle, Told
  <2>2. StartsLeft' \in Nat /\ EndsLeft' \in Nat
    BY DEF StartsLeft, EndsLeft
  <2>3. editor'.launched \in Nat /\ editor'.terminated \in Nat
    BY <1>2 DEF Numbers
  <2>4. editor'.launched \in 0 .. 3 /\ editor'.terminated \in 0 .. 3
    BY <2>1, <2>2, <2>3
  <2> QED
    BY <1>2, <2>4 DEF Numbers
<1>5. \A k \in DOMAIN (microtasks') : microtasks'[k][1] \in {"set", "bound", "answer", "resume"}
  <2>1. microtasks' \in Seq(Tasks)
    BY <1>2 DEF QueuesFit, TasksFit
  <2>2. \A k \in DOMAIN (microtasks') : microtasks'[k] \in Tasks
    BY <2>1
  <2>3. \A task \in Tasks : task[1] \in {"set", "bound", "answer", "resume"}
    BY DEF Tasks
  <2> QED
    BY <2>2, <2>3
<1>6. /\ requests' \in Seq([file : Files, lines : SUBSET Lines])
      /\ stage' \in [RequestIds -> {"unsent", "waiting", "binding", "answered"}]
      /\ overlapped' \subseteq Files
      /\ configurationSent' \in BOOLEAN
  BY RequestTypes
<1>7. /\ launch' \in {"none", "starting", "connected", "failed"}
      /\ {stopOnEntry, entryResponse, debuggerLoaded, resumeWaits, pythonProcess,
          terminateEventSent, lastTimer, crashed}' \subseteq BOOLEAN
      /\ configurationDone' \in {"none", "pending", "resolved"}
      /\ program' \in {"none", "starting", "entry", "hit", "running", "exiting", "ended"}
      /\ stops' \in 0 .. Stops
  BY FlagTypes
<1>8. /\ enabled' \subseteq Ids' /\ registeredBreakpoints' \subseteq Ids'
      /\ registeredBreakpointsByFileName' \in [Files -> Seq(Ids')]
      /\ breakpointCommands' \in Seq([Id : Ids', request : RequestIds])
      /\ unsettled' \in [RequestIds -> Nat]
  BY <1>2, ListTypes
<1>9. breakpoints' \in Seq([file : Files, line : Lines])
  BY BuiltStep
<1>10. batch' \in 0 .. Len(toAdapter')
  BY <1>1, BatchType
<1> QED
  BY <1>3, <1>4, <1>5, <1>6, <1>7, <1>8, <1>9, <1>10 DEF SessionTypeOK

-----------------------------------------------------------------------------
(* The requests for a file, one after the other.                           *)

\* A session that is over stays so.
LEMMA StaysOver ==
    ASSUME SessionTypeOK, QueuesFit, [SessionNext]_sessionVars, terminateEventSent
    PROVE  terminateEventSent'
<1> USE DEF sessionVars, adapterVars, endVars
<1>1. CASE \/ \E f \in Files, lines \in SUBSET Lines : SetBreakPointsRequest(f, lines)
           \/ \E r \in RequestIds : SetStep(r)
           \/ \E r \in RequestIds, i \in Nat, verified \in BOOLEAN : BoundStep(r, i, verified)
           \/ ResumeStep
           \/ \E i \in Nat : ConfirmStep(i)
  <2>1. UNCHANGED endVars
    BY <1>1, QuietSteps
  <2> QED
    BY <2>1
<1>2. CASE ConfigurationDoneRequest \/ \E r \in RequestIds : AnswerStep(r)
  BY <1>2 DEF ConfigurationDoneRequest, AnswerStep, TaskFrame
<1>3. CASE LaunchRequest \/ LaunchFails \/ ContinueRequest \/ LastTimerFires \/ DataEvent
  BY <1>3 DEF LaunchRequest, LaunchFails, ContinueRequest, LastTimerFires, DataEvent
<1>4. CASE DisconnectRequest \/ SocketCloses
  BY <1>4 DEF DisconnectRequest, SocketCloses, StopDebugServer
<1>5. CASE ProgramConnects \/ ProgramObeys \/ ProgramRuns \/ ProgramExits
  BY <1>5 DEF ProgramConnects, ProgramObeys, ProgramRuns, ProgramExits
<1>6. CASE LoadStep \/ OutputStep
  BY <1>6 DEF LoadStep, OutputStep, HandleProcessLoad, HandleDebuggerOutput
<1>7. CASE LastStep \/ \E i \in Nat : HitStep(i)
  BY <1>7 DEF LastStep, HandleLast, HitStep, HandleBreakPointHit
<1>8. CASE UNCHANGED sessionVars
  BY <1>8
<1> QED
  BY <1>1, <1>2, <1>3, <1>4, <1>5, <1>6, <1>7, <1>8, StepCases DEF OtherStep

\* Nothing happens to the requests and the breakpoints.
LEMMA InTurnKept ==
    ASSUME InTurn, UNCHANGED <<requests, overlapped, stage, breakpoints, enabled>>,
           terminateEventSent => terminateEventSent'
    PROVE  InTurn'
<1> SUFFICES ASSUME NEW f \in Files \ overlapped'
             PROVE  OneOpen(f)' /\ OneForLine(f)' /\ EnabledFits(f)'
  BY DEF InTurn
<1>1. OneOpen(f) /\ OneForLine(f) /\ EnabledFits(f)
  BY DEF InTurn
<1>2. OneOpen(f)'
  BY <1>1 DEF OneOpen
<1>3. OneForLine(f)'
  BY <1>1 DEF OneForLine, Ids
<1>4. EnabledFits(f)'
  <2>1. LinesOf(enabled, f)' = LinesOf(enabled, f)
    BY DEF LinesOf
  <2> QED
    BY <1>1, <2>1 DEF EnabledFits
<1> QED
  BY <1>2, <1>3, <1>4

\* A request is sent: it is the only one for its file that is open, or the file is one
\* with overlapping requests.
LEMMA InTurnSent ==
    ASSUME SessionTypeOK, QueuesFit, InTurn, NEW g \in Files, NEW lines \in SUBSET Lines,
           SetBreakPointsRequest(g, lines)
    PROVE  InTurn'
<1> DEFINE n == Len(requests)
           r == Len(requests) + 1
           new == [file |-> g, lines |-> lines]
<1>1. /\ requests \in Seq([file : Files, lines : SUBSET Lines])
      /\ stage \in [RequestIds -> {"unsent", "waiting", "binding", "answered"}]
  BY DEF SessionTypeOK
<1>2. /\ n < Requests /\ requests' = Append(requests, new)
      /\ stage' = [stage EXCEPT ![r] = "waiting"]
      /\ overlapped' = IF \E q \in DOMAIN requests : requests[q].file = g /\ stage[q] # "answered"
                       THEN overlapped \union {g} ELSE overlapped
      /\ UNCHANGED <<breakpoints, enabled, terminateEventSent>>
  BY DEF SetBreakPointsRequest, registryVars, endVars
<1>3. n \in Nat /\ DOMAIN requests = 1 .. n
  BY <1>1, LenProperties
<1>4. new \in [file : Files, lines : SUBSET Lines]
  OBVIOUS
<1>5. /\ requests' \in Seq([file : Files, lines : SUBSET Lines])
      /\ Len(requests') = n + 1
      /\ \A q \in 1 .. n : requests'[q] = requests[q]
      /\ requests'[n + 1] = new
  BY <1>1, <1>2, <1>4, AppendProperties
<1>6. DOMAIN (requests') = 1 .. n + 1
  BY <1>5, LenProperties
<1>7. r \in RequestIds /\ \A q \in 1 .. n : q \in RequestIds /\ q # r
  BY <1>2, <1>3, BoundsAssumption DEF RequestIds
<1>8. stage'[r] = "waiting" /\ \A q \in 1 .. n : stage'[q] = stage[q]
  BY <1>1, <1>2, <1>7
<1>9. requests'[r].file = g
  BY <1>5
<1> HIDE DEF n, r, new
<1>10. \A q \in 1 .. n + 1 : q \in 1 .. n \/ q = r
  BY <1>3 DEF r, n
<1>11. r = n + 1 /\ r \in 1 .. n + 1 /\ \A q \in 1 .. n : q < r /\ q \in 1 .. n + 1
  BY <1>3 DEF r, n
<1> SUFFICES ASSUME NEW f \in Files, f \notin overlapped'
             PROVE  OneOpen(f)' /\ OneForLine(f)' /\ EnabledFits(f)'
  BY DEF InTurn
<1>12. /\ f \notin overlapped
       /\ f = g => \A q \in 1 .. n : requests[q].file = g => stage[q] = "answered"
  BY <1>2, <1>3
<1>13. OneOpen(f) /\ OneForLine(f) /\ EnabledFits(f)
  BY <1>12 DEF InTurn
<1>14. OneOpen(f)'
  <2> SUFFICES ASSUME NEW p \in 1 .. n + 1, NEW q \in 1 .. n + 1, p < q,
                      requests'[p].file = f, requests'[q].file = f
               PROVE  stage'[p] = "answered"
    BY <1>6 DEF OneOpen
  <2>1. p \in 1 .. n
    BY <1>3, <1>10, <1>11
  <2>2. CASE q \in 1 .. n
    BY <1>3, <1>5, <1>8, <1>13, <2>1, <2>2 DEF OneOpen
  <2>3. CASE q = r
    BY <1>5, <1>8, <1>9, <1>12, <2>1, <2>3
  <2> QED
    BY <1>10, <2>2, <2>3
<1>15. OneForLine(f)'
  BY <1>2, <1>13 DEF OneForLine, Ids
<1>16. EnabledFits(f)'
  <2>1. LinesOf(enabled, f)' = LinesOf(enabled, f)
    BY <1>2 DEF LinesOf
  <2> SUFFICES ASSUME NEW p \in 1 .. n + 1, requests'[p].file = f,
                      stage'[p] \in {"binding", "answered"},
                      \A q \in 1 .. n + 1 : requests'[q].file = f => q <= p,
                      ~terminateEventSent'
               PROVE  LinesOf(enabled, f)' = requests'[p].lines
    BY <1>6 DEF EnabledFits
  <2>2. p \in 1 .. n
    BY <1>8, <1>10
  <2>3. requests'[p] = requests[p] /\ stage'[p] = stage[p] /\ ~terminateEventSent
    BY <1>2, <1>5, <1>8, <2>2
  <2>4. \A q \in 1 .. n : requests[q].file = f => q <= p
    BY <1>5, <1>11
  <2> QED
    BY <1>3, <1>13, <2>1, <2>2, <2>3, <2>4 DEF EnabledFits
<1> QED
  BY <1>14, <1>15, <1>16

\* A request is answered.
LEMMA InTurnAnswered ==
    ASSUME SessionTypeOK, QueuesFit, InTurn, NEW r \in RequestIds,
           stage' = [stage EXCEPT ![r] = "answered"],
           UNCHANGED <<requests, overlapped, breakpoints, enabled, terminateEventSent>>,
           stage[r] = "binding" \/ terminateEventSent
    PROVE  InTurn'
<1>1. \A q \in RequestIds : stage'[q] = IF q = r THEN "answered" ELSE stage[q]
  BY DEF SessionTypeOK
<1>2. DOMAIN requests \subseteq RequestIds
  <2>1. DOMAIN requests = 1 .. Len(requests) /\ Len(requests) \in Nat /\ Len(requests) <= Requests
    BY LenProperties DEF SessionTypeOK, QueuesFit, Sent
  <2> QED
    BY <2>1, BoundsAssumption DEF RequestIds
<1> SUFFICES ASSUME NEW f \in Files, f \notin overlapped
             PROVE  OneOpen(f)' /\ OneForLine(f)' /\ EnabledFits(f)'
  BY DEF InTurn
<1>3. OneOpen(f) /\ OneForLine(f) /\ EnabledFits(f)
  BY DEF InTurn
<1>4. OneOpen(f)'
  BY <1>1, <1>2, <1>3 DEF OneOpen
<1>5. OneForLine(f)'
  BY <1>3 DEF OneForLine, Ids
<1>6. EnabledFits(f)'
  <2>1. LinesOf(enabled, f)' = LinesOf(enabled, f)
    BY DEF LinesOf
  <2> SUFFICES ASSUME NEW p \in DOMAIN requests, requests[p].file = f,
                      stage'[p] \in {"binding", "answered"},
                      \A q \in DOMAIN requests : requests[q].file = f => q <= p,
                      ~terminateEventSent
               PROVE  LinesOf(enabled, f)' = requests[p].lines
    BY DEF EnabledFits
  <2>2. stage[p] \in {"binding", "answered"}
    BY <1>1, <1>2
  <2> QED
    BY <1>3, <2>1, <2>2 DEF EnabledFits
<1> QED
  BY <1>4, <1>5, <1>6

\* When the only open request of a file is bound all its breakpoints are registered.
LEMMA AllRegistered ==
    ASSUME SessionTypeOK, QueuesFit, NEW r \in RequestIds, microtasks # <<>>,
           Head(microtasks) = <<"set", r>>, OneOpen(requests[r].file),
           \A q \in DOMAIN requests : requests[q].file = requests[r].file => q <= r,
           NEW i \in Ids, breakpoints[i].file = requests[r].file
    PROVE  i \in Range(registeredBreakpointsByFileName[requests[r].file])
<1> DEFINE f == requests[r].file
<1>1. /\ stage[r] = "waiting" /\ f \in Files /\ r \in DOMAIN requests
  BY SetFacts
<1>2. ASSUME NEW q \in RequestIds, stage[q] = "binding", requests[q].file = f
      PROVE  FALSE
  <2>1. stage[q] # "unsent"
    BY <1>2
  <2>2. q \in DOMAIN requests
    BY <2>1, RequestType DEF QueuesFit
  <2>3. q <= r /\ q # r
    BY <1>1, <1>2, <2>2
  <2>4. q \in Int /\ r \in Int
    BY BoundsAssumption DEF RequestIds
  <2>5. q < r
    BY <2>3, <2>4
  <2>6. stage[q] = "answered"
    BY <1>1, <1>2, <2>2, <2>5 DEF OneOpen
  <2> QED
    BY <1>2, <2>6
<1>3. i \in registeredBreakpoints
  <2>1. ASSUME NEW command \in Range(breakpointCommands), command.Id = i
        PROVE  FALSE
    <3>1. breakpointCommands \in Seq([Id : Ids, request : RequestIds])
      BY DEF SessionTypeOK
    <3>2. command.request \in RequestIds
      <4>1. Range(breakpointCommands) \subseteq [Id : Ids, request : RequestIds]
        BY <3>1, RangeOfSeq
      <4> QED
        BY <4>1
    <3>3. stage[command.request] = "binding" /\ requests[command.request].file = f
      BY <2>1 DEF QueuesFit, CommandsFit
    <3> QED
      BY <1>2, <3>2, <3>3
  <2>2. ASSUME NEW q \in RequestIds, NEW verified \in BOOLEAN,
               <<"bound", q, i, verified>> \in Range(microtasks)
        PROVE  FALSE
    <3>1. i \in Nat
      BY IdsType DEF SessionTypeOK
    <3>2. stage[q] = "binding" /\ requests[q].file = f
      BY <2>2, <3>1 DEF QueuesFit, TasksFit
    <3> QED
      BY <1>2, <3>2
  <2> QED
    BY <2>1, <2>2 DEF QueuesFit, BuiltAreKnown
<1>4. PICK g \in Files : i \in Range(registeredBreakpointsByFileName[g])
  BY <1>3 DEF QueuesFit, RegistriesAgree
<1>5. breakpoints[i].file = g
  BY <1>4 DEF QueuesFit, RegistriesAgree
<1> QED
  BY <1>4, <1>5

\* A request is bound: the other files keep what they have.
LEMMA OthersBound ==
    ASSUME SessionTypeOK, QueuesFit, NEW r \in RequestIds, NEW f, NEW lines,
           f = requests[r].file, lines = requests[r].lines, Binds(r, f, lines),
           UNCHANGED terminateEventSent, NEW g \in Files, g # f,
           OneOpen(g), OneForLine(g), EnabledFits(g)
    PROVE  OneOpen(g)' /\ OneForLine(g)' /\ EnabledFits(g)'
<1>1. /\ microtasks # <<>> /\ Head(microtasks) = <<"set", r>>
      /\ breakpoints' = Built(f, lines)
      /\ enabled' = (enabled \union Range(BoundBy(f, lines))) \ Range(RemovedBy(f, lines))
      /\ stage' = [stage EXCEPT ![r] = "binding"]
      /\ requests' = requests
  BY DEF Binds
<1>2. f \in Files /\ lines \in SUBSET Lines
  BY <1>1, SetFacts
<1>3. \A q \in RequestIds : q # r => stage'[q] = stage[q]
  BY <1>1 DEF SessionTypeOK
<1>4. DOMAIN requests \subseteq RequestIds
  <2>1. DOMAIN requests = 1 .. Len(requests) /\ Len(requests) \in Nat /\ Len(requests) <= Requests
    BY LenProperties DEF SessionTypeOK, QueuesFit, Sent
  <2> QED
    BY <2>1, BoundsAssumption DEF RequestIds
<1>5. OneOpen(g)'
  BY <1>1, <1>3, <1>4 DEF OneOpen
<1>6. /\ Ids \subseteq Ids'
      /\ \A i \in Ids : breakpoints'[i] = breakpoints[i]
      /\ \A i \in Ids' \ Ids : breakpoints'[i].file = f
  <2>1. BuiltFits(f, lines)
    BY <1>2, BuiltProperties
  <2>2. Ids' = DOMAIN Built(f, lines)
    BY <1>1 DEF Ids
  <2> QED
    BY <1>1, <2>1, <2>2 DEF BuiltFits
<1>7. \A i \in Ids' : breakpoints'[i].file = g => i \in Ids /\ breakpoints[i].file = g
  BY <1>6
<1>8. OneForLine(g)'
  BY <1>6, <1>7 DEF OneForLine
<1>9. \A i : breakpoints'[i].file = g /\ i \in enabled' <=> breakpoints[i].file = g /\ i \in enabled
  <2>1. \A i \in Range(BoundBy(f, lines)) : Built(f, lines)[i].file = f
    BY <1>2, BoundProperties DEF QueuesFit
  <2>2. \A i \in Range(RemovedBy(f, lines)) : breakpoints[i].file = f
    BY <1>2, RemovedProperties DEF QueuesFit
  <2>3. enabled \subseteq Ids
    BY DEF SessionTypeOK
  <2>4. ASSUME NEW i, breakpoints'[i].file = g, i \in enabled'
        PROVE  breakpoints[i].file = g /\ i \in enabled
    <3>1. i \notin Range(BoundBy(f, lines))
      BY <1>1, <2>1, <2>4
    <3>2. i \in enabled
      BY <1>1, <2>4, <3>1
    <3> QED
      BY <1>6, <2>3, <2>4, <3>2
  <2>5. ASSUME NEW i, breakpoints[i].file = g, i \in enabled
        PROVE  breakpoints'[i].file = g /\ i \in enabled'
    <3>1. i \notin Range(RemovedBy(f, lines))
      BY <2>2, <2>5
    <3>2. i \in enabled'
      BY <1>1, <2>5, <3>1
    <3> QED
      BY <1>6, <2>3, <2>5, <3>2
  <2> QED
    BY <2>4, <2>5
<1>10. LinesOf(enabled, g)' = LinesOf(enabled, g)
  <2>1. {j \in enabled' : breakpoints'[j].file = g} = {j \in enabled : breakpoints[j].file = g}
    BY <1>9
  <2>2. \A j \in {j \in enabled : breakpoints[j].file = g} : breakpoints'[j].line = breakpoints[j].line
    BY <1>6 DEF SessionTypeOK
  <2> QED
    BY <2>1, <2>2 DEF LinesOf
<1>11. EnabledFits(g)'
  <2> SUFFICES ASSUME NEW p \in DOMAIN requests, requests[p].file = g,
                      stage'[p] \in {"binding", "answered"},
                      \A q \in DOMAIN requests : requests[q].file = g => q <= p,
                      ~terminateEventSent
               PROVE  LinesOf(enabled, g)' = requests[p].lines
    BY <1>1 DEF EnabledFits
  <2>1. p # r /\ stage[p] \in {"binding", "answered"}
    BY <1>3, <1>4
  <2> QED
    BY <1>10, <2>1 DEF EnabledFits
<1> QED
  BY <1>5, <1>8, <1>11

\* Its own file has one breakpoint for a line still, and those it asked for are enabled.
LEMMA OwnBound ==
    ASSUME SessionTypeOK, QueuesFit, NEW r \in RequestIds, NEW f, NEW lines,
           f = requests[r].file, lines = requests[r].lines, Binds(r, f, lines),
           OneOpen(f), OneForLine(f)
    PROVE  OneOpen(f)' /\ OneForLine(f)' /\ EnabledFits(f)'
<1>1. /\ microtasks # <<>> /\ Head(microtasks) = <<"set", r>>
      /\ breakpoints' = Built(f, lines)
      /\ enabled' = (enabled \union Range(BoundBy(f, lines))) \ Range(RemovedBy(f, lines))
      /\ stage' = [stage EXCEPT ![r] = "binding"]
      /\ requests' = requests
  BY DEF Binds
<1>2. f \in Files /\ lines \in SUBSET Lines /\ stage[r] = "waiting" /\ r \in DOMAIN requests
  BY <1>1, SetFacts
<1>3. \A q \in RequestIds : q # r => stage'[q] = stage[q]
  BY <1>1 DEF SessionTypeOK
<1>4. DOMAIN requests \subseteq RequestIds /\ DOMAIN requests \subseteq Int
  <2>1. DOMAIN requests = 1 .. Len(requests) /\ Len(requests) \in Nat /\ Len(requests) <= Requests
    BY LenProperties DEF SessionTypeOK, QueuesFit, Sent
  <2> QED
    BY <2>1, BoundsAssumption DEF RequestIds
<1>5. \A q \in DOMAIN requests : requests[q].file = f => q <= r
  <2>1. ASSUME NEW q \in DOMAIN requests, requests[q].file = f, r < q
        PROVE  FALSE
    BY <1>2, <2>1 DEF OneOpen
  <2> QED
    BY <1>2, <1>4, <2>1
<1>6. OneOpen(f)'
  <2> SUFFICES ASSUME NEW p \in DOMAIN requests, NEW q \in DOMAIN requests, p < q,
                      requests[p].file = f, requests[q].file = f
               PROVE  stage'[p] = "answered"
    BY <1>1 DEF OneOpen
  <2>1. p # r
    BY <1>4, <1>5
  <2> QED
    BY <1>3, <1>4, <2>1 DEF OneOpen
<1> DEFINE list == registeredBreakpointsByFileName[f]
<1>7. \A i \in Ids : breakpoints[i].file = f => i \in Range(list)
  BY <1>1, <1>5, AllRegistered
<1>8. BuiltFits(f, lines) /\ Ids' = DOMAIN Built(f, lines)
  BY <1>1, <1>2, BuiltProperties DEF Ids
<1>9. ASSUME NEW i \in Ids, breakpoints[i].file = f
      PROVE  breakpoints[i].line \notin NewLines(f, lines)
  <2>1. i \in Range(list)
    BY <1>7, <1>9
  <2>2. PlacesOf(f, breakpoints[i].line) # {}
    BY <1>2, <2>1, PlacesProperties DEF QueuesFit
  <2> QED
    BY <2>2 DEF NewLines
<1> HIDE DEF list
<1>10. OneForLine(f)'
  <2> SUFFICES ASSUME NEW i \in Ids', NEW j \in Ids',
                      breakpoints'[i].file = f, breakpoints'[j].file = f,
                      breakpoints'[i].line = breakpoints'[j].line
               PROVE  i = j
    BY DEF OneForLine
  <2>1. CASE i \in Ids /\ j \in Ids
    <3>1. breakpoints'[i] = breakpoints[i] /\ breakpoints'[j] = breakpoints[j]
      BY <1>1, <1>8, <2>1 DEF BuiltFits
    <3> QED
      BY <2>1, <3>1 DEF OneForLine
  <2>2. CASE i \in Ids /\ j \notin Ids
    <3>1. breakpoints'[i] = breakpoints[i] /\ breakpoints'[j].line \in NewLines(f, lines)
      BY <1>1, <1>8, <2>2 DEF BuiltFits
    <3> QED
      BY <1>9, <2>2, <3>1
  <2>3. CASE i \notin Ids /\ j \in Ids
    <3>1. breakpoints'[j] = breakpoints[j] /\ breakpoints'[i].line \in NewLines(f, lines)
      BY <1>1, <1>8, <2>3 DEF BuiltFits
    <3> QED
      BY <1>9, <2>3, <3>1
  <2>4. CASE i \notin Ids /\ j \notin Ids
    <3>1. /\ IdAt(f, lines, breakpoints'[i].line) = i
          /\ IdAt(f, lines, breakpoints'[j].line) = j
      BY <1>1, <1>8, <2>4 DEF BuiltFits
    <3> QED
      BY <3>1
  <2> QED
    BY <2>1, <2>2, <2>3, <2>4
<1> DEFINE bound == BoundBy(f, lines)
           removed == RemovedBy(f, lines)
<1>11. /\ \A i \in Range(bound) : breakpoints'[i].file = f /\ breakpoints'[i].line \in lines
       /\ \A line \in lines : \E i \in Range(bound) : breakpoints'[i].line = line
  BY <1>1, <1>2, BoundProperties DEF QueuesFit
<1>12. /\ Range(removed) \subseteq Ids
       /\ \A i \in Range(removed) : breakpoints[i].file = f /\ breakpoints[i].line \notin lines
       /\ \A i \in Range(list) : breakpoints[i].line \notin lines =>
             \E j \in Range(removed) : breakpoints[j].line = breakpoints[i].line
  <2>1. RemovedBy(f, lines) \in Seq(Ids)
    BY <1>2, RemovedProperties DEF QueuesFit
  <2>2. Range(removed) \subseteq Ids
    BY <2>1, RangeOfSeq
  <2> QED
    BY <1>2, <2>2, RemovedProperties DEF QueuesFit, list
<1>13. \A i \in Ids : breakpoints'[i] = breakpoints[i]
  BY <1>1, <1>8 DEF BuiltFits
<1>14. enabled' = (enabled \union Range(bound)) \ Range(removed) /\ enabled \subseteq Ids
  BY <1>1 DEF SessionTypeOK
<1> HIDE DEF bound, removed
<1>15. LinesOf(enabled, f)' = lines
  <2>1. ASSUME NEW i \in enabled', breakpoints'[i].file = f
        PROVE  breakpoints'[i].line \in lines
    <3>1. CASE i \in Range(bound)
      BY <1>11, <3>1
    <3>2. CASE i \notin Range(bound)
      <4>1. i \in Ids /\ breakpoints'[i] = breakpoints[i] /\ i \notin Range(removed)
        BY <1>13, <1>14, <3>2
      <4>2. i \in Range(list)
        BY <1>7, <2>1, <4>1
      <4>3. ASSUME breakpoints[i].line \notin lines
            PROVE  FALSE
        <5>1. PICK j \in Range(removed) : breakpoints[j].line = breakpoints[i].line
          BY <1>12, <4>2, <4>3
        <5>2. j \in Ids /\ breakpoints[j].file = f
          BY <1>12, <5>1
        <5>3. j = i
          BY <2>1, <4>1, <5>1, <5>2 DEF OneForLine
        <5> QED
          BY <4>1, <5>1, <5>3
      <4> QED
        BY <4>1, <4>3
    <3> QED
      BY <3>1, <3>2
  <2>2. ASSUME NEW line \in lines
        PROVE  \E i \in enabled' : breakpoints'[i].file = f /\ breakpoints'[i].line = line
    <3>1. PICK i \in Range(bound) : breakpoints'[i].line = line
      BY <1>11
    <3>2. i \notin Range(removed)
      BY <1>12, <1>13, <3>1
    <3>3. i \in enabled'
      BY <1>14, <3>1, <3>2
    <3> QED
      BY <1>11, <3>1, <3>3
  <2> QED
    BY <2>1, <2>2 DEF LinesOf
<1>16. EnabledFits(f)'
  <2> SUFFICES ASSUME NEW p \in DOMAIN requests, requests[p].file = f,
                      \A q \in DOMAIN requests : requests[q].file = f => q <= p
               PROVE  LinesOf(enabled, f)' = requests[p].lines
    BY <1>1 DEF EnabledFits
  <2>1. p <= r /\ r <= p
    BY <1>2, <1>5
  <2>2. p = r
    BY <1>2, <1>4, <2>1
  <2> QED
    BY <1>15, <2>2
<1> QED
  BY <1>6, <1>10, <1>16

\* Every step keeps it.
LEMMA InTurnStep ==
    ASSUME SessionTypeOK, QueuesFit, InTurn, [SessionNext]_sessionVars
    PROVE  InTurn'
<1>1. terminateEventSent => terminateEventSent'
  BY StaysOver
<1>2. ASSUME NEW f \in Files, NEW lines \in SUBSET Lines, SetBreakPointsRequest(f, lines)
      PROVE  InTurn'
  BY <1>2, InTurnSent
<1>3. ASSUME NEW r \in RequestIds, AnswerStep(r)
      PROVE  InTurn'
  <2>1. /\ stage' = [stage EXCEPT ![r] = "answered"]
        /\ UNCHANGED <<requests, overlapped, breakpoints, enabled, terminateEventSent>>
    BY <1>3 DEF AnswerStep, AnswerBreakpoints, TaskFrame, registryVars, editorVars, endVars
  <2>2. microtasks # <<>> /\ Head(microtasks) = <<"answer", r>>
    BY <1>3 DEF AnswerStep, TaskRuns
  <2>3. <<"answer", r>> \in Range(microtasks)
    BY <2>2, RangeTail DEF QueuesFit, TasksFit
  <2>4. stage[r] = "binding"
    BY <2>3 DEF QueuesFit, TasksFit
  <2> QED
    BY <2>1, <2>4, InTurnAnswered
<1>4. ASSUME NEW r \in RequestIds, SetStep(r)
      PROVE  InTurn'
  <2>1. UNCHANGED <<requests, overlapped, terminateEventSent>>
    BY <1>4 DEF SetStep, TaskFrame, editorVars, endVars
  <2>2. CASE terminateEventSent
    <3>1. /\ stage' = [stage EXCEPT ![r] = "answered"]
          /\ UNCHANGED <<breakpoints, enabled>>
      BY <1>4, <2>2 DEF SetStep, SetBreakPoints, registryVars
    <3> QED
      BY <2>1, <2>2, <3>1, InTurnAnswered
  <2>3. CASE ~terminateEventSent
    <3> DEFINE f == requests[r].file
    <3>1. Binds(r, requests[r].file, requests[r].lines)
      BY <1>4, <2>3, SetBinds
    <3> SUFFICES ASSUME NEW g \in Files \ overlapped
                 PROVE  OneOpen(g)' /\ OneForLine(g)' /\ EnabledFits(g)'
      BY <2>1 DEF InTurn
    <3>2. OneOpen(g) /\ OneForLine(g) /\ EnabledFits(g)
      BY DEF InTurn
    <3>3. CASE g = f
      BY <3>1, <3>2, <3>3, OwnBound
    <3>4. CASE g # f
      BY <2>1, <3>1, <3>2, <3>4, OthersBound
    <3> QED
      BY <3>3, <3>4
  <2> QED
    BY <2>2, <2>3
<1>5. ASSUME UNCHANGED <<requests, overlapped, stage>>
      PROVE  InTurn'
  <2>1. CASE UNCHANGED <<breakpoints, enabled>>
    BY <1>1, <1>5, <2>1, InTurnKept
  <2>2. ASSUME NEW r \in RequestIds, SetStep(r)
        PROVE  InTurn'
    BY <1>4, <2>2
  <2> QED
    BY <2>1, <2>2, RegistryRest
<1> QED
  BY <1>2, <1>3, <1>4, <1>5, RequestCases

-----------------------------------------------------------------------------
(* What the program is told.                                               *)

\* A command is obeyed: what is left has the same end.
Obeyed(stopsAt, command) ==
    IF command[1] = "bind" THEN stopsAt \union {command[2]}
    ELSE IF command[1] = "disable" THEN stopsAt \ {command[2]} ELSE stopsAt

\* The elements of a sequence and of its tail, by their places.
LEMMA TailPlaces ==
    ASSUME NEW S, NEW s \in Seq(S), s # <<>>
    PROVE  /\ 1 \in DOMAIN s /\ s[1] = Head(s)
           /\ DOMAIN s \subseteq Nat /\ DOMAIN Tail(s) \subseteq Nat
           /\ \A k \in DOMAIN Tail(s) : k + 1 \in DOMAIN s /\ s[k + 1] = Tail(s)[k] /\ k + 1 # 1
           /\ \A k \in DOMAIN s : k # 1 => k - 1 \in DOMAIN Tail(s) /\ s[k] = Tail(s)[k - 1]
<1>1. /\ Head(s) = s[1] /\ Tail(s) \in Seq(S) /\ Len(Tail(s)) = Len(s) - 1
      /\ \A k \in 1 .. Len(Tail(s)) : Tail(s)[k] = s[k + 1]
  BY HeadTailProperties
<1>2. Len(s) \in Nat /\ Len(s) # 0 /\ DOMAIN s = 1 .. Len(s) /\ DOMAIN Tail(s) = 1 .. Len(Tail(s))
  BY <1>1, LenProperties, EmptySeq
<1>3. ASSUME NEW k \in DOMAIN s, k # 1
      PROVE  k - 1 \in DOMAIN Tail(s) /\ s[k] = Tail(s)[k - 1]
  <2>1. k - 1 \in 1 .. Len(Tail(s)) /\ (k - 1) + 1 = k
    BY <1>1, <1>2, <1>3
  <2> QED
    BY <1>1, <1>2, <2>1
<1>4. ASSUME NEW k \in DOMAIN Tail(s)
      PROVE  k + 1 \in DOMAIN s /\ s[k + 1] = Tail(s)[k] /\ k + 1 # 1
  BY <1>1, <1>2
<1>5. DOMAIN s \subseteq Nat /\ DOMAIN Tail(s) \subseteq Nat /\ 1 \in DOMAIN s
  BY <1>1, <1>2
<1> QED
  BY <1>1, <1>3, <1>4, <1>5

\* Whether the program will stop is the same before and after it obeys a command.
LEMMA StopsOnTail ==
    ASSUME NEW S, NEW s \in Seq(S), s # <<>>, NEW stopsAt, NEW i,
           NEW kind \in {"bind", "disable", "resume"}, NEW j, Head(s) = <<kind, j>>
    PROVE  WillStop(stopsAt, s, i) <=> WillStop(Obeyed(stopsAt, Head(s)), Tail(s), i)
<1> DEFINE t == Tail(s)
           on == <<"bind", i>>
           off == <<"disable", i>>
           first == Head(s)
           after == Obeyed(stopsAt, Head(s))
           Bound(q) == \E k \in DOMAIN q : q[k] = on /\ \A m \in DOMAIN q : m > k => q[m] # off
           Spared(q) == \A k \in DOMAIN q : q[k] # off
<1>1. /\ WillStop(stopsAt, s, i) <=> (i \in stopsAt /\ Spared(s)) \/ Bound(s)
      /\ WillStop(after, t, i) <=> (i \in after /\ Spared(t)) \/ Bound(t)
  BY DEF WillStop
<1>2. /\ 1 \in DOMAIN s /\ s[1] = first
      /\ DOMAIN s \subseteq Nat /\ DOMAIN t \subseteq Nat
      /\ \A k \in DOMAIN t : k + 1 \in DOMAIN s /\ s[k + 1] = t[k] /\ k + 1 # 1
      /\ \A k \in DOMAIN s : k # 1 => k - 1 \in DOMAIN t /\ s[k] = t[k - 1]
  BY TailPlaces
<1>3. /\ first = on <=> kind = "bind" /\ j = i
      /\ first = off <=> kind = "disable" /\ j = i
  OBVIOUS
<1>4. i \in after <=> first = on \/ (i \in stopsAt /\ first # off)
  BY <1>3 DEF Obeyed
<1>5. on # off
  OBVIOUS
<1> HIDE DEF t, on, off, after, first
<1>6. Spared(s) <=> first # off /\ Spared(t)
  <2>1. Spared(s) => first # off /\ Spared(t)
    BY <1>2
  <2>2. ASSUME first # off, Spared(t), NEW k \in DOMAIN s
        PROVE  s[k] # off
    <3>1. CASE k = 1
      BY <1>2, <2>2, <3>1
    <3>2. CASE k # 1
      <4>1. k - 1 \in DOMAIN t /\ s[k] = t[k - 1]
        BY <1>2, <3>2
      <4> QED
        BY <2>2, <4>1
    <3> QED
      BY <3>1, <3>2
  <2> QED
    BY <2>1, <2>2
<1>7. Bound(s) <=> (first = on /\ Spared(t)) \/ Bound(t)
  <2>1. ASSUME first = on, Spared(t)
        PROVE  Bound(s)
    <3>1. ASSUME NEW m \in DOMAIN s, m > 1
          PROVE  s[m] # off
      <4>1. m # 1
        BY <1>2, <3>1
      <4>2. m - 1 \in DOMAIN t /\ s[m] = t[m - 1]
        BY <1>2, <4>1
      <4> QED
        BY <2>1, <4>2
    <3> QED
      BY <1>2, <2>1, <3>1
  <2>2. ASSUME Bound(t)
        PROVE  Bound(s)
    <3>1. PICK k \in DOMAIN t : t[k] = on /\ \A m \in DOMAIN t : m > k => t[m] # off
      BY <2>2
    <3>2. k \in Nat /\ k + 1 \in DOMAIN s /\ s[k + 1] = on
      BY <1>2, <3>1
    <3>3. ASSUME NEW m \in DOMAIN s, m > k + 1
          PROVE  s[m] # off
      <4>1. m \in Nat /\ m # 1 /\ m - 1 > k
        <5>1. m \in Nat /\ k \in Nat
          BY <1>2, <3>2
        <5> QED
          BY <3>3, <5>1
      <4> QED
        BY <1>2, <3>1, <4>1
    <3> QED
      BY <3>2, <3>3
  <2>3. ASSUME Bound(s)
        PROVE  (first = on /\ Spared(t)) \/ Bound(t)
    <3>1. PICK k \in DOMAIN s : s[k] = on /\ \A m \in DOMAIN s : m > k => s[m] # off
      BY <2>3
    <3>2. CASE k = 1
      <4>1. ASSUME NEW m \in DOMAIN t
            PROVE  t[m] # off
        <5>1. m + 1 \in DOMAIN s /\ s[m + 1] = t[m] /\ m + 1 # 1 /\ m \in Nat
          BY <1>2
        <5>2. m + 1 > 1
          BY <1>2, <5>1
        <5> QED
          BY <3>1, <3>2, <5>1, <5>2
      <4> QED
        BY <1>2, <3>1, <3>2, <4>1
    <3>3. CASE k # 1
      <4>1. k \in Nat /\ k - 1 \in DOMAIN t /\ t[k - 1] = on
        BY <1>2, <3>1, <3>3
      <4>2. ASSUME NEW m \in DOMAIN t, m > k - 1
            PROVE  t[m] # off
        <5>1. m \in Nat /\ m + 1 \in DOMAIN s /\ s[m + 1] = t[m]
          BY <1>2
        <5>2. m + 1 > k
          BY <4>1, <4>2, <5>1
        <5> QED
          BY <3>1, <5>1, <5>2
      <4> QED
        BY <4>1, <4>2
    <3> QED
      BY <3>2, <3>3
  <2> QED
    BY <2>1, <2>2, <2>3
<1> HIDE DEF Bound, Spared
<1> QED
  BY <1>1, <1>4, <1>5, <1>6, <1>7 DEF t, after

\* More commands are sent: the last word about a breakpoint is theirs, if they have one.
LEMMA StopsOnMore ==
    ASSUME NEW S, NEW s \in Seq(S), NEW more \in Seq(S), NEW stopsAt, NEW i
    PROVE  /\ Range(more) \cap {<<"bind", i>>, <<"disable", i>>} = {} =>
                 (WillStop(stopsAt, s \o more, i) <=> WillStop(stopsAt, s, i))
           /\ Range(more) \cap {<<"bind", i>>, <<"disable", i>>} = {<<"bind", i>>} =>
                 WillStop(stopsAt, s \o more, i)
           /\ Range(more) \cap {<<"bind", i>>, <<"disable", i>>} = {<<"disable", i>>} =>
                 ~WillStop(stopsAt, s \o more, i)
<1> DEFINE q == s \o more
           n == Len(s)
           m == Len(more)
           on == <<"bind", i>>
           off == <<"disable", i>>
<1>1. /\ n \in Nat /\ m \in Nat
      /\ DOMAIN s = 1 .. n /\ DOMAIN more = 1 .. m /\ DOMAIN q = 1 .. n + m
      /\ \A k \in 1 .. n + m : q[k] = IF k <= n THEN s[k] ELSE more[k - n]
  <2>1. q \in Seq(S) /\ Len(q) = n + m
        /\ \A k \in 1 .. n + m : q[k] = IF k <= n THEN s[k] ELSE more[k - n]
    BY ConcatProperties
  <2> HIDE DEF q
  <2> QED
    BY <2>1, LenProperties
<1>2. \A x : x \in Range(more) <=> \E k \in 1 .. m : more[k] = x
  BY <1>1 DEF Range
<1>3. \A stops0, u : WillStop(stops0, u, i) <=>
         \/ i \in stops0 /\ \A k \in DOMAIN u : u[k] # off
         \/ \E k \in DOMAIN u : u[k] = on /\ \A p \in DOMAIN u : p > k => u[p] # off
  BY DEF WillStop
<1>4. on # off
  OBVIOUS
<1> HIDE DEF q, n, m, on, off
<1>5. /\ \A k \in 1 .. n : k \in 1 .. n + m /\ q[k] = s[k] /\ k \in Nat /\ k <= n
      /\ \A k \in 1 .. m : k + n \in 1 .. n + m /\ q[k + n] = more[k] /\ k + n > n /\ k \in Nat
      /\ \A k \in 1 .. n + m : \/ k \in 1 .. n
                               \/ k - n \in 1 .. m /\ q[k] = more[k - n] /\ k > n
  <2>1. \A k \in 1 .. n : k \in 1 .. n + m /\ q[k] = s[k] /\ k \in Nat /\ k <= n
    BY <1>1
  <2>2. ASSUME NEW k \in 1 .. m
        PROVE  k + n \in 1 .. n + m /\ q[k + n] = more[k] /\ k + n > n /\ k \in Nat
    <3>1. k + n \in 1 .. n + m /\ ~(k + n <= n) /\ (k + n) - n = k
      BY <1>1
    <3> QED
      BY <1>1, <3>1
  <2>3. \A k \in 1 .. n + m : k \in 1 .. n \/ (k - n \in 1 .. m /\ q[k] = more[k - n] /\ k > n)
    BY <1>1
  <2> QED
    BY <2>1, <2>2, <2>3
<1>6. ASSUME off \notin Range(more)
      PROVE  /\ \A k \in 1 .. m : more[k] # off
             /\ \A k \in 1 .. n + m : k > n => q[k] # off
  <2>1. \A k \in 1 .. m : more[k] # off
    BY <1>2, <1>6
  <2> QED
    BY <1>1, <1>5, <2>1
<1>7. ASSUME on \notin Range(more), off \notin Range(more)
      PROVE  WillStop(stopsAt, q, i) <=> WillStop(stopsAt, s, i)
  <2>1. ASSUME NEW k \in 1 .. n + m, q[k] \in {on, off}
        PROVE  k \in 1 .. n /\ s[k] = q[k]
    BY <1>2, <1>5, <1>7, <2>1
  <2>2. (\A k \in 1 .. n + m : q[k] # off) <=> (\A k \in 1 .. n : s[k] # off)
    BY <1>5, <2>1
  <2>3. ASSUME NEW k \in 1 .. n, s[k] = on, \A p \in 1 .. n : p > k => s[p] # off
        PROVE  k \in 1 .. n + m /\ q[k] = on /\ \A p \in 1 .. n + m : p > k => q[p] # off
    BY <1>5, <2>1, <2>3
  <2>4. ASSUME NEW k \in 1 .. n + m, q[k] = on, \A p \in 1 .. n + m : p > k => q[p] # off
        PROVE  k \in 1 .. n /\ s[k] = on /\ \A p \in 1 .. n : p > k => s[p] # off
    BY <1>5, <2>1, <2>4
  <2>5. (\E k \in 1 .. n + m : q[k] = on /\ \A p \in 1 .. n + m : p > k => q[p] # off)
           <=> (\E k \in 1 .. n : s[k] = on /\ \A p \in 1 .. n : p > k => s[p] # off)
    BY <2>3, <2>4
  <2>6. DOMAIN q = 1 .. n + m /\ DOMAIN s = 1 .. n
    BY <1>1
  <2> QED
    BY <1>3, <2>2, <2>5, <2>6
<1>8. ASSUME on \in Range(more), off \notin Range(more)
      PROVE  WillStop(stopsAt, q, i)
  <2>1. PICK k \in 1 .. m : more[k] = on
    BY <1>2, <1>8
  <2>2. k + n \in DOMAIN q /\ q[k + n] = on /\ k + n > n /\ k \in Nat
    BY <1>1, <1>5, <2>1
  <2>3. \A p \in DOMAIN q : p > k + n => q[p] # off
    BY <1>1, <1>6, <1>8, <2>2
  <2> QED
    BY <1>3, <2>2, <2>3
<1>9. ASSUME on \notin Range(more), off \in Range(more)
      PROVE  ~WillStop(stopsAt, q, i)
  <2>1. PICK k \in 1 .. m : more[k] = off
    BY <1>2, <1>9
  <2>2. k + n \in DOMAIN q /\ q[k + n] = off /\ k + n > n /\ k \in Nat
    BY <1>1, <1>5, <2>1
  <2>3. ASSUME NEW p \in DOMAIN q, q[p] = on
        PROVE  k + n > p
    <3>1. p \in 1 .. n
      BY <1>1, <1>2, <1>5, <1>9, <2>3
    <3> QED
      BY <1>1, <2>2, <3>1
  <2> QED
    BY <1>3, <2>2, <2>3
<1>10. /\ Range(more) \cap {on, off} = {} => on \notin Range(more) /\ off \notin Range(more)
       /\ Range(more) \cap {on, off} = {on} => on \in Range(more) /\ off \notin Range(more)
       /\ Range(more) \cap {on, off} = {off} => on \notin Range(more) /\ off \in Range(more)
  BY <1>4
<1> QED
  BY <1>7, <1>8, <1>9, <1>10 DEF q, on, off

\* The program connects once, before anything is built.
LEMMA ConnectsOnce ==
    ASSUME SessionTypeOK, QueuesFit, [SessionNext]_sessionVars, ProgramConnected'
    PROVE  ProgramConnected \/ program = "starting"
<1> USE DEF sessionVars, adapterVars, programVars, ProgramConnected
<1>1. CASE \/ \E f \in Files, lines \in SUBSET Lines : SetBreakPointsRequest(f, lines)
           \/ \E r \in RequestIds : SetStep(r)
           \/ \E r \in RequestIds, i \in Nat, verified \in BOOLEAN : BoundStep(r, i, verified)
           \/ ResumeStep
           \/ \E i \in Nat : ConfirmStep(i)
  <2>1. UNCHANGED programVars
    BY <1>1, QuietSteps
  <2> QED
    BY <2>1
<1>2. CASE ConfigurationDoneRequest \/ \E r \in RequestIds : AnswerStep(r)
  BY <1>2 DEF ConfigurationDoneRequest, AnswerStep, TaskFrame
<1>3. CASE LaunchRequest \/ LaunchFails \/ ContinueRequest \/ LastTimerFires \/ DataEvent
  BY <1>3 DEF LaunchRequest, LaunchFails, ContinueRequest, LastTimerFires, DataEvent
<1>4. CASE DisconnectRequest \/ SocketCloses
  BY <1>4 DEF DisconnectRequest, SocketCloses, StopDebugServer, KillProgram
<1>5. CASE ProgramConnects \/ ProgramObeys \/ ProgramRuns \/ ProgramExits
  BY <1>5 DEF ProgramConnects, ProgramObeys, ProgramRuns, ProgramExits
<1>6. CASE LoadStep \/ OutputStep \/ LastStep \/ \E i \in Nat : HitStep(i)
  BY <1>6 DEF LoadStep, OutputStep, LastStep, HitStep, MessageIs
<1>7. CASE UNCHANGED sessionVars
  BY <1>7
<1> QED
  BY <1>1, <1>2, <1>3, <1>4, <1>5, <1>6, <1>7, StepCases DEF OtherStep

\* A request tells the program what it binds, and what it removes.
LEMMA FollowsBinds ==
    ASSUME SessionTypeOK, QueuesFit, WireFits, NEW r \in RequestIds, NEW f, NEW lines,
           f = requests[r].file, lines = requests[r].lines, Binds(r, f, lines),
           \A i \in Ids : WillStop(active, toProgram, i) <=> i \in enabled,
           NEW i \in Ids'
    PROVE  WillStop(active', toProgram', i) <=> i \in enabled'
<1> DEFINE bound == BoundBy(f, lines)
           removed == RemovedBy(f, lines)
           C == CommandsOn(Ids')
           binds == [k \in DOMAIN bound |-> <<"bind", bound[k]>>]
           disables == [k \in DOMAIN removed |-> <<"disable", removed[k]>>]
           on == <<"bind", i>>
           off == <<"disable", i>>
<1>1. /\ microtasks # <<>> /\ Head(microtasks) = <<"set", r>>
      /\ breakpoints' = Built(f, lines)
      /\ enabled' = (enabled \union Range(bound)) \ Range(removed)
      /\ toProgram' = (toProgram \o binds) \o disables
      /\ active' = active
  BY DEF Binds
<1>2. f \in Files /\ lines \in SUBSET Lines
  BY <1>1, SetFacts
<1>3. BuiltFits(f, lines) /\ Ids' = DOMAIN Built(f, lines)
  BY <1>1, <1>2, BuiltProperties DEF Ids
<1>4. Ids \subseteq Ids'
  BY <1>3 DEF BuiltFits
<1>5. bound \in Seq(Ids') /\ removed \in Seq(Ids)
  BY <1>2, <1>3, BoundProperties, RemovedProperties DEF QueuesFit
<1>6. Ids' \ Ids \subseteq Range(bound)
  BY <1>2, <1>3, BoundProperties DEF QueuesFit
<1>7. toProgram \in Seq(C) /\ active \subseteq Ids /\ enabled \subseteq Ids
  <2>1. toProgram \in Seq(CommandsOn(Ids)) /\ active \subseteq Ids /\ enabled \subseteq Ids
    BY WireTypes DEF SessionTypeOK, WireFits
  <2>2. CommandsOn(Ids) \subseteq C
    BY <1>4 DEF CommandsOn
  <2> QED
    BY <2>1, <2>2, SeqMonotonic
<1> HIDE DEF bound, removed
<1>8. /\ DOMAIN bound = 1 .. Len(bound) /\ Len(bound) \in Nat
      /\ DOMAIN removed = 1 .. Len(removed) /\ Len(removed) \in Nat
      /\ \A k \in DOMAIN bound : bound[k] \in Ids'
      /\ \A k \in DOMAIN removed : removed[k] \in Ids'
  <2>1. removed \in Seq(Ids')
    BY <1>4, <1>5, SeqMonotonic
  <2> QED
    BY <1>5, <2>1, LenProperties, ElementOfSeq
<1>9. \A j \in Ids' : <<"bind", j>> \in C /\ <<"disable", j>> \in C
  BY DEF CommandsOn
<1> HIDE DEF C
<1>10. binds \in Seq(C) /\ disables \in Seq(C)
  <2>1. binds \in [1 .. Len(bound) -> C] /\ disables \in [1 .. Len(removed) -> C]
    BY <1>8, <1>9
  <2> HIDE DEF binds, disables
  <2> QED
    BY <1>8, <2>1, NumberedSeq
<1>11. /\ on \in Range(binds) <=> i \in Range(bound)
       /\ off \notin Range(binds)
       /\ off \in Range(disables) <=> i \in Range(removed)
       /\ on \notin Range(disables)
  BY DEF Range
<1>12. on # off
  OBVIOUS
<1> DEFINE first == toProgram \o binds
           Word(q) == Range(q) \cap {<<"bind", i>>, <<"disable", i>>}
<1>13. first \in Seq(C)
  BY <1>7, <1>10, ConcatProperties
<1>14. /\ Word(binds) = IF i \in Range(bound) THEN {on} ELSE {}
       /\ Word(disables) = IF i \in Range(removed) THEN {off} ELSE {}
  BY <1>11
<1> HIDE DEF binds, disables
<1>15. /\ Word(binds) = {} => (WillStop(active, first, i) <=> WillStop(active, toProgram, i))
       /\ Word(binds) = {on} => WillStop(active, first, i)
  BY <1>7, <1>10, StopsOnMore
<1> HIDE DEF first
<1>16. /\ Word(disables) = {} => (WillStop(active, first \o disables, i) <=> WillStop(active, first, i))
       /\ Word(disables) = {off} => ~WillStop(active, first \o disables, i)
  BY <1>10, <1>13, StopsOnMore
<1>17. WillStop(active, toProgram, i) <=> i \in enabled \/ (i \notin Ids /\ WillStop(active, toProgram, i))
  BY <1>7
<1>18. i \notin Ids => i \in Range(bound)
  BY <1>6
<1>19. WillStop(active, first, i) <=> i \in enabled \/ i \in Range(bound)
  BY <1>7, <1>14, <1>15, <1>17, <1>18
<1>20. WillStop(active, first \o disables, i) <=> i \in enabled'
  BY <1>1, <1>14, <1>16, <1>19
<1>21. toProgram' = first \o disables
  BY <1>1 DEF first
<1> QED
  BY <1>1, <1>20, <1>21

\* Every step keeps it.
LEMMA FollowsStep ==
    ASSUME SessionTypeOK, QueuesFit, WireFits, LoadComesFirst, ProgramFollows,
           [SessionNext]_sessionVars
    PROVE  ProgramFollows'
<1> SUFFICES ASSUME ~terminateEventSent', ProgramConnected', NEW i \in Ids'
             PROVE  WillStop(active', toProgram', i) <=> i \in enabled'
  BY DEF ProgramFollows
<1>1. ~terminateEventSent
  BY StaysOver
<1>2. ProgramConnected \/ program = "starting"
  BY ConnectsOnce
<1>3. ASSUME NEW r \in RequestIds, Binds(r, requests[r].file, requests[r].lines)
      PROVE  WillStop(active', toProgram', i) <=> i \in enabled'
  <2>1. microtasks # <<>> /\ Head(microtasks) = <<"set", r>>
    BY <1>3 DEF Binds
  <2>2. debuggerLoaded
    BY <2>1, SetFacts
  <2>3. program # "starting"
    BY <2>2 DEF LoadComesFirst
  <2>4. \A j \in Ids : WillStop(active, toProgram, j) <=> j \in enabled
    BY <1>1, <1>2, <2>3 DEF ProgramFollows
  <2> QED
    BY <1>3, <2>4, FollowsBinds
<1>4. CASE UNCHANGED <<breakpoints, enabled>>
  <2>1. Ids' = Ids /\ i \in Ids
    BY <1>4 DEF Ids
  <2>2. program # "starting"
    <3>1. program = "starting" => breakpoints = <<>>
      BY DEF LoadComesFirst
    <3> QED
      BY <2>1, <3>1 DEF Ids
  <2>3. WillStop(active, toProgram, i) <=> i \in enabled
    BY <1>1, <1>2, <2>1, <2>2 DEF ProgramFollows
  <2>4. toProgram \in Seq(CommandsOn(Ids))
    BY WireTypes DEF SessionTypeOK, WireFits
  <2>5. CASE UNCHANGED <<toProgram, active>>
    BY <1>4, <2>3, <2>5
  <2>6. CASE toProgram' = Append(toProgram, <<"resume", 0>>) /\ UNCHANGED active
    <3> DEFINE more == <<<<"resume", 0>>>>
    <3>1. <<"resume", 0>> \in CommandsOn(Ids)
      BY DEF CommandsOn
    <3>2. more \in Seq(CommandsOn(Ids)) /\ Range(more) = {<<"resume", 0>>}
      BY <3>1, OneQueued
    <3>3. Append(toProgram, <<"resume", 0>>) = toProgram \o more
      BY <2>4, <3>1, AppendIsConcat
    <3>4. Range(more) \cap {<<"bind", i>>, <<"disable", i>>} = {}
      BY <3>2
    <3> HIDE DEF more
    <3>5. WillStop(active, toProgram \o more, i) <=> WillStop(active, toProgram, i)
      BY <2>4, <3>2, <3>4, StopsOnMore
    <3> QED
      BY <1>4, <2>3, <2>6, <3>3, <3>5
  <2>7. CASE toProgram' = <<>> /\ UNCHANGED active /\ (terminateEventSent' \/ program' = "ended")
    BY <2>7 DEF ProgramConnected
  <2>8. CASE ProgramObeys
    <3> DEFINE command == Head(toProgram)
    <3>1. /\ toProgram # <<>> /\ toProgram' = Tail(toProgram)
          /\ \/ command[1] = "bind" /\ active' = active \union {command[2]}
             \/ command[1] = "disable" /\ active' = active \ {command[2]}
             \/ command[1] = "resume" /\ UNCHANGED active
      BY <2>8 DEF ProgramObeys
    <3>2. command \in CommandsOn(Ids)
      BY <2>4, <3>1, HeadTailProperties
    <3> HIDE DEF command
    <3>3. /\ command = <<command[1], command[2]>>
          /\ command[1] \in {"bind", "disable", "resume"}
      BY <3>2 DEF CommandsOn
    <3>4. active' = Obeyed(active, command)
      BY <3>1 DEF Obeyed
    <3>5. WillStop(active, toProgram, i) <=> WillStop(Obeyed(active, command), Tail(toProgram), i)
      BY <2>4, <3>1, <3>3, StopsOnTail DEF command
    <3> QED
      BY <1>4, <2>3, <3>1, <3>4, <3>5
  <2> QED
    BY <1>3, <2>5, <2>6, <2>7, <2>8, CommandCases
<1> QED
  BY <1>3, <1>4, RegistryRest

-----------------------------------------------------------------------------
(* The invariant, and what follows from it.                                *)

\* The invariant holds at the start.
LEMMA SessionStarts == SessionInit => SessionInv
<1> SUFFICES ASSUME SessionInit PROVE SessionInv
  OBVIOUS
<1> USE DEF SessionInit
<1>1. Ids = {}
  BY DEF Ids
<1>2. \A T : Count(<<>>, T) = 0
  <2>1. <<>> \in Seq({}) /\ DOMAIN <<>> = {}
    OBVIOUS
  <2> QED
    BY <2>1, CountUniform
<1>3. Range(<<>>) = {} /\ DOMAIN <<>> = {} /\ Len(<<>>) = 0
  BY DEF Range
<1>4. SessionTypeOK
  <2>1. /\ requests \in Seq([file : Files, lines : SUBSET Lines])
        /\ breakpoints \in Seq([file : Files, line : Lines])
        /\ breakpointCommands \in Seq([Id : Ids, request : RequestIds])
        /\ toProgram \in Seq({"bind", "disable", "resume"} \X (Ids \union {0}))
        /\ toAdapter \in Seq(Messages \X (Ids \union {0}))
    OBVIOUS
  <2>2. registeredBreakpointsByFileName \in [Files -> Seq(Ids)]
    OBVIOUS
  <2>3. /\ stage \in [RequestIds -> {"unsent", "waiting", "binding", "answered"}]
        /\ unsettled \in [RequestIds -> Nat]
    OBVIOUS
  <2>4. editor \in [stopped : BOOLEAN, launched : 0 .. 3, terminated : 0 .. 3, gone : BOOLEAN]
    OBVIOUS
  <2>5. batch \in 0 .. Len(toAdapter) /\ stops \in 0 .. Stops
    BY <1>3, BoundsAssumption
  <2>6. \A k \in DOMAIN microtasks : microtasks[k][1] \in {"set", "bound", "answer", "resume"}
    BY <1>3
  <2>7. /\ overlapped \subseteq Files /\ enabled \subseteq Ids /\ active \subseteq Ids
        /\ registeredBreakpoints \subseteq Ids
        /\ configurationSent \in BOOLEAN
        /\ launch \in {"none", "starting", "connected", "failed"}
        /\ configurationDone \in {"none", "pending", "resolved"}
        /\ program \in {"none", "starting", "entry", "hit", "running", "exiting", "ended"}
        /\ {stopOnEntry, entryResponse, debuggerLoaded, resumeWaits, pythonProcess,
            terminateEventSent, lastTimer, crashed} \subseteq BOOLEAN
    OBVIOUS
  <2> QED
    BY <2>1, <2>2, <2>3, <2>4, <2>5, <2>6, <2>7 DEF SessionTypeOK
<1>5. Sent
  BY <1>3, BoundsAssumption DEF Sent, RequestIds
<1>6. TasksFit
  <2>1. microtasks \in Seq(Tasks)
    OBVIOUS
  <2> QED
    BY <1>2, <1>3, <2>1 DEF TasksFit
<1>7. CommandsFit /\ RegistriesAgree /\ BuiltAreKnown
  <2>1. CommandsFit
    BY <1>3 DEF CommandsFit
  <2>2. RegistriesAgree
    BY <1>3 DEF RegistriesAgree
  <2>3. BuiltAreKnown
    BY <1>1 DEF BuiltAreKnown
  <2> QED
    BY <2>1, <2>2, <2>3
<1>8. Awaits
  BY <1>2 DEF Awaits
<1>9. WireFits
  BY <1>3 DEF WireFits
<1>10. Lifecycle
  <2>1. LoadComesFirst
    BY DEF LoadComesFirst
  <2>2. EndsOnce
    BY <1>2, <1>3 DEF EndsOnce, OnlyFirst, OnlyLast
  <2>3. Told
    BY <1>2 DEF Told, StartsLeft, EndsLeft
  <2>4. Stays
    BY DEF Stays
  <2> QED
    BY <2>1, <2>2, <2>3, <2>4 DEF Lifecycle
<1>11. ProgramFollows
  BY DEF ProgramFollows, ProgramConnected
<1>12. InTurn
  BY <1>1, <1>3 DEF InTurn, OneOpen, OneForLine, EnabledFits
<1> QED
  BY <1>4, <1>5, <1>6, <1>7, <1>8, <1>9, <1>10, <1>11, <1>12 DEF SessionInv, QueuesFit

\* What the session counts on holds after every event and every reaction: the inductive invariant.
THEOREM SessionKeepsInv == SessionSpec => []SessionInv
<1>1. ASSUME SessionInv, [SessionNext]_sessionVars
      PROVE  SessionInv'
  <2>1. /\ SessionTypeOK /\ QueuesFit /\ WireFits /\ Lifecycle /\ ProgramFollows /\ InTurn
        /\ LoadComesFirst
    BY <1>1 DEF SessionInv, Lifecycle
  <2>2. QueuesFit'
    BY <1>1, <2>1, QueuesStep
  <2>3. Lifecycle'
    BY <1>1, <2>1, LifecycleStep
  <2>4. SessionTypeOK' /\ WireFits'
    BY <1>1, <2>1, TypeStep
  <2>5. ProgramFollows'
    BY <1>1, <2>1, FollowsStep
  <2>6. InTurn'
    BY <1>1, <2>1, InTurnStep
  <2> QED
    BY <2>2, <2>3, <2>4, <2>5, <2>6 DEF SessionInv
<1> QED
  BY <1>1, SessionStarts, PTL DEF SessionSpec

\* The confirmations a request waits for are those that are due.
LEMMA RequestsAwaited ==
    ASSUME SessionTypeOK, QueuesFit
    PROVE  RequestsAreAwaited
<1> SUFFICES ASSUME NEW r \in RequestIds
             PROVE  /\ stage[r] = "waiting" => ~debuggerLoaded \/ <<"set", r>> \in Range(microtasks)
                    /\ unsettled[r] = Awaited(r)
                    /\ stage[r] = "binding" => Awaited(r) > 0 \/ <<"answer", r>> \in Range(microtasks)
  BY DEF RequestsAreAwaited
<1>1. /\ stage[r] = "waiting" => ~debuggerLoaded \/ <<"set", r>> \in Range(microtasks)
      /\ unsettled[r] = Count(breakpointCommands, BindCommands(r)) + Count(microtasks, BindTasks(r))
      /\ stage[r] = "binding" /\ unsettled[r] = 0 => <<"answer", r>> \in Range(microtasks)
  BY DEF QueuesFit, Awaits
<1>2. Count(breakpointCommands, BindCommands(r))
        = Cardinality({k \in DOMAIN breakpointCommands : breakpointCommands[k].request = r})
  <2>1. \A k \in DOMAIN breakpointCommands : breakpointCommands[k] \in [Id : Nat, request : RequestIds]
    <3>1. breakpointCommands \in Seq([Id : Ids, request : RequestIds]) /\ Ids \subseteq Nat
      BY IdsType DEF SessionTypeOK
    <3>2. \A k \in DOMAIN breakpointCommands : breakpointCommands[k] \in [Id : Ids, request : RequestIds]
      BY <3>1, LenProperties, ElementOfSeq
    <3> QED
      BY <3>1, <3>2
  <2>2. \A k \in DOMAIN breakpointCommands :
           breakpointCommands[k] \in BindCommands(r) <=> breakpointCommands[k].request = r
    BY <2>1 DEF BindCommands
  <2>3. {k \in DOMAIN breakpointCommands : breakpointCommands[k] \in BindCommands(r)}
          = {k \in DOMAIN breakpointCommands : breakpointCommands[k].request = r}
    BY <2>2
  <2> QED
    BY <2>3 DEF Count
<1>3. Count(microtasks, BindTasks(r))
        = Cardinality({k \in DOMAIN microtasks : microtasks[k][1] = "bound" /\ microtasks[k][2] = r})
  <2>1. \A k \in DOMAIN microtasks : microtasks[k] \in Tasks
    BY LenProperties, ElementOfSeq DEF QueuesFit, TasksFit
  <2>2. \A task \in Tasks : task \in BindTasks(r) <=> task[1] = "bound" /\ task[2] = r
    <3> SUFFICES ASSUME NEW task \in Tasks
                 PROVE  task \in BindTasks(r) <=> task[1] = "bound" /\ task[2] = r
      OBVIOUS
    <3>1. CASE \E q \in RequestIds, i \in Nat, verified \in BOOLEAN : task = <<"bound", q, i, verified>>
      <4>1. PICK q \in RequestIds, i \in Nat, verified \in BOOLEAN : task = <<"bound", q, i, verified>>
        BY <3>1
      <4>2. task[1] = "bound" /\ task[2] = q
        BY <4>1
      <4> QED
        BY <4>1, <4>2, BindTasksOf
    <3>2. CASE task = <<"resume", 0>> \/ \E q \in RequestIds : task = <<"set", q>> \/ task = <<"answer", q>>
      <4>1. task[1] # "bound"
        BY <3>2
      <4>2. task \notin BindTasks(r)
        BY <3>2, NoBindTasks
      <4> QED
        BY <4>1, <4>2
    <3> QED
      BY <3>1, <3>2 DEF Tasks
  <2>3. \A k \in DOMAIN microtasks :
           microtasks[k] \in BindTasks(r) <=> microtasks[k][1] = "bound" /\ microtasks[k][2] = r
    BY <2>1, <2>2
  <2>4. {k \in DOMAIN microtasks : microtasks[k] \in BindTasks(r)}
          = {k \in DOMAIN microtasks : microtasks[k][1] = "bound" /\ microtasks[k][2] = r}
    BY <2>3
  <2> QED
    BY <2>4 DEF Count
<1>4. unsettled[r] = Awaited(r) /\ unsettled[r] \in Nat
  BY <1>1, <1>2, <1>3 DEF Awaited, SessionTypeOK
<1> QED
  BY <1>1, <1>4

\* The types and the bookkeeping of the session: a request waits for the load, for confirmations
\* that are due or for its answer, the session has its process where it counts on it, and the two
\* registries agree; for any files, lines and number of requests.
THEOREM SessionBooksAgree == SessionSpec => []SessionInvariant
<1>1. SessionInv => SessionInvariant
  <2> SUFFICES ASSUME SessionInv PROVE SessionInvariant
    OBVIOUS
  <2>1. SessionTypeOK /\ RequestsAreAwaited /\ RegistriesAgree
    BY RequestsAwaited DEF SessionInv, QueuesFit
  <2>2. ProcessIsThere /\ (resumeWaits => configurationDone = "pending")
    BY DEF SessionInv, Lifecycle, Stays, LoadComesFirst, ProcessIsThere
  <2> QED
    BY <2>1, <2>2 DEF SessionInvariant
<1> QED
  BY <1>1, SessionKeepsInv, PTL

\* The last request of a file whose requests were answered, and what it left enabled.
LEMMA LastAnswered ==
    ASSUME SessionInv, NEW f \in Files, AllAnswered(f), f \notin overlapped
    PROVE  LinesOf(enabled, f) = LastLines(f)
<1> DEFINE R == {r \in DOMAIN requests : requests[r].file = f}
           last == Max(R)
<1>1. DOMAIN requests = 1 .. Len(requests) /\ Len(requests) \in Nat
  BY LenProperties DEF SessionInv, SessionTypeOK
<1>2. R # {} /\ R \in SUBSET (1 .. Len(requests))
  BY <1>1 DEF AllAnswered
<1> HIDE DEF R
<1>3. last \in R /\ \A q \in R : last >= q
  BY <1>1, <1>2, MaxProperties
<1> HIDE DEF last
<1>4. /\ last \in DOMAIN requests /\ requests[last].file = f
      /\ \A q \in DOMAIN requests : requests[q].file = f => q <= last
  BY <1>1, <1>3 DEF R
<1>5. stage[last] = "answered" /\ ~terminateEventSent
  BY <1>4 DEF AllAnswered
<1>6. LinesOf(enabled, f) = requests[last].lines
  BY <1>4, <1>5 DEF SessionInv, InTurn, EnabledFits
<1> QED
  BY <1>6 DEF LastLines, last, R

\* When the editor waits for an answer before it asks again, the enabled breakpoints are those of
\* its last request, and the program comes to stop at these lines and no other.
THEOREM EditorAndProgramAgree == SessionSpec => []BreakpointsAgree
<1>1. SessionInv => BreakpointsAgree
  <2> SUFFICES ASSUME SessionInv, NEW f \in Files, AllAnswered(f), f \notin overlapped
               PROVE  Agree(f)
    BY DEF BreakpointsAgree
  <2>1. LinesOf(enabled, f) = LastLines(f)
    BY LastAnswered
  <2>2. ASSUME ProgramConnected, toProgram = <<>>
        PROVE  LinesOf(active, f) = LastLines(f)
    <3>1. \A i \in Ids : WillStop(active, toProgram, i) <=> i \in enabled
      BY <2>2 DEF SessionInv, ProgramFollows, AllAnswered
    <3>2. \A i : WillStop(active, <<>>, i) <=> i \in active
      BY DEF WillStop
    <3>3. active \subseteq Ids /\ enabled \subseteq Ids
      BY DEF SessionInv, SessionTypeOK
    <3>4. active = enabled
      BY <2>2, <3>1, <3>2, <3>3
    <3> QED
      BY <2>1, <3>4
  <2> QED
    BY <2>1, <2>2 DEF Agree
<1> QED
  BY <1>1, SessionKeepsInv, PTL

\* Only the loop that handles the messages of a data event takes one of them.
LEMMA HitIsHandled ==
    ASSUME SessionInv, SessionNext, batch > 0, batch' < batch, NEW i \in Ids,
           Head(toAdapter) = <<"BRKH", i>>
    PROVE  HitStep(i)
<1> USE DEF adapterVars
<1>1. SessionTypeOK /\ QueuesFit /\ batch \in Nat
  BY LenProperties DEF SessionInv, SessionTypeOK
<1>2. batch # 0 /\ batch' # batch
  BY <1>1
<1>3. OtherStep => FALSE
  <2>1. ~(LaunchRequest \/ LaunchFails \/ DisconnectRequest \/ SocketCloses \/ LastTimerFires \/ DataEvent
             \/ ContinueRequest)
    BY <1>2 DEF LaunchRequest, LaunchFails, DisconnectRequest, SocketCloses, LastTimerFires,
                DataEvent, ContinueRequest, EventLoopIdle
  <2>2. ~(ProgramConnects \/ ProgramObeys \/ ProgramRuns \/ ProgramExits)
    BY <1>2 DEF ProgramConnects, ProgramObeys, ProgramRuns, ProgramExits
  <2> QED
    BY <2>1, <2>2 DEF OtherStep
<1>4. /\ \A f \in Files, lines \in SUBSET Lines : ~SetBreakPointsRequest(f, lines)
      /\ ~ConfigurationDoneRequest
  BY <1>2 DEF SetBreakPointsRequest, ConfigurationDoneRequest, EventLoopIdle
<1>5. /\ \A r \in RequestIds : ~SetStep(r) /\ ~AnswerStep(r)
      /\ \A r \in RequestIds, j \in Nat, verified \in BOOLEAN : ~BoundStep(r, j, verified)
      /\ ~ResumeStep
  BY <1>2 DEF SetStep, AnswerStep, BoundStep, ResumeStep, TaskRuns
<1>6. ASSUME NEW kind, NEW j, MessageIs(<<kind, j>>)
      PROVE  kind = "BRKH" /\ j = i
  BY <1>6 DEF MessageIs
<1>7. ~(LoadStep \/ OutputStep \/ LastStep \/ \E j \in Nat : ConfirmStep(j))
  BY <1>6 DEF LoadStep, OutputStep, LastStep, ConfirmStep
<1>8. \E j \in Nat : HitStep(j)
  BY Zenon, <1>1, <1>3, <1>4, <1>5, <1>7, StepCases
<1> QED
  BY <1>6, <1>8 DEF HitStep

\* The hit of a breakpoint that stands in the editor stops the session.
THEOREM StandingHitsStop == SessionSpec => HitsAreHonoured
<1>1. ASSUME SessionInv, [SessionNext]_sessionVars
      PROVE  [\A i \in Ids :
                LET f == breakpoints[i].file
                IN  /\ batch > 0 /\ batch' < batch /\ Head(toAdapter) = <<"BRKH", i>>
                    /\ AllAnswered(f) /\ f \notin overlapped /\ breakpoints[i].line \in LastLines(f)
                    => editor'.stopped]_sessionVars
  <2> SUFFICES ASSUME SessionNext, NEW i \in Ids,
                      batch > 0, batch' < batch, Head(toAdapter) = <<"BRKH", i>>,
                      AllAnswered(breakpoints[i].file), breakpoints[i].file \notin overlapped,
                      breakpoints[i].line \in LastLines(breakpoints[i].file)
               PROVE  editor'.stopped
    BY <1>1
  <2> DEFINE f == breakpoints[i].file
  <2>1. AllAnswered(f) /\ f \notin overlapped /\ breakpoints[i].line \in LastLines(f)
    OBVIOUS
  <2>2. HitStep(i)
    BY <1>1, HitIsHandled
  <2>3. f \in Files /\ i \in Nat
    <3>1. breakpoints \in Seq([file : Files, line : Lines]) /\ Ids \subseteq Nat
      BY <1>1, IdsType DEF SessionInv, SessionTypeOK
    <3>2. breakpoints[i] \in [file : Files, line : Lines]
      BY <3>1, LenProperties, ElementOfSeq DEF Ids
    <3> QED
      BY <3>1, <3>2
  <2>4. i \in enabled
    <3>1. breakpoints[i].line \in LinesOf(enabled, f)
      BY <1>1, <2>1, <2>3, LastAnswered
    <3>2. PICK j \in enabled : breakpoints[j].file = f /\ breakpoints[j].line = breakpoints[i].line
      BY <3>1 DEF LinesOf
    <3>3. OneForLine(f) /\ enabled \subseteq Ids
      BY <1>1, <2>1, <2>3 DEF SessionInv, InTurn, SessionTypeOK
    <3> QED
      BY <3>2, <3>3 DEF OneForLine
  <2>5. ASSUME NEW q \in RequestIds, stage[q] = "binding", requests[q].file = f
        PROVE  FALSE
    <3>1. stage[q] # "unsent" /\ SessionTypeOK /\ Sent
      BY <1>1, <2>5 DEF SessionInv, QueuesFit
    <3>2. q \in DOMAIN requests
      BY <3>1, RequestType
    <3> QED
      BY <2>1, <2>5, <3>2 DEF AllAnswered
  <2>6. i \in registeredBreakpoints
    <3>1. QueuesFit /\ breakpointCommands \in Seq([Id : Ids, request : RequestIds])
      BY <1>1 DEF SessionInv, SessionTypeOK
    <3>2. Range(breakpointCommands) \subseteq [Id : Ids, request : RequestIds]
      BY <3>1, RangeOfSeq
    <3>3. ASSUME NEW command \in Range(breakpointCommands), command.Id = i
          PROVE  FALSE
      <4>1. command.request \in RequestIds
        BY <3>2
      <4>2. stage[command.request] = "binding" /\ requests[command.request].file = f
        BY <3>1, <3>3 DEF QueuesFit, CommandsFit
      <4> QED
        BY <2>5, <4>1, <4>2
    <3>4. ASSUME NEW q \in RequestIds, NEW verified \in BOOLEAN,
                 <<"bound", q, i, verified>> \in Range(microtasks)
          PROVE  FALSE
      <4>1. stage[q] = "binding" /\ requests[q].file = f
        BY <2>3, <3>1, <3>4 DEF QueuesFit, TasksFit
      <4> QED
        BY <2>5, <4>1
    <3> QED
      BY <3>1, <3>3, <3>4 DEF QueuesFit, BuiltAreKnown
  <2>7. editor' = [editor EXCEPT !.stopped = TRUE]
    BY <2>2, <2>4, <2>6 DEF HitStep, HandleBreakPointHit
  <2>8. editor \in [stopped : BOOLEAN, launched : 0 .. 3, terminated : 0 .. 3, gone : BOOLEAN]
    BY <1>1 DEF SessionInv, SessionTypeOK
  <2> QED
    BY <2>7, <2>8
<1> QED
  BY <1>1, SessionKeepsInv, PTL DEF SessionSpec, HitsAreHonoured

=============================================================================
