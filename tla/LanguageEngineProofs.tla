------------------------ MODULE LanguageEngineProofs ------------------------
(***************************************************************************)
(* Proofs about the two engines of the language features: the JediProxy,   *)
(* whose requests settle at most once and in order, and the language       *)
(* server, of which one runs while restarts do not overlap.  They have no  *)
(* state in common: the activation starts one or the other.                *)
(***************************************************************************)
EXTENDS JediProxy, LanguageServer, SequenceTheorems, FiniteSetTheorems, TLAPS

-----------------------------------------------------------------------------
(* Sequences.                                                              *)

LEMMA RemoveAtProperties ==
    ASSUME NEW S, NEW q \in Seq(S), NEW i \in 1 .. Len(q)
    PROVE  /\ RemoveAt(q, i) \in Seq(S)
           /\ Len(RemoveAt(q, i)) = Len(q) - 1
           /\ \A j \in 1 .. Len(q) - 1 :
                 RemoveAt(q, i)[j] = IF j < i THEN q[j] ELSE q[j + 1]
<1> DEFINE front == SubSeq(q, 1, i - 1)
           rest == SubSeq(q, i + 1, Len(q))
<1>1. Len(q) \in Nat
  BY LenProperties
<1>2. \A j \in 1 .. Len(q) : q[j] \in S
  BY ElementOfSeq
<1>3. /\ front \in Seq(S)
      /\ Len(front) = i - 1
      /\ \A j \in 1 .. i - 1 : front[j] = q[j]
  BY <1>1, <1>2, SubSeqProperties
<1>4. /\ rest \in Seq(S)
      /\ Len(rest) = Len(q) - i
      /\ \A j \in 1 .. Len(q) - i : rest[j] = q[i + j]
  BY <1>1, <1>2, SubSeqProperties
<1> HIDE DEF front, rest
<1>5. RemoveAt(q, i) = front \o rest
  BY DEF RemoveAt, front, rest
<1>6. /\ front \o rest \in Seq(S)
      /\ Len(front \o rest) = Len(front) + Len(rest)
      /\ \A j \in 1 .. Len(front) + Len(rest) :
            (front \o rest)[j] = IF j <= Len(front) THEN front[j] ELSE rest[j - Len(front)]
  BY <1>3, <1>4, ConcatProperties
<1>7. Len(front) + Len(rest) = Len(q) - 1
  BY <1>1, <1>3, <1>4
<1>8. ASSUME NEW j \in 1 .. Len(q) - 1
      PROVE  (front \o rest)[j] = IF j < i THEN q[j] ELSE q[j + 1]
  <2>1. (front \o rest)[j] = IF j <= Len(front) THEN front[j] ELSE rest[j - Len(front)]
    BY <1>6, <1>7
  <2>2. CASE j < i
    BY <1>1, <1>3, <2>1, <2>2
  <2>3. CASE ~(j < i)
    <3>1. j - Len(front) \in 1 .. Len(q) - i /\ i + (j - Len(front)) = j + 1
      BY <1>1, <1>3, <2>3
    <3> QED
      BY <1>1, <1>3, <1>4, <2>1, <2>3, <3>1
  <2> QED
    BY <2>2, <2>3
<1> QED
  BY <1>5, <1>6, <1>7, <1>8

\* A suffix that starts after the n-th element.
LEMMA SuffixProperties ==
    ASSUME NEW S, NEW q \in Seq(S), NEW n \in 0 .. Len(q)
    PROVE  /\ SubSeq(q, n + 1, Len(q)) \in Seq(S)
           /\ Len(SubSeq(q, n + 1, Len(q))) = Len(q) - n
           /\ \A i \in 1 .. Len(q) - n : SubSeq(q, n + 1, Len(q))[i] = q[i + n]
<1>1. Len(q) \in Nat
  BY LenProperties
<1>2. \A i \in n + 1 .. Len(q) : q[i] \in S
  BY <1>1, ElementOfSeq
<1> QED
  BY <1>1, <1>2, SubSeqProperties

-----------------------------------------------------------------------------
(* The operators on the queue.                                             *)

LEMMA TrimmedProperties ==
    ASSUME NEW S, NEW q \in Seq(S)
    PROVE  /\ Excess(q) \in 0 .. Len(q)
           /\ Trimmed(q) \in Seq(S)
           /\ Len(Trimmed(q)) = Len(q) - Excess(q)
           /\ \A i \in 1 .. Len(q) - Excess(q) : Trimmed(q)[i] = q[i + Excess(q)]
<1>1. Excess(q) \in 0 .. Len(q)
  BY QueueLimitAssumption, LenProperties DEF Excess
<1> QED
  BY <1>1, SuffixProperties DEF Trimmed

\* An id of the queue is either left at the head or removed.
LEMMA SplicedCases ==
    ASSUME NEW S, NEW q \in Seq(S), NEW r \in Range(q)
    PROVE  \/ q[1] = r /\ Spliced(q, r) = q
           \/ \E i \in 2 .. Len(q) : q[i] = r /\ Spliced(q, r) = RemoveAt(q, i)
<1> DEFINE at == CHOOSE i \in 1 .. Len(q) : q[i] = r
<1>1. Len(q) \in Nat /\ DOMAIN q = 1 .. Len(q)
  BY LenProperties
<1>2. \E i \in 1 .. Len(q) : q[i] = r
  BY <1>1 DEF Range
<1>3. at \in 1 .. Len(q) /\ q[at] = r
  BY <1>2
<1>4. q # <<>>
  BY <1>1, <1>2, EmptySeq
<1>5. CASE q[1] = r
  BY <1>4, <1>5 DEF Spliced
<1>6. CASE q[1] # r
  <2>1. Spliced(q, r) = RemoveAt(q, at)
    BY <1>6 DEF Spliced
  <2> HIDE DEF at
  <2> QED
    BY <1>1, <1>3, <1>6, <2>1
<1> QED
  BY <1>5, <1>6

-----------------------------------------------------------------------------
(* Types.                                                                  *)

LEMMA SettleType ==
    ASSUME TypeOK, NEW rs, NEW outcome \in {None, "answer", "undefined"}
    PROVE  Settle(rs, outcome) \in [Requests -> {None, "answer", "undefined"}]
  BY DEF Settle, TypeOK

LEMMA SplicedType ==
    ASSUME NEW S, NEW q \in Seq(S), NEW r
    PROVE  Spliced(q, r) \in Seq(S)
<1>1. Len(q) \in Nat
  BY LenProperties
<1>2. CASE q # <<>> /\ q[1] = r
  BY <1>2 DEF Spliced
<1>3. CASE ~(q # <<>> /\ q[1] = r) /\ r \in Range(q)
  BY <1>3, SplicedCases, RemoveAtProperties
<1>4. CASE ~(q # <<>> /\ q[1] = r) /\ r \notin Range(q)
  <2>1. \A i \in 1 .. Len(q) - 1 : q[i] \in S
    BY <1>1, ElementOfSeq
  <2>2. SubSeq(q, 1, Len(q) - 1) \in Seq(S)
    BY <1>1, <2>1, SubSeqProperties
  <2> QED
    BY <1>4, <2>2 DEF Spliced
<1> QED
  BY <1>2, <1>3, <1>4

LEMMA ParsedType ==
    ASSUME NEW data \in Seq(Pieces)
    PROVE  Parsed(data) \in Seq(Requests)
<1>1. Len(data) \in Nat /\ Len(data) \div 2 \in Nat
  BY LenProperties
<1>2. \A i \in 1 .. Len(data) \div 2 : data[2 * i][1] \in Requests
  <2> SUFFICES ASSUME NEW i \in 1 .. Len(data) \div 2
               PROVE  data[2 * i][1] \in Requests
    OBVIOUS
  <2>1. 2 * i \in 1 .. Len(data)
    BY <1>1
  <2> QED
    BY <2>1, ElementOfSeq DEF Pieces
<1> QED
  BY <1>1, <1>2, IsASeq DEF Parsed

LEMMA BeginSpawnType ==
    ASSUME TypeOK, NEW n, BeginSpawn(n)
    PROVE  /\ started' \in [Spawns -> {"pending", "resolved", "rejected"}]
           /\ languageServerStarted' \in 0 .. MaxSpawns
           /\ spawning' \subseteq Spawns
  BY BoundsAssumption DEF TypeOK, BeginSpawn, StartedReplaced, SettleDeferred, Spawns

LEMMA TypeStep == TypeOK /\ [Next]_vars => TypeOK'
<1> SUFFICES ASSUME TypeOK, [Next]_vars
             PROVE  TypeOK'
  OBVIOUS
<1> USE DEF callerVars, queueVars, dataVars, spawnVars, pipeVars
<1>1. ASSUME NEW t \in CommandTypes, SendCommand(t)
      PROVE  TypeOK'
  <2>1. cmdId \in Requests /\ cmdId + 1 \in 0 .. MaxRequests
    BY <1>1, BoundsAssumption DEF TypeOK, SendCommand, Requests
  <2>2. current[t] \subseteq Requests
    BY DEF TypeOK
  <2> QED
    BY <1>1, <2>1, <2>2 DEF TypeOK, SendCommand, Superseded
<1>2. CASE SendNonCancellableCommand
  BY <1>2, BoundsAssumption, SMTT(60) DEF TypeOK, SendNonCancellableCommand, Requests
<1>3. ASSUME NEW r \in Requests, EditorCancels(r)
      PROVE  TypeOK'
  BY <1>3 DEF TypeOK, EditorCancels
<1>4. ASSUME NEW r \in Requests, AwaitLanguageServer(r)
      PROVE  TypeOK'
  BY <1>4 DEF TypeOK, AwaitLanguageServer
<1>5. ASSUME NEW r \in Requests, WriteCommand(r)
      PROVE  TypeOK'
  BY <1>5, AppendProperties DEF TypeOK, WriteCommand
<1>6. ASSUME NEW r \in Requests, WriteFails(r)
      PROVE  TypeOK'
  BY <1>6, BoundsAssumption DEF TypeOK, WriteFails
<1>7. ASSUME NEW r \in Requests, SendFails(r)
      PROVE  TypeOK'
  BY <1>7 DEF TypeOK, SendFails
<1>8. ASSUME NEW n, RestartLanguageServer(n), bootSpawn' \in 0 .. MaxSpawns
      PROVE  TypeOK'
  BY <1>8, BeginSpawnType, SettleType, BoundsAssumption, SMTT(60)
  DEF TypeOK, RestartLanguageServer, ClearPendingRequests, KilledServer
<1>9. CASE StartLanguageServer
  <2>1. bootSpawn' \in 0 .. MaxSpawns
    BY <1>9, BoundsAssumption
    DEF TypeOK, StartLanguageServer, RestartLanguageServer, BeginSpawn, Spawns
  <2> QED
    BY <1>8, <1>9, <2>1 DEF StartLanguageServer
<1>10. CASE RestartOnChange
  BY <1>8, <1>10 DEF RestartOnChange, TypeOK
<1>11. ASSUME NEW n \in Spawns, SpawnSucceeds(n)
       PROVE  TypeOK'
  BY <1>11, BoundsAssumption, SMTT(60)
  DEF TypeOK, SpawnSucceeds, EndSpawn, SettleStarted, SettleDeferred, Spawns
<1>12. ASSUME NEW n \in Spawns, SpawnFindsNoPython(n) \/ SpawnThrows(n)
       PROVE  TypeOK'
  <2>1. CASE SpawnFindsNoPython(n)
    BY <2>1, SMTT(60) DEF TypeOK, SpawnFindsNoPython, EndSpawn, SettleStarted, SettleDeferred
  <2>2. CASE SpawnThrows(n)
    BY <2>2, SMTT(60) DEF TypeOK, SpawnThrows, EndSpawn, SettleStarted, SettleDeferred
  <2> QED
    BY <1>12, <2>1, <2>2
<1>13. ASSUME NEW n \in Spawns, RespawnAfterError(n)
       PROVE  TypeOK'
  <2>1. spawnRetryAttempts' \in 0 .. RetryLimit
    BY <1>13, RetryLimitAssumption DEF TypeOK, RespawnAfterError, RespawnAllowed
  <2>2. /\ started' \in [Spawns -> {"pending", "resolved", "rejected"}]
        /\ languageServerStarted' \in 0 .. MaxSpawns
        /\ spawning' \subseteq Spawns
    BY <1>13, BeginSpawnType DEF RespawnAfterError
  <2> QED
    BY <1>13, <2>1, <2>2 DEF TypeOK, RespawnAfterError
<1>14. ASSUME NEW n \in Spawns, ErrorAfterLastRetry(n)
       PROVE  TypeOK'
  BY <1>14, RetryLimitAssumption DEF TypeOK, ErrorAfterLastRetry
<1>15. ASSUME NEW n \in Spawns, ReadData(n)
       PROVE  TypeOK'
  <2>1. PICK k \in 1 .. Len(stdout[n]) :
           LET data == previousData \o SubSeq(stdout[n], 1, k)
           IN  /\ stdout' = [stdout EXCEPT ![n] = SubSeq(@, k + 1, Len(@))]
               /\ IF Parses(data)
                  THEN previousData' = <<>> /\ responses' = Parsed(data)
                  ELSE previousData' = data /\ UNCHANGED responses
    BY <1>15 DEF ReadData
  <2> DEFINE data == previousData \o SubSeq(stdout[n], 1, k)
  <2>2. stdout[n] \in Seq(Pieces) /\ Len(stdout[n]) \in Nat
    BY LenProperties DEF TypeOK
  <2>3. \A i \in 1 .. Len(stdout[n]) : stdout[n][i] \in Pieces
    BY <2>2, ElementOfSeq
  <2>4. SubSeq(stdout[n], 1, k) \in Seq(Pieces)
    BY <2>2, <2>3, SubSeqProperties
  <2>5. SubSeq(stdout[n], k + 1, Len(stdout[n])) \in Seq(Pieces)
    BY <2>2, SuffixProperties
  <2>6. data \in Seq(Pieces)
    BY <2>4, ConcatProperties DEF TypeOK
  <2>7. /\ stdout' \in [Spawns -> Seq(Pieces)]
        /\ previousData' \in Seq(Pieces)
        /\ responses' \in Seq(Requests)
    BY <2>1, <2>5, <2>6, ParsedType, EmptySeq DEF TypeOK
  <2> QED
    BY <1>15, <2>7 DEF TypeOK, ReadData
<1>16. ASSUME NEW n \in Spawns, ServerWrites(n)
       PROVE  TypeOK'
  <2>1. /\ stdin[n] \in Seq(Requests) /\ stdin[n] # <<>>
        /\ Head(stdin[n]) \in Requests /\ Tail(stdin[n]) \in Seq(Requests)
    BY <1>16, HeadTailProperties DEF TypeOK, ServerWrites
  <2>2. <<Head(stdin[n]), written[n] + 1>> \in Pieces
    <3>1. written[n] \in {0, 1}
      BY DEF TypeOK
    <3>2. written[n] + 1 \in {1, 2}
      BY <3>1
    <3> QED
      BY <2>1, <3>2 DEF Pieces
  <2>3. Append(stdout[n], <<Head(stdin[n]), written[n] + 1>>) \in Seq(Pieces)
    BY <2>2, AppendProperties DEF TypeOK
  <2> QED
    BY <1>16, <2>1, <2>3 DEF TypeOK, ServerWrites
<1>17. ASSUME NEW n \in Spawns, ServerRaises(n)
       PROVE  TypeOK'
  <2>1. Tail(stdin[n]) \in Seq(Requests)
    BY <1>17, HeadTailProperties DEF TypeOK, ServerRaises
  <2> QED
    BY <1>17, <2>1 DEF TypeOK, ServerRaises
<1>18. ASSUME NEW n \in Spawns, ServerCrashes(n)
       PROVE  TypeOK'
  BY <1>18 DEF TypeOK, ServerCrashes
<1>19. CASE HandleResponse
  <2>1. Tail(responses) \in Seq(Requests)
    BY <1>19, HeadTailProperties
    DEF TypeOK, HandleResponse, IgnoreResponse, ExpireResponse, AnswerRequest
  <2>2. \A q \in Seq(Requests) : Trimmed(q) \in Seq(Requests)
    BY TrimmedProperties
  <2>3. CASE IgnoreResponse
    BY <2>1, <2>3 DEF TypeOK, IgnoreResponse
  <2>4. CASE ExpireResponse
    BY <2>1, <2>4, SplicedType, SettleType DEF TypeOK, ExpireResponse
  <2>5. CASE AnswerRequest
    <3> DEFINE r == Head(responses)
               q == Spliced(commandQueue, r)
               given_up == Dropped(q) \intersect (commands \ {r})
    <3>1. Trimmed(q) \in Seq(Requests)
      BY <2>2, SplicedType DEF TypeOK
    <3>2. Settle(given_up, "undefined") \in [Requests -> {None, "answer", "undefined"}]
      BY SettleType
    <3>3. /\ r \in commands
          /\ commands' = commands \ ({r} \union given_up)
          /\ commandQueue' = Trimmed(q)
          /\ result' = Answered(r, Settle(given_up, "undefined"))
      BY <2>5 DEF AnswerRequest
    <3> HIDE DEF r, q, given_up
    <3>4. /\ commands' \subseteq Requests
          /\ commandQueue' \in Seq(Requests)
          /\ result' \in [Requests -> {None, "answer", "undefined"}]
      BY <3>1, <3>2, <3>3 DEF TypeOK, Answered
    <3> QED
      BY <2>1, <2>5, <3>4 DEF TypeOK, AnswerRequest
  <2> QED
    BY <1>19, <2>3, <2>4, <2>5 DEF HandleResponse
<1>20. CASE Dispose
  BY <1>20, BoundsAssumption DEF TypeOK, Dispose, KilledServer
<1>21. CASE UNCHANGED vars
  BY <1>21 DEF TypeOK, vars
<1> QED
  BY <1>1, <1>2, <1>3, <1>4, <1>5, <1>6, <1>7, <1>9, <1>10, <1>11, <1>12, <1>13,
     <1>14, <1>15, <1>16, <1>17, <1>18, <1>19, <1>20, <1>21
  DEF Next

LEMMA TypeInit == Init => TypeOK
<1> SUFFICES ASSUME Init
             PROVE  TypeOK
  OBVIOUS
<1>1. /\ <<>> \in Seq(Requests)
      /\ <<>> \in Seq(Pieces)
  BY EmptySeq
<1>2. /\ 0 \in 0 .. MaxRequests
      /\ 0 \in 0 .. MaxSpawns
      /\ 0 \in 0 .. RetryLimit
  BY BoundsAssumption, RetryLimitAssumption
<1> QED
  BY <1>1, <1>2 DEF Init, TypeOK

\* Every variable of a JediProxy keeps its type, whatever the bounds and the
\* faults; in particular the error events of dead processes start fewer than
\* RetryLimit spawns.
THEOREM TypeCorrect == Spec => []TypeOK
  BY TypeInit, TypeStep, PTL DEF Spec
-----------------------------------------------------------------------------
(* The queue lists the tracked requests.                                   *)

LEMMA RangeOfQueue ==
    ASSUME NEW S, NEW q \in Seq(S)
    PROVE  /\ Len(q) \in Nat
           /\ \A x : x \in Range(q) <=> \E i \in 1 .. Len(q) : q[i] = x
  BY LenProperties DEF Range

LEMMA AppendLists ==
    ASSUME NEW S, NEW q \in Seq(S), NEW rs, Lists(q, rs),
           NEW r \in S, r \notin Range(q)
    PROVE  /\ Lists(Append(q, r), rs \union {r})
           /\ Range(Append(q, r)) = Range(q) \union {r}
<1> DEFINE new == Append(q, r)
<1>1. /\ new \in Seq(S) /\ Len(q) \in Nat /\ Len(new) = Len(q) + 1
      /\ \A i \in 1 .. Len(q) : new[i] = q[i]
      /\ new[Len(q) + 1] = r
  BY AppendProperties, LenProperties
<1>2. \A x : x \in Range(q) <=> \E i \in 1 .. Len(q) : q[i] = x
  BY RangeOfQueue
<1>3. \A x : x \in Range(new) <=> \E i \in 1 .. Len(new) : new[i] = x
  BY <1>1, RangeOfQueue
<1> HIDE DEF new
<1>4. Range(new) = Range(q) \union {r}
  <2>1. ASSUME NEW x \in Range(new)
        PROVE  x \in Range(q) \union {r}
    <3>1. PICK i \in 1 .. Len(new) : new[i] = x
      BY <1>3, <2>1
    <3>2. CASE i \in 1 .. Len(q)
      BY <1>1, <1>2, <3>1, <3>2
    <3>3. CASE i = Len(q) + 1
      BY <1>1, <3>1, <3>3
    <3> QED
      BY <1>1, <3>2, <3>3
  <2>2. ASSUME NEW x \in Range(q)
        PROVE  x \in Range(new)
    <3>1. PICK i \in 1 .. Len(q) : q[i] = x
      BY <1>2, <2>2
    <3> QED
      BY <1>1, <1>3, <3>1
  <2>3. r \in Range(new)
    BY <1>1, <1>3
  <2> QED
    BY <2>1, <2>2, <2>3
<1>5. \A i \in 2 .. Len(new) : new[i] \in rs \union {r}
  BY <1>1 DEF Lists
<1>6. \A i, j \in 1 .. Len(new) : new[i] = new[j] => i = j
  BY <1>1, <1>2 DEF Lists
<1> QED
  BY <1>4, <1>5, <1>6 DEF Lists, new

LEMMA SplicedLists ==
    ASSUME NEW S, NEW q \in Seq(S), NEW rs, Lists(q, rs), NEW r \in rs
    PROVE  /\ Spliced(q, r) \in Seq(S)
           /\ Lists(Spliced(q, r), rs \ {r})
           /\ Range(Spliced(q, r)) \subseteq Range(q)
<1>1. r \in Range(q)
  BY DEF Lists
<1>2. /\ Len(q) \in Nat
      /\ \A x : x \in Range(q) <=> \E i \in 1 .. Len(q) : q[i] = x
  BY RangeOfQueue
<1>3. CASE q[1] = r /\ Spliced(q, r) = q
  BY <1>1, <1>2, <1>3 DEF Lists
<1>4. ASSUME NEW i \in 2 .. Len(q), q[i] = r, Spliced(q, r) = RemoveAt(q, i)
      PROVE  /\ Spliced(q, r) \in Seq(S)
             /\ Lists(Spliced(q, r), rs \ {r})
             /\ Range(Spliced(q, r)) \subseteq Range(q)
  <2> DEFINE new == RemoveAt(q, i)
  <2>1. /\ new \in Seq(S) /\ Len(new) = Len(q) - 1
        /\ \A j \in 1 .. Len(q) - 1 : new[j] = IF j < i THEN q[j] ELSE q[j + 1]
    BY <1>2, RemoveAtProperties
  <2>2. \A x : x \in Range(new) <=> \E j \in 1 .. Len(new) : new[j] = x
    BY <2>1, RangeOfQueue
  <2> HIDE DEF new
  <2>3. ASSUME NEW x \in rs \ {r}
        PROVE  x \in Range(new)
    <3>1. PICK j \in 1 .. Len(q) : q[j] = x
      BY <1>2 DEF Lists
    <3>2. CASE j < i
      BY <1>2, <2>1, <2>2, <3>1, <3>2
    <3>3. CASE j > i
      <4>1. j - 1 \in 1 .. Len(new) /\ new[j - 1] = x
        BY <1>2, <2>1, <3>1, <3>3
      <4> QED
        BY <2>2, <4>1
    <3>4. j # i
      BY <1>4, <3>1
    <3> QED
      BY <3>2, <3>3, <3>4
  <2>4. \A j \in 1 .. Len(new) : new[j] # r
    BY <1>2, <1>4, <2>1 DEF Lists
  <2>5. \A j \in 2 .. Len(new) : new[j] \in rs \ {r}
    BY <1>2, <2>1, <2>4 DEF Lists
  <2>6. \A j, k \in 1 .. Len(new) : new[j] = new[k] => j = k
    BY <1>2, <2>1, SMTT(60) DEF Lists
  <2>7. Range(new) \subseteq Range(q)
    BY <1>2, <2>1, <2>2
  <2> QED
    BY <1>4, <2>1, <2>3, <2>5, <2>6, <2>7 DEF Lists, new
<1> QED
  BY <1>1, <1>3, <1>4, SplicedCases

LEMMA TrimmedLists ==
    ASSUME NEW S, NEW q \in Seq(S), NEW rs, Lists(q, rs)
    PROVE  /\ Lists(Trimmed(q), rs \ Dropped(q))
           /\ Range(Trimmed(q)) \subseteq Range(q)
<1> DEFINE new == Trimmed(q)
           n == Excess(q)
<1>1. /\ Len(q) \in Nat /\ n \in 0 .. Len(q)
      /\ new \in Seq(S) /\ Len(new) = Len(q) - n
      /\ \A i \in 1 .. Len(q) - n : new[i] = q[i + n]
  BY TrimmedProperties, LenProperties
<1>2. \A x : x \in Range(q) <=> \E i \in 1 .. Len(q) : q[i] = x
  BY RangeOfQueue
<1>3. \A x : x \in Range(new) <=> \E i \in 1 .. Len(new) : new[i] = x
  BY <1>1, RangeOfQueue
<1>4. Dropped(q) = {q[i] : i \in 1 .. n}
  BY DEF Dropped
<1> HIDE DEF new, n
<1>5. ASSUME NEW x \in rs \ Dropped(q)
      PROVE  x \in Range(new)
  <2>1. PICK i \in 1 .. Len(q) : q[i] = x
    BY <1>2 DEF Lists
  <2>2. i - n \in 1 .. Len(new)
    BY <1>1, <1>4, <2>1
  <2>3. new[i - n] = x
    BY <1>1, <2>1, <2>2
  <2> QED
    BY <1>3, <2>2, <2>3
<1>6. ASSUME NEW i \in 2 .. Len(new)
      PROVE  new[i] \in rs \ Dropped(q)
  <2>1. i + n \in 2 .. Len(q) /\ new[i] = q[i + n]
    BY <1>1
  <2>2. q[i + n] \in rs
    BY <1>1, <2>1 DEF Lists
  <2>3. \A j \in 1 .. n : q[j] # q[i + n]
    BY <1>1, <2>1 DEF Lists
  <2>4. q[i + n] \notin {q[j] : j \in 1 .. n}
    BY <2>3
  <2> QED
    BY <1>4, <2>1, <2>2, <2>4
<1>7. ASSUME NEW i \in 1 .. Len(new), NEW j \in 1 .. Len(new), new[i] = new[j]
      PROVE  i = j
  <2>1. /\ i + n \in 1 .. Len(q) /\ new[i] = q[i + n]
        /\ j + n \in 1 .. Len(q) /\ new[j] = q[j + n]
    <3>1. i \in 1 .. Len(q) - n /\ j \in 1 .. Len(q) - n
      BY <1>1
    <3> QED
      BY <1>1, <3>1
  <2>2. i + n = j + n
    BY <1>7, <2>1 DEF Lists
  <2> QED
    BY <1>1, <2>2
<1>8. Range(new) \subseteq Range(q)
  BY <1>1, <1>2, <1>3
<1> QED
  BY <1>5, <1>6, <1>7, <1>8 DEF Lists, new

\* Dropped ids were queued.
LEMMA DroppedInRange ==
    ASSUME NEW S, NEW q \in Seq(S)
    PROVE  Dropped(q) \subseteq Range(q)
<1>1. Excess(q) \in 0 .. Len(q) /\ Len(q) \in Nat
  BY TrimmedProperties, LenProperties
<1> QED
  BY <1>1, RangeOfQueue DEF Dropped

\* A step that leaves the requests and the queue alone.
LEMMA QueueStutter ==
    ASSUME QueueInvariant, TypeOK', UNCHANGED <<cmdId, phase, result, queueVars>>
    PROVE  QueueInvariant'
  BY DEF QueueInvariant, QueueListsCommands, Lists, NoLostRequest, Pending,
         PhasesMatchQueue, queueVars

LEMMA QueueInit == Init => QueueInvariant
<1> SUFFICES ASSUME Init
             PROVE  QueueInvariant
  OBVIOUS
<1>1. Range(<<>>) = {} /\ Len(<<>>) = 0
  BY EmptySeq DEF Range
<1>2. QueueListsCommands
  BY <1>1 DEF Init, QueueListsCommands, Lists
<1>3. NoLostRequest
  BY DEF Init, NoLostRequest, Pending
<1>4. PhasesMatchQueue
  BY <1>1 DEF Init, PhasesMatchQueue
<1> QED
  BY TypeInit, <1>2, <1>3, <1>4 DEF QueueInvariant

\* A request that was not written yet goes on without entering the queue.
LEMMA RequestAdvances ==
    ASSUME QueueInvariant, TypeOK', NEW r \in Requests,
           UNCHANGED <<result, queueVars>>,
           phase[r] \in {"new", "initial"},
           phase' = [phase EXCEPT ![r] = IF @ = "new" THEN "initial" ELSE "starting"],
           cmdId' = IF phase[r] = "new" THEN cmdId + 1 ELSE cmdId,
           phase[r] = "new" => r = cmdId
    PROVE  QueueInvariant'
<1>1. QueueListsCommands'
  BY DEF QueueInvariant, QueueListsCommands, Lists, queueVars
<1>2. NoLostRequest'
  BY SMTT(60) DEF QueueInvariant, NoLostRequest, Pending, TypeOK, queueVars
<1>3. PhasesMatchQueue'
  BY SMTT(60) DEF QueueInvariant, PhasesMatchQueue, TypeOK, queueVars, Requests
<1> QED
  BY <1>1, <1>2, <1>3 DEF QueueInvariant

\* A request is refused before it was written.
LEMMA RequestRefused ==
    ASSUME QueueInvariant, TypeOK', NEW r \in Requests,
           UNCHANGED <<cmdId, queueVars>>,
           phase[r] = "starting",
           phase' = [phase EXCEPT ![r] = "done"],
           result' = [result EXCEPT ![r] = "undefined"]
    PROVE  QueueInvariant'
<1>1. QueueListsCommands'
  BY DEF QueueInvariant, QueueListsCommands, Lists, queueVars
<1>2. NoLostRequest'
  BY DEF QueueInvariant, NoLostRequest, Pending, TypeOK, queueVars
<1>3. PhasesMatchQueue'
  BY DEF QueueInvariant, PhasesMatchQueue, TypeOK, queueVars
<1> QED
  BY <1>1, <1>2, <1>3 DEF QueueInvariant

\* Requests leave the map and are settled, and the queue follows.
LEMMA RequestsSettled ==
    ASSUME QueueInvariant, TypeOK', UNCHANGED <<cmdId, phase>>,
           NEW rs, rs \subseteq commands,
           commands' = commands \ rs,
           Lists(commandQueue', commands'),
           Range(commandQueue') \subseteq Range(commandQueue),
           \A r \in Requests :
              IF r \in rs THEN result'[r] # None ELSE result'[r] = result[r]
    PROVE  QueueInvariant'
<1>1. QueueListsCommands'
  BY DEF QueueListsCommands
<1>2. rs \subseteq Requests /\ \A r \in rs : phase[r] = "sent"
  BY DEF QueueInvariant, NoLostRequest, Pending, TypeOK
<1>3. NoLostRequest'
  BY DEF QueueInvariant, NoLostRequest, Pending
<1>4. PhasesMatchQueue'
  BY <1>2 DEF QueueInvariant, PhasesMatchQueue
<1> QED
  BY <1>1, <1>3, <1>4 DEF QueueInvariant

LEMMA QueueStep == QueueInvariant /\ [Next]_vars => QueueInvariant'
<1> SUFFICES ASSUME QueueInvariant, [Next]_vars
             PROVE  QueueInvariant'
  OBVIOUS
<1>0. TypeOK /\ TypeOK'
  BY TypeStep DEF QueueInvariant
<1>1. ASSUME NEW t \in CommandTypes, SendCommand(t)
      PROVE  QueueInvariant'
  <2>1. cmdId \in Requests /\ phase[cmdId] = "new"
    BY <1>1, BoundsAssumption DEF SendCommand, QueueInvariant, PhasesMatchQueue, Requests
  <2> QED
    BY <1>0, <1>1, <2>1, RequestAdvances DEF SendCommand, TypeOK
<1>2. CASE SendNonCancellableCommand
  <2>1. cmdId \in Requests /\ phase[cmdId] = "new"
    BY <1>2, BoundsAssumption
    DEF SendNonCancellableCommand, QueueInvariant, PhasesMatchQueue, Requests
  <2> QED
    BY <1>0, <1>2, <2>1, RequestAdvances DEF SendNonCancellableCommand, TypeOK
<1>3. ASSUME NEW r \in Requests, AwaitLanguageServer(r)
      PROVE  QueueInvariant'
  BY <1>0, <1>3, RequestAdvances DEF AwaitLanguageServer, TypeOK
<1>4. ASSUME NEW r \in Requests, WriteCommand(r)
      PROVE  QueueInvariant'
  <2>1. /\ phase[r] = "starting" /\ result[r] = None
        /\ r \notin Range(commandQueue)
    BY <1>4 DEF WriteCommand, Resumes, QueueInvariant, PhasesMatchQueue
  <2>2. /\ Lists(commandQueue', commands')
        /\ Range(commandQueue') = Range(commandQueue) \union {r}
    <3>1. commandQueue \in Seq(Requests) /\ Lists(commandQueue, commands)
      BY <1>0 DEF QueueInvariant, QueueListsCommands, TypeOK
    <3>2. commands' = commands \union {r} /\ commandQueue' = Append(commandQueue, r)
      BY <1>4 DEF WriteCommand
    <3> QED
      BY <2>1, <3>1, <3>2, AppendLists
  <2>3. /\ UNCHANGED <<cmdId, result>>
        /\ phase' = [phase EXCEPT ![r] = "sent"]
        /\ commands' = commands \union {r}
    BY <1>4 DEF WriteCommand
  <2>4. NoLostRequest'
    BY <1>0, <2>1, <2>3, SMTT(60) DEF QueueInvariant, NoLostRequest, Pending, TypeOK
  <2>5. PhasesMatchQueue'
    BY <1>0, <2>1, <2>2, <2>3 DEF QueueInvariant, PhasesMatchQueue, TypeOK
  <2> QED
    BY <1>0, <2>2, <2>4, <2>5 DEF QueueInvariant, QueueListsCommands
<1>5. ASSUME NEW r \in Requests, WriteFails(r) \/ SendFails(r)
      PROVE  QueueInvariant'
  BY <1>0, <1>5, RequestRefused DEF WriteFails, SendFails, Resumes, queueVars
<1>6. ASSUME NEW n, RestartLanguageServer(n)
      PROVE  QueueInvariant'
  <2>1. /\ UNCHANGED <<cmdId, phase>>
        /\ commandQueue' = <<>> /\ commands' = {}
        /\ result' = Settle(commands, "undefined")
    BY <1>6 DEF RestartLanguageServer, ClearPendingRequests
  <2>2. Range(<<>>) = {} /\ Len(<<>>) = 0
    BY EmptySeq DEF Range
  <2>3. Lists(commandQueue', commands') /\ Range(commandQueue') = {}
    BY <2>1, <2>2 DEF Lists
  <2>4. \A r \in Requests :
           IF r \in commands THEN result'[r] # None ELSE result'[r] = result[r]
    BY <2>1 DEF Settle, None
  <2> QED
    BY <1>0, <2>1, <2>3, <2>4, RequestsSettled
<1>7. ASSUME ExpireResponse
      PROVE  QueueInvariant'
  <2> DEFINE r == Head(responses)
  <2>1. /\ r \in commands
        /\ UNCHANGED <<cmdId, phase>>
        /\ commands' = commands \ {r}
        /\ commandQueue' = Spliced(commandQueue, r)
        /\ result' = Settle({r}, "undefined")
    BY <1>7 DEF ExpireResponse
  <2> HIDE DEF r
  <2>2. /\ Lists(commandQueue', commands')
        /\ Range(commandQueue') \subseteq Range(commandQueue)
    BY <1>0, <2>1, SplicedLists DEF QueueInvariant, QueueListsCommands, TypeOK
  <2>3. \A s \in Requests :
           IF s \in {r} THEN result'[s] # None ELSE result'[s] = result[s]
    BY <2>1 DEF Settle, None
  <2> QED
    BY <1>0, <2>1, <2>2, <2>3, RequestsSettled
<1>8. ASSUME AnswerRequest
      PROVE  QueueInvariant'
  <2> DEFINE r == Head(responses)
             q == Spliced(commandQueue, r)
             given_up == Dropped(q) \intersect (commands \ {r})
  <2>1. /\ r \in commands
        /\ UNCHANGED <<cmdId, phase>>
        /\ commands' = commands \ ({r} \union given_up)
        /\ commandQueue' = Trimmed(q)
        /\ result' = Answered(r, Settle(given_up, "undefined"))
    BY <1>8 DEF AnswerRequest
  <2>2. /\ q \in Seq(Requests)
        /\ Lists(q, commands \ {r})
        /\ Range(q) \subseteq Range(commandQueue)
    BY <1>0, <2>1, SplicedLists DEF QueueInvariant, QueueListsCommands, TypeOK
  <2>3. commands' = (commands \ {r}) \ Dropped(q)
    BY <2>1
  <2>4. {r} \union given_up \subseteq commands /\ r \in Requests
    BY <1>0, <2>1, SMTT(60) DEF TypeOK
  <2> HIDE DEF r, q, given_up
  <2>5. /\ Lists(commandQueue', commands')
        /\ Range(commandQueue') \subseteq Range(commandQueue)
    BY <2>1, <2>2, <2>3, TrimmedLists
  <2>6. \A s \in Requests :
           IF s \in {r} \union given_up THEN result'[s] # None
           ELSE result'[s] = result[s]
    BY <2>1, <2>4 DEF Settle, None, Answered
  <2> QED
    BY <1>0, <2>1, <2>4, <2>5, <2>6, RequestsSettled
<1>9. CASE UNCHANGED <<cmdId, phase, result, queueVars>>
  BY <1>0, <1>9, QueueStutter
<1> QED
  <2>1. ASSUME NEW n \in Spawns,
               \/ SpawnSucceeds(n) \/ SpawnFindsNoPython(n) \/ SpawnThrows(n)
               \/ RespawnAfterError(n) \/ ErrorAfterLastRetry(n) \/ ReadData(n)
               \/ ServerWrites(n) \/ ServerRaises(n) \/ ServerCrashes(n)
        PROVE  UNCHANGED <<cmdId, phase, result, queueVars>>
    BY <2>1
    DEF SpawnSucceeds, SpawnFindsNoPython, SpawnThrows, EndSpawn, RespawnAfterError,
        ErrorAfterLastRetry, ReadData, ServerWrites, ServerRaises, ServerCrashes,
        callerVars
  <2>2. ASSUME \/ \E r \in Requests : EditorCancels(r)
               \/ IgnoreResponse \/ Dispose \/ UNCHANGED vars
        PROVE  UNCHANGED <<cmdId, phase, result, queueVars>>
    BY <2>2 DEF EditorCancels, IgnoreResponse, Dispose, vars, callerVars
  <2> QED
    BY <1>1, <1>2, <1>3, <1>4, <1>5, <1>6, <1>7, <1>8, <1>9, <2>1, <2>2
    DEF Next, StartLanguageServer, RestartOnChange, HandleResponse

\* No interleaving of requests, answers, cancellations, restarts, crashes and the
\* queue limit loses a caller, for all bounds and faults.
THEOREM QueueInvariantHolds == Spec => []QueueInvariant
  BY QueueInit, QueueStep, PTL DEF Spec

\* The queue lists every tracked request exactly once and holds no other id but
\* at its head, in spite of `if (index)' before the splice.
THEOREM QueueCorrect == Spec => []QueueListsCommands
<1>1. QueueInvariant => QueueListsCommands
  BY DEF QueueInvariant
<1> QED
  BY <1>1, QueueInvariantHolds, PTL

\* A request that was written is tracked until its promise is settled, and only
\* until then: no interleaving of answers, cancellations, restarts, crashes and
\* the queue limit loses a caller.
THEOREM NothingLost == Spec => []NoLostRequest
<1>1. QueueInvariant => NoLostRequest
  BY DEF QueueInvariant
<1> QED
  BY <1>1, QueueInvariantHolds, PTL

-----------------------------------------------------------------------------
(* Deferreds, killed processes and superseded requests.                    *)

LEMMA DeferredsStep ==
    ASSUME TypeOK, OldDeferredsSettled, [Next]_vars
    PROVE  OldDeferredsSettled'
<1>0. languageServerStarted \in 0 .. MaxSpawns /\ started \in [Spawns -> {"pending", "resolved", "rejected"}]
  BY DEF TypeOK
<1>1. ASSUME NEW n, BeginSpawn(n)
      PROVE  OldDeferredsSettled'
  BY <1>0, <1>1, BoundsAssumption
  DEF OldDeferredsSettled, BeginSpawn, StartedReplaced, SettleDeferred, Spawns
<1>2. ASSUME NEW n \in Spawns, SpawnSucceeds(n) \/ SpawnThrows(n)
      PROVE  OldDeferredsSettled'
  <2>1. PICK state \in {"resolved", "rejected"} : SettleStarted(state)
    BY <1>2 DEF SpawnSucceeds, SpawnThrows
  <2>2. UNCHANGED languageServerStarted
    BY <1>2 DEF SpawnSucceeds, SpawnThrows, EndSpawn
  <2> QED
    BY <1>0, <2>1, <2>2 DEF OldDeferredsSettled, SettleStarted, SettleDeferred
<1>3. CASE UNCHANGED <<languageServerStarted, started>>
  BY <1>3 DEF OldDeferredsSettled
<1>4. ASSUME NEW t \in CommandTypes, SendCommand(t)
      PROVE  UNCHANGED <<languageServerStarted, started>>
  BY <1>4 DEF SendCommand, spawnVars
<1>5. ASSUME NEW r \in Requests,
             EditorCancels(r) \/ AwaitLanguageServer(r) \/ WriteCommand(r) \/ WriteFails(r)
                \/ SendFails(r)
      PROVE  UNCHANGED <<languageServerStarted, started>>
  BY <1>5 DEF EditorCancels, AwaitLanguageServer, WriteCommand, WriteFails, SendFails, spawnVars
<1>6. ASSUME NEW n \in Spawns,
             SpawnFindsNoPython(n) \/ ErrorAfterLastRetry(n) \/ ReadData(n) \/ ServerWrites(n)
                \/ ServerRaises(n) \/ ServerCrashes(n)
      PROVE  UNCHANGED <<languageServerStarted, started>>
  BY <1>6 DEF SpawnFindsNoPython, EndSpawn, ErrorAfterLastRetry, ReadData, ServerWrites,
              ServerRaises, ServerCrashes, spawnVars
<1>7. CASE SendNonCancellableCommand \/ HandleResponse \/ Dispose \/ UNCHANGED vars
  <2>1. UNCHANGED <<languageServerStarted, started>>
    BY <1>7 DEF SendNonCancellableCommand, HandleResponse, IgnoreResponse, ExpireResponse,
                AnswerRequest, Dispose, vars, spawnVars
  <2> QED
    BY <1>3, <2>1
<1>8. CASE StartLanguageServer \/ RestartOnChange
  BY <1>1, <1>8 DEF StartLanguageServer, RestartOnChange, RestartLanguageServer
<1>9. ASSUME NEW n \in Spawns, RespawnAfterError(n)
      PROVE  OldDeferredsSettled'
  BY <1>1, <1>9 DEF RespawnAfterError
<1> QED
  BY <1>2, <1>3, <1>4, <1>5, <1>6, <1>7, <1>8, <1>9 DEF Next

\* Whichever spawns overlap, only the newest deferred of the language server may be
\* pending: nobody waits for one that was replaced (jediProxy.ts:328-337).
THEOREM DeferredsCorrect == Spec => []OldDeferredsSettled
<1>1. Init => OldDeferredsSettled
  BY BoundsAssumption DEF Init, OldDeferredsSettled, Spawns
<1>2. TypeOK /\ OldDeferredsSettled /\ [Next]_vars => OldDeferredsSettled'
  BY DeferredsStep
<1> QED
  BY <1>1, <1>2, TypeCorrect, PTL DEF Spec

-----------------------------------------------------------------------------
\* The strengthening: the process commands are written to is not a killed one.
WrittenToLive ==
    /\ proc # 0 => server[proc] # "killed"
    /\ \A r \in commands : sentTo[r] \in Spawns
    /\ NoRequestToKilledServer

LEMMA WrittenToLiveStep ==
    ASSUME TypeOK, WrittenToLive, [Next]_vars
    PROVE  WrittenToLive'
<1> USE DEF callerVars, queueVars, dataVars, spawnVars, pipeVars
<1>0. /\ proc \in 0 .. MaxSpawns /\ commands \subseteq Requests
      /\ sentTo \in [Requests -> 0 .. MaxSpawns]
      /\ server \in [Spawns -> {"none", "alive", "killed", "crashed"}]
      /\ proc # 0 => proc \in Spawns
  BY BoundsAssumption DEF TypeOK, Spawns
<1>1. ASSUME commands' \subseteq commands, UNCHANGED <<proc, sentTo, server, disposed>>
      PROVE  WrittenToLive'
  BY <1>1 DEF WrittenToLive, NoRequestToKilledServer
<1>2. ASSUME NEW r \in Requests, WriteCommand(r)
      PROVE  WrittenToLive'
  BY <1>0, <1>2 DEF WriteCommand, WrittenToLive, NoRequestToKilledServer
<1>3. ASSUME NEW r \in Requests, WriteFails(r)
      PROVE  WrittenToLive'
  BY <1>0, <1>3 DEF WriteFails, WrittenToLive, NoRequestToKilledServer
<1>4. ASSUME NEW n, RestartLanguageServer(n)
      PROVE  WrittenToLive'
  BY <1>4
  DEF RestartLanguageServer, ClearPendingRequests, WrittenToLive, NoRequestToKilledServer
<1>5. ASSUME NEW n \in Spawns, SpawnSucceeds(n)
      PROVE  WrittenToLive'
  BY <1>0, <1>5 DEF SpawnSucceeds, EndSpawn, WrittenToLive, NoRequestToKilledServer
<1>6. ASSUME NEW n \in Spawns, ServerCrashes(n)
      PROVE  WrittenToLive'
  BY <1>0, <1>6 DEF ServerCrashes, WrittenToLive, NoRequestToKilledServer
<1>7. CASE Dispose
  BY <1>0, <1>7 DEF Dispose, WrittenToLive, NoRequestToKilledServer
<1>8. ASSUME NEW t \in CommandTypes, SendCommand(t)
      PROVE  WrittenToLive'
  BY <1>1, <1>8 DEF SendCommand
<1>9. ASSUME NEW r \in Requests, EditorCancels(r) \/ AwaitLanguageServer(r) \/ SendFails(r)
      PROVE  WrittenToLive'
  BY <1>1, <1>9 DEF EditorCancels, AwaitLanguageServer, SendFails
<1>10. ASSUME NEW n \in Spawns,
              \/ SpawnFindsNoPython(n) \/ SpawnThrows(n) \/ RespawnAfterError(n)
              \/ ErrorAfterLastRetry(n) \/ ReadData(n) \/ ServerWrites(n) \/ ServerRaises(n)
       PROVE  WrittenToLive'
  BY <1>1, <1>10
  DEF SpawnFindsNoPython, SpawnThrows, EndSpawn, RespawnAfterError, ErrorAfterLastRetry,
      ReadData, ServerWrites, ServerRaises
<1>11. CASE SendNonCancellableCommand \/ HandleResponse \/ UNCHANGED vars
  BY <1>1, <1>11
  DEF SendNonCancellableCommand, HandleResponse, IgnoreResponse, ExpireResponse,
      AnswerRequest, vars
<1>12. CASE StartLanguageServer \/ RestartOnChange
  BY <1>4, <1>12 DEF StartLanguageServer, RestartOnChange
<1> QED
  BY <1>2, <1>3, <1>5, <1>6, <1>7, <1>8, <1>9, <1>10, <1>11, <1>12 DEF Next

\* A restart that kills the process leaves none of its requests tracked, so no
\* caller waits for an answer that cannot come, whichever spawns, crashes and
\* writes it overlaps with (jediProxy.ts:297-320).
THEOREM KilledServerCorrect == Spec => []NoRequestToKilledServer
<1>1. Init => WrittenToLive
  BY DEF Init, WrittenToLive, NoRequestToKilledServer
<1>2. TypeOK /\ WrittenToLive /\ [Next]_vars => WrittenToLive'
  BY WrittenToLiveStep
<1>3. WrittenToLive => NoRequestToKilledServer
  BY DEF WrittenToLive
<1> QED
  BY <1>1, <1>2, <1>3, TypeCorrect, PTL DEF Spec

-----------------------------------------------------------------------------
\* A request with a token of its own is the latest of its kind, or its token
\* was cancelled when a later one took its place.
LatestOrCancelled ==
    \A r \in Requests \ external :
       phase[r] # "new" => r \in cancelled \/ \E t \in CommandTypes : r \in current[t]

LEMMA LatestOrCancelledStep ==
    ASSUME TypeOK, LatestOrCancelled, [Next]_vars
    PROVE  LatestOrCancelled'
<1> USE DEF callerVars, queueVars, dataVars, spawnVars, pipeVars
<1>0. /\ phase \in [Requests -> {"new", "initial", "starting", "sent", "done"}]
      /\ current \in [CommandTypes -> SUBSET Requests]
  BY DEF TypeOK
<1>1. ASSUME cancelled \subseteq cancelled', UNCHANGED <<external, current>>,
             \A r \in Requests : phase[r] = "new" => phase'[r] = "new"
      PROVE  LatestOrCancelled'
  BY <1>1 DEF LatestOrCancelled
<1>2. ASSUME NEW t \in CommandTypes, SendCommand(t)
      PROVE  LatestOrCancelled'
  <2> SUFFICES ASSUME NEW r \in Requests \ external, phase'[r] # "new"
               PROVE  r \in cancelled' \/ \E u \in CommandTypes : r \in current'[u]
    BY <1>2 DEF LatestOrCancelled, SendCommand
  <2>1. CASE r = cmdId
    BY <1>0, <1>2, <2>1 DEF SendCommand
  <2>2. CASE r # cmdId
    <3>1. r \in cancelled \/ \E u \in CommandTypes : r \in current[u]
      BY <1>0, <1>2, <2>2 DEF LatestOrCancelled, SendCommand
    <3> QED
      BY <1>0, <1>2, <3>1 DEF SendCommand, Superseded
  <2> QED
    BY <2>1, <2>2
<1>3. CASE SendNonCancellableCommand
  BY <1>0, <1>3 DEF LatestOrCancelled, SendNonCancellableCommand
<1>4. ASSUME NEW r \in Requests,
             EditorCancels(r) \/ AwaitLanguageServer(r) \/ WriteCommand(r) \/ WriteFails(r)
                \/ SendFails(r)
      PROVE  LatestOrCancelled'
  BY <1>0, <1>1, <1>4
  DEF EditorCancels, AwaitLanguageServer, Resumes, WriteCommand, WriteFails, SendFails
<1>5. ASSUME NEW n, RestartLanguageServer(n)
      PROVE  LatestOrCancelled'
  BY <1>1, <1>5 DEF RestartLanguageServer
<1>6. ASSUME NEW n \in Spawns,
             \/ SpawnSucceeds(n) \/ SpawnFindsNoPython(n) \/ SpawnThrows(n)
             \/ RespawnAfterError(n) \/ ErrorAfterLastRetry(n) \/ ReadData(n)
             \/ ServerWrites(n) \/ ServerRaises(n) \/ ServerCrashes(n)
      PROVE  LatestOrCancelled'
  BY <1>1, <1>6
  DEF SpawnSucceeds, SpawnFindsNoPython, SpawnThrows, EndSpawn, RespawnAfterError,
      ErrorAfterLastRetry, ReadData, ServerWrites, ServerRaises, ServerCrashes
<1>7. CASE HandleResponse \/ Dispose \/ UNCHANGED vars
  BY <1>1, <1>7
  DEF HandleResponse, IgnoreResponse, ExpireResponse, AnswerRequest, Dispose, vars
<1>8. CASE StartLanguageServer \/ RestartOnChange
  BY <1>5, <1>8 DEF StartLanguageServer, RestartOnChange
<1> QED
  BY <1>2, <1>3, <1>4, <1>6, <1>7, <1>8 DEF Next

\* An answer is given only by the loop over the responses, to a tracked request
\* that is not cancelled.
LEMMA AnswersOnlyTracked ==
    ASSUME TypeOK, [Next]_vars, NEW r \in Requests,
           result[r] # "answer", result'[r] = "answer"
    PROVE  r \in commands \ cancelled
<1> USE DEF callerVars, queueVars, dataVars, spawnVars, pipeVars
<1>0. result \in [Requests -> {None, "answer", "undefined"}]
  BY DEF TypeOK
<1>1. \A rs : Settle(rs, "undefined")[r] # "answer"
  BY DEF Settle
<1>2. CASE UNCHANGED result
  BY <1>2
<1>3. ASSUME NEW s \in Requests, WriteFails(s) \/ SendFails(s)
      PROVE  FALSE
  BY <1>0, <1>3 DEF WriteFails, SendFails
<1>4. ASSUME NEW n, RestartLanguageServer(n)
      PROVE  FALSE
  BY <1>1, <1>4 DEF RestartLanguageServer, ClearPendingRequests
<1>5. CASE ExpireResponse
  BY <1>1, <1>5 DEF ExpireResponse
<1>6. CASE AnswerRequest
  <2> DEFINE h == Head(responses)
             given_up == Dropped(Spliced(commandQueue, h)) \intersect (commands \ {h})
  <2>1. h \in commands \ cancelled /\ result' = Answered(h, Settle(given_up, "undefined"))
    BY <1>6 DEF AnswerRequest
  <2>2. Settle(given_up, "undefined") \in [Requests -> {None, "answer", "undefined"}]
    BY SettleType
  <2>3. Settle(given_up, "undefined")[r] # "answer"
    BY <1>1
  <2> HIDE DEF h, given_up
  <2>4. r = h
    BY <2>1, <2>2, <2>3 DEF Answered
  <2> QED
    BY <2>1, <2>4
<1>7. ASSUME NEW t \in CommandTypes, SendCommand(t)
      PROVE  UNCHANGED result
  BY <1>7 DEF SendCommand
<1>8. ASSUME NEW s \in Requests, EditorCancels(s) \/ AwaitLanguageServer(s) \/ WriteCommand(s)
      PROVE  UNCHANGED result
  BY <1>8 DEF EditorCancels, AwaitLanguageServer, WriteCommand
<1>9. ASSUME NEW n \in Spawns,
             \/ SpawnSucceeds(n) \/ SpawnFindsNoPython(n) \/ SpawnThrows(n)
             \/ RespawnAfterError(n) \/ ErrorAfterLastRetry(n) \/ ReadData(n)
             \/ ServerWrites(n) \/ ServerRaises(n) \/ ServerCrashes(n)
      PROVE  UNCHANGED result
  BY <1>9
  DEF SpawnSucceeds, SpawnFindsNoPython, SpawnThrows, EndSpawn, RespawnAfterError,
      ErrorAfterLastRetry, ReadData, ServerWrites, ServerRaises, ServerCrashes
<1>10. CASE SendNonCancellableCommand \/ IgnoreResponse \/ Dispose \/ UNCHANGED vars
  BY <1>2, <1>10 DEF SendNonCancellableCommand, IgnoreResponse, Dispose, vars
<1>11. CASE StartLanguageServer \/ RestartOnChange
  BY <1>4, <1>11 DEF StartLanguageServer, RestartOnChange
<1> QED
  BY <1>2, <1>3, <1>5, <1>6, <1>7, <1>8, <1>9, <1>10, <1>11 DEF Next, HandleResponse

\* The editor never gets the answer of a request that a later one of its kind
\* superseded, whatever is restarted, crashed or answered in between
\* (jediProxy.ts:420-423, 824-837).
THEOREM LatestAnswered == Spec => AnsweredIsLatest
<1>1. Init => LatestOrCancelled
  BY DEF Init, LatestOrCancelled
<1>2. TypeOK /\ LatestOrCancelled /\ [Next]_vars => LatestOrCancelled'
  BY LatestOrCancelledStep
<1>3. QueueInvariant /\ LatestOrCancelled /\ [Next]_vars
         => [\A r \in Requests \ external :
                result[r] # "answer" /\ result'[r] = "answer"
                   => \E t \in CommandTypes : r \in current[t]]_vars
  <2> SUFFICES ASSUME QueueInvariant, LatestOrCancelled, [Next]_vars,
                      NEW r \in Requests \ external,
                      result[r] # "answer", result'[r] = "answer"
               PROVE  \E t \in CommandTypes : r \in current[t]
    OBVIOUS
  <2>1. r \in commands \ cancelled
    BY AnswersOnlyTracked DEF QueueInvariant
  <2>2. phase[r] = "sent"
    BY <2>1 DEF QueueInvariant, NoLostRequest, Pending
  <2> QED
    BY <2>1, <2>2 DEF LatestOrCancelled
<1> QED
  BY <1>1, <1>2, <1>3, TypeCorrect, QueueInvariantHolds, PTL DEF Spec, AnsweredIsLatest

-----------------------------------------------------------------------------
(* The refinement of the ledger.                                           *)

\* The queue q without an id at its head that rs does not hold.
Live(q, rs) == IF q # <<>> /\ Head(q) \notin rs THEN Tail(q) ELSE q
StaleHeads(q, rs) == IF q # <<>> /\ Head(q) \notin rs THEN 1 ELSE 0

LEMMA LiveElements ==
    ASSUME NEW S, NEW q \in Seq(S), NEW rs
    PROVE  /\ StaleHeads(q, rs) \in {0, 1} /\ StaleHeads(q, rs) <= Len(q)
           /\ StaleHeads(q, rs) = IF Len(q) > 0 /\ q[1] \notin rs THEN 1 ELSE 0
           /\ Live(q, rs) \in Seq(S)
           /\ Len(Live(q, rs)) = Len(q) - StaleHeads(q, rs)
           /\ \A i \in 1 .. Len(q) - StaleHeads(q, rs) :
                 Live(q, rs)[i] = q[i + StaleHeads(q, rs)]
<1>1. Len(q) \in Nat /\ (q = <<>> <=> Len(q) = 0) /\ (q # <<>> => Head(q) = q[1])
  BY LenProperties, EmptySeq, HeadTailProperties
<1>2. CASE q # <<>> /\ Head(q) \notin rs
  BY <1>1, <1>2, HeadTailProperties DEF Live, StaleHeads
<1>3. CASE ~(q # <<>> /\ Head(q) \notin rs)
  BY <1>1, <1>3 DEF Live, StaleHeads
<1> QED
  BY <1>2, <1>3

\* Without its stale head the queue lists the tracked requests and no other.
LEMMA LiveLists ==
    ASSUME NEW S, NEW q \in Seq(S), NEW rs, Lists(q, rs)
    PROVE  /\ Live(q, rs) \in Seq(S)
           /\ Range(Live(q, rs)) = rs
<1> DEFINE p == Live(q, rs)
           s == StaleHeads(q, rs)
<1>1. /\ s \in {0, 1} /\ s <= Len(q)
      /\ s = IF Len(q) > 0 /\ q[1] \notin rs THEN 1 ELSE 0
      /\ p \in Seq(S) /\ Len(p) = Len(q) - s
      /\ \A i \in 1 .. Len(q) - s : p[i] = q[i + s]
  BY LiveElements
<1>2. Len(q) \in Nat /\ \A x : x \in Range(q) <=> \E i \in 1 .. Len(q) : q[i] = x
  BY RangeOfQueue
<1> HIDE DEF p, s
<1>3. \A x : x \in Range(p) <=> \E i \in 1 .. Len(p) : p[i] = x
  BY <1>1, RangeOfQueue
<1>4. ASSUME NEW i \in 1 .. Len(p)
      PROVE  p[i] \in rs
  BY <1>1, <1>2 DEF Lists
<1>5. ASSUME NEW x \in rs
      PROVE  \E i \in 1 .. Len(p) : p[i] = x
  <2>1. PICK i \in 1 .. Len(q) : q[i] = x
    BY <1>2 DEF Lists
  <2>2. i \in Nat \ {0} /\ i <= Len(q) /\ (s = 1 => i # 1)
    BY <1>1, <1>2, <2>1
  <2>3. i - s \in 1 .. Len(q) - s /\ (i - s) + s = i
    BY <1>1, <1>2, <2>2
  <2>4. p[i - s] = x
    BY <1>1, <2>1, <2>3
  <2> QED
    BY <1>1, <2>3, <2>4
<1>6. Range(p) = rs
  BY <1>3, <1>4, <1>5
<1> QED
  BY <1>1, <1>6 DEF p

LEMMA SameElements ==
    ASSUME NEW S, NEW p \in Seq(S), NEW q \in Seq(S), Len(p) = Len(q),
           \A i \in 1 .. Len(p) : p[i] = q[i]
    PROVE  p = q
  BY SeqEqual

LEMMA LiveAppend ==
    ASSUME NEW S, NEW q \in Seq(S), NEW rs, Lists(q, rs), NEW r \in S, r \notin Range(q)
    PROVE  Live(Append(q, r), rs \union {r}) = Append(Live(q, rs), r)
<1> DEFINE new == Append(q, r)
           s == StaleHeads(q, rs)
           t == StaleHeads(new, rs \union {r})
           left == Live(new, rs \union {r})
           right == Append(Live(q, rs), r)
<1>1. /\ new \in Seq(S) /\ Len(new) = Len(q) + 1 /\ new[Len(q) + 1] = r
      /\ \A i \in 1 .. Len(q) : new[i] = q[i]
  BY AppendProperties
<1>2. Len(q) \in Nat /\ \A x : x \in Range(q) <=> \E i \in 1 .. Len(q) : q[i] = x
  BY RangeOfQueue
<1>3. /\ s \in {0, 1} /\ s <= Len(q)
      /\ s = IF Len(q) > 0 /\ q[1] \notin rs THEN 1 ELSE 0
      /\ Live(q, rs) \in Seq(S) /\ Len(Live(q, rs)) = Len(q) - s
      /\ \A i \in 1 .. Len(q) - s : Live(q, rs)[i] = q[i + s]
  BY LiveElements
<1>4. /\ right \in Seq(S) /\ Len(right) = Len(q) - s + 1
      /\ right[Len(q) - s + 1] = r
      /\ \A i \in 1 .. Len(q) - s : right[i] = q[i + s]
  BY <1>3, AppendProperties
<1> HIDE DEF new
<1>5. /\ t = IF Len(new) > 0 /\ new[1] \notin rs \union {r} THEN 1 ELSE 0
      /\ left \in Seq(S) /\ Len(left) = Len(new) - t
      /\ \A i \in 1 .. Len(new) - t : left[i] = new[i + t]
  BY <1>1, LiveElements
<1> HIDE DEF s, t, left, right
<1>6. t = s
  <2>1. Len(q) > 0 => q[1] # r
    BY <1>2
  <2> QED
    BY <1>1, <1>2, <1>3, <1>5, <2>1
<1>7. Len(left) = Len(right) /\ \A i \in 1 .. Len(left) : left[i] = right[i]
  <2>1. Len(left) = Len(q) - s + 1
    BY <1>1, <1>2, <1>3, <1>5, <1>6
  <2>2. ASSUME NEW i \in 1 .. Len(q) - s
        PROVE  left[i] = right[i]
    <3>1. i + s \in 1 .. Len(q) /\ i \in 1 .. Len(new) - t
      BY <1>1, <1>2, <1>3, <1>6
    <3> QED
      BY <1>1, <1>4, <1>5, <1>6, <3>1
  <2>3. left[Len(q) - s + 1] = right[Len(q) - s + 1]
    <3>1. Len(q) - s + 1 \in 1 .. Len(new) - t /\ Len(q) - s + 1 + t = Len(q) + 1
      BY <1>1, <1>2, <1>3, <1>6
    <3> QED
      BY <1>1, <1>4, <1>5, <3>1
  <2>4. \A i \in 1 .. Len(q) - s + 1 : i \in 1 .. Len(q) - s \/ i = Len(q) - s + 1
    BY <1>2, <1>3
  <2> QED
    BY <1>4, <2>1, <2>2, <2>3, <2>4
<1>8. left = right
  BY <1>4, <1>5, <1>7, SameElements
<1> QED
  BY <1>8 DEF left, right, new

\* The splice of an answer removes its request from the live queue.
LEMMA LiveSpliced ==
    ASSUME NEW S, NEW q \in Seq(S), NEW rs, Lists(q, rs), NEW r \in rs
    PROVE  \E i \in 1 .. Len(Live(q, rs)) :
              /\ Live(q, rs)[i] = r
              /\ Live(Spliced(q, r), rs \ {r}) = RemoveAt(Live(q, rs), i)
<1> DEFINE p == Live(q, rs)
           s == StaleHeads(q, rs)
           t == StaleHeads(Spliced(q, r), rs \ {r})
           left == Live(Spliced(q, r), rs \ {r})
<1>1. r \in Range(q) /\ Len(q) \in Nat
  BY LenProperties DEF Lists
<1>2. /\ s \in {0, 1} /\ s <= Len(q)
      /\ s = IF Len(q) > 0 /\ q[1] \notin rs THEN 1 ELSE 0
      /\ p \in Seq(S) /\ Len(p) = Len(q) - s
      /\ \A i \in 1 .. Len(q) - s : p[i] = q[i + s]
  BY LiveElements
<1>3. Spliced(q, r) \in Seq(S)
  BY SplicedType
<1>4. /\ t = IF Len(Spliced(q, r)) > 0 /\ Spliced(q, r)[1] \notin rs \ {r} THEN 1 ELSE 0
      /\ left \in Seq(S) /\ Len(left) = Len(Spliced(q, r)) - t
      /\ \A i \in 1 .. Len(Spliced(q, r)) - t : left[i] = Spliced(q, r)[i + t]
  BY <1>3, LiveElements
<1> HIDE DEF p, s, t, left
<1>5. ASSUME NEW i \in 1 .. Len(q), q[i] = r, i - s \in 1 .. Len(p),
             Len(left) = Len(p) - 1,
             \A j \in 1 .. Len(p) - 1 : left[j] = IF j < i - s THEN p[j] ELSE p[j + 1]
      PROVE  \E k \in 1 .. Len(p) : p[k] = r /\ left = RemoveAt(p, k)
  <2> DEFINE k == i - s
  <2>1. p[k] = r
    BY <1>1, <1>2, <1>5
  <2>2. /\ RemoveAt(p, k) \in Seq(S) /\ Len(RemoveAt(p, k)) = Len(p) - 1
        /\ \A j \in 1 .. Len(p) - 1 : RemoveAt(p, k)[j] = IF j < k THEN p[j] ELSE p[j + 1]
    BY <1>2, <1>5, RemoveAtProperties
  <2>3. left = RemoveAt(p, k)
    BY <1>4, <1>5, <2>2, SameElements
  <2> QED
    BY <1>5, <2>1, <2>3
<1>6. CASE q[1] = r /\ Spliced(q, r) = q
  <2>1. Len(q) > 0
    BY <1>1, RangeOfQueue
  <2>2. s = 0 /\ t = 1
    BY <1>2, <1>4, <1>6, <2>1
  <2>3. 1 \in 1 .. Len(q) /\ Len(p) = Len(q) /\ Len(left) = Len(q) - 1 /\ 1 - s = 1
    BY <1>1, <1>2, <1>4, <1>6, <2>1, <2>2
  <2>4. ASSUME NEW j \in 1 .. Len(q) - 1
        PROVE  left[j] = IF j < 1 - s THEN p[j] ELSE p[j + 1]
    <3>1. j \in Nat \ {0} /\ j + 1 \in 1 .. Len(q) /\ ~(j < 1)
      BY <1>1
    <3>2. left[j] = q[j + 1]
      BY <1>4, <1>6, <2>2
    <3>3. p[j + 1] = q[j + 1]
      BY <1>1, <1>2, <2>2, <3>1
    <3> QED
      BY <2>3, <3>1, <3>2, <3>3
  <2>5. 1 - s \in 1 .. Len(p) /\ Len(left) = Len(p) - 1
    BY <1>1, <2>1, <2>3
  <2>6. \A j \in 1 .. Len(p) - 1 : left[j] = IF j < 1 - s THEN p[j] ELSE p[j + 1]
    BY <2>3, <2>4
  <2>7. 1 \in 1 .. Len(q) /\ q[1] = r
    BY <1>6, <2>3
  <2> QED
    BY <1>5, <2>5, <2>6, <2>7 DEF p, left
<1>7. ASSUME NEW i \in 2 .. Len(q), q[i] = r, Spliced(q, r) = RemoveAt(q, i)
      PROVE  \E k \in 1 .. Len(p) : p[k] = r /\ left = RemoveAt(p, k)
  <2> DEFINE new == RemoveAt(q, i)
  <2>1. /\ Len(new) = Len(q) - 1
        /\ \A j \in 1 .. Len(q) - 1 : new[j] = IF j < i THEN q[j] ELSE q[j + 1]
    <3>1. i \in 1 .. Len(q)
      OBVIOUS
    <3> QED
      BY ONLY <3>1, q \in Seq(S), RemoveAtProperties DEF new
  <2> HIDE DEF new
  <2>2. q[1] # r
    BY <1>1, <1>7 DEF Lists
  <2>3. Len(new) > 0 /\ new[1] = q[1]
    BY <1>1, <2>1
  <2>4. t = s
    BY <1>1, <1>2, <1>4, <1>7, <2>2, <2>3 DEF new
  <2>5. /\ i - s \in 1 .. Len(p) /\ Len(left) = Len(p) - 1
        /\ \A j \in 1 .. Len(p) - 1 : left[j] = new[j + s]
    BY <1>1, <1>2, <1>4, <1>7, <2>1, <2>4 DEF new
  <2>6. ASSUME NEW j \in 1 .. Len(p) - 1
        PROVE  left[j] = IF j < i - s THEN p[j] ELSE p[j + 1]
    <3>1. /\ j \in Nat \ {0} /\ s \in {0, 1} /\ j + s \in 1 .. Len(q) - 1
          /\ j \in 1 .. Len(q) - s /\ j + 1 \in 1 .. Len(q) - s
          /\ (j + 1) + s = (j + s) + 1
      BY <1>1, <1>2
    <3>2. p[j] = q[j + s] /\ p[j + 1] = q[(j + s) + 1]
      BY <1>2, <3>1
    <3>3. left[j] = IF j + s < i THEN q[j + s] ELSE q[(j + s) + 1]
      BY <2>1, <2>5, <3>1
    <3>4. j + s < i <=> j < i - s
      BY <1>1, <1>2, <3>1
    <3> QED
      BY <3>2, <3>3, <3>4
  <2> QED
    BY <1>5, <1>7, <2>5, <2>6
<1> QED
  BY <1>1, <1>6, <1>7, SplicedCases DEF p, left

\* What checkQueueLength drops, a stale head left out, are the oldest tracked
\* requests beyond the limit.
LEMMA LiveTrimmed ==
    ASSUME NEW S, NEW q \in Seq(S), NEW rs, Lists(q, rs)
    PROVE  LET rest == Live(q, rs)
               excess == IF Len(rest) > QueueLimit THEN Len(rest) - QueueLimit ELSE 0
           IN  /\ Live(Trimmed(q), rs \ Dropped(q)) = SubSeq(rest, excess + 1, Len(rest))
               /\ Dropped(q) \intersect rs = {rest[j] : j \in 1 .. excess}
<1> DEFINE rest == Live(q, rs)
           excess == IF Len(rest) > QueueLimit THEN Len(rest) - QueueLimit ELSE 0
           n == Excess(q)
           s == StaleHeads(q, rs)
           new == Trimmed(q)
           t == StaleHeads(new, rs \ Dropped(q))
           left == Live(new, rs \ Dropped(q))
           right == SubSeq(rest, excess + 1, Len(rest))
<1>1. Len(q) \in Nat /\ QueueLimit \in Nat
  BY LenProperties, QueueLimitAssumption
<1>2. /\ s \in {0, 1} /\ s <= Len(q)
      /\ s = IF Len(q) > 0 /\ q[1] \notin rs THEN 1 ELSE 0
      /\ rest \in Seq(S) /\ Len(rest) = Len(q) - s
      /\ \A i \in 1 .. Len(q) - s : rest[i] = q[i + s]
  BY LiveElements
<1>3. /\ n \in 0 .. Len(q) /\ new \in Seq(S) /\ Len(new) = Len(q) - n
      /\ \A i \in 1 .. Len(q) - n : new[i] = q[i + n]
  BY TrimmedProperties
<1>4. n = IF Len(q) > QueueLimit THEN Len(q) - QueueLimit ELSE 0
  BY DEF Excess
<1>5. Dropped(q) = {q[i] : i \in 1 .. n}
  BY DEF Dropped
<1>6. /\ t = IF Len(new) > 0 /\ new[1] \notin rs \ Dropped(q) THEN 1 ELSE 0
      /\ left \in Seq(S) /\ Len(left) = Len(new) - t
      /\ \A i \in 1 .. Len(new) - t : left[i] = new[i + t]
  BY <1>3, LiveElements
<1>7. /\ excess \in 0 .. Len(rest)
      /\ excess = IF n >= s THEN n - s ELSE 0
  <2>1. n \in Nat /\ (s = 0 \/ s = 1) /\ s <= Len(q) /\ Len(rest) = Len(q) - s
    BY <1>1, <1>2, <1>3
  <2>2. n <= Len(q) /\ Len(rest) \in Nat
    BY <1>1, <1>3, <2>1
  <2> HIDE DEF rest, n, s
  <2>3. CASE s = 0
    BY <1>1, <1>4, <2>1, <2>2, <2>3
  <2>4. CASE s = 1
    BY <1>1, <1>4, <2>1, <2>2, <2>4
  <2> QED
    BY <2>1, <2>3, <2>4
<1>8. /\ right \in Seq(S) /\ Len(right) = Len(rest) - excess
      /\ \A i \in 1 .. Len(rest) - excess : right[i] = rest[i + excess]
  BY <1>2, <1>7, SuffixProperties
<1> HIDE DEF rest, excess, n, s, new, t, left, right
<1>9. t = IF n = 0 THEN s ELSE 0
  <2>1. CASE n = 0
    <3>1. Dropped(q) = {}
      BY <1>5, <2>1
    <3> QED
      BY <1>1, <1>2, <1>3, <1>6, <2>1, <3>1
  <2>2. CASE n > 0 /\ Len(new) > 0
    <3>1. n + 1 \in 2 .. Len(q) /\ new[1] = q[n + 1]
      BY <1>1, <1>3, <2>2
    <3>2. q[n + 1] \in rs
      BY <1>1, <3>1 DEF Lists
    <3>3. \A j \in 1 .. n : q[j] # q[n + 1]
      BY <1>1, <1>3, <3>1 DEF Lists
    <3> QED
      BY <1>5, <1>6, <2>2, <3>1, <3>2, <3>3
  <2>3. CASE n > 0 /\ ~(Len(new) > 0)
    BY <1>6, <2>3
  <2> QED
    BY <1>1, <1>3, <2>1, <2>2, <2>3
<1>10. excess + s = n + t
  <2>1. n \in Nat /\ (s = 0 \/ s = 1)
    BY <1>1, <1>2, <1>3
  <2>2. excess = IF n >= s THEN n - s ELSE 0
    BY <1>7
  <2>3. CASE n = 0 /\ s = 0
    BY <1>9, <2>2, <2>3
  <2>4. CASE n = 0 /\ s = 1
    BY <1>9, <2>2, <2>4
  <2>5. CASE n > 0
    BY <1>9, <2>1, <2>2, <2>5
  <2>6. n = 0 \/ n > 0
    BY <2>1
  <2> QED
    BY <2>1, <2>3, <2>4, <2>5, <2>6, Zenon
<1>11. Len(left) = Len(right) /\ \A i \in 1 .. Len(left) : left[i] = right[i]
  <2>1. /\ n \in Nat /\ n <= Len(q) /\ (t = 0 \/ t = 1) /\ (s = 0 \/ s = 1)
        /\ excess \in Nat
    BY <1>1, <1>2, <1>3, <1>6, <1>7
  <2>2. Len(left) = Len(q) - n - t /\ Len(right) = Len(q) - s - excess
    BY <1>2, <1>3, <1>6, <1>8
  <2>3. Len(left) = Len(right)
    BY <1>1, <1>10, <2>1, <2>2
  <2>4. ASSUME NEW i \in 1 .. Len(left)
        PROVE  left[i] = right[i]
    <3>1. i \in Nat /\ 1 <= i /\ i <= Len(q) - n - t /\ i <= Len(q) - s - excess
      BY <1>1, <2>1, <2>2, <2>3
    <3>2. i \in 1 .. Len(new) - t /\ i + t \in 1 .. Len(q) - n
      BY <1>1, <1>3, <2>1, <3>1
    <3>3. i \in 1 .. Len(rest) - excess /\ i + excess \in 1 .. Len(q) - s
      BY <1>1, <1>2, <2>1, <3>1
    <3>4. (i + t) + n = (i + excess) + s
      <4>1. i \in Int /\ t \in Int /\ n \in Int /\ excess \in Int /\ s \in Int
        BY <2>1, <3>1
      <4> QED
        BY <1>10, <4>1
    <3>5. left[i] = q[(i + t) + n]
      BY <1>3, <1>6, <3>2
    <3>6. right[i] = q[(i + excess) + s]
      BY <1>2, <1>8, <3>3
    <3> QED
      BY <3>4, <3>5, <3>6
  <2> QED
    BY <2>3, <2>4
<1>12. left = right
  BY <1>6, <1>8, <1>11, SameElements
<1>13. Dropped(q) \intersect rs = {rest[j] : j \in 1 .. excess}
  <2>1. ASSUME NEW x \in Dropped(q) \intersect rs
        PROVE  \E j \in 1 .. excess : rest[j] = x
    <3>1. PICK i \in 1 .. n : q[i] = x
      BY <1>5
    <3>2. i \in Nat \ {0} /\ n \in Nat /\ i <= n /\ i <= Len(q)
      BY <1>1, <1>3, <3>1
    <3>3. s = 1 => i # 1
      BY <1>2, <2>1, <3>1
    <3>4. i - s \in 1 .. excess
      BY <1>2, <1>7, <3>2, <3>3
    <3>5. i - s \in 1 .. Len(q) - s /\ (i - s) + s = i
      BY <1>1, <1>2, <3>2, <3>3
    <3>6. rest[i - s] = x
      BY <1>2, <3>1, <3>5
    <3> QED
      BY <3>4, <3>6
  <2>2. ASSUME NEW j \in 1 .. excess
        PROVE  rest[j] \in Dropped(q) /\ rest[j] \in rs
    <3>0. j \in Nat \ {0} /\ s \in Nat /\ n \in Nat /\ j <= n - s
      BY <1>2, <1>3, <1>7
    <3>1. j + s \in 1 .. n /\ rest[j] = q[j + s]
      <4>1. j \in 1 .. Len(q) - s
        BY <1>1, <1>3, <3>0
      <4> QED
        BY <1>2, <3>0, <4>1
    <3>2. q[j + s] \in rs
      BY <1>1, <1>2, <1>3, <3>1 DEF Lists
    <3> QED
      BY <1>5, <3>1, <3>2
  <2> QED
    BY <2>1, <2>2
<1> QED
  BY <1>12, <1>13 DEF rest, excess, new, left, right

LEMMA LedgerInit == Init => Ledger!Init
<1> SUFFICES ASSUME Init
             PROVE  Ledger!Init
  OBVIOUS
<1>1. LiveQueue = <<>>
  BY DEF Init, LiveQueue
<1> QED
  BY <1>1 DEF Init, Ledger!Init

\* Requests that wait in the live queue are tracked, pending and listed once.
LEMMA LiveQueueProperties ==
    ASSUME QueueInvariant
    PROVE  /\ LiveQueue = Live(commandQueue, commands)
           /\ LiveQueue \in Seq(Requests)
           /\ Range(LiveQueue) = commands
           /\ \A r \in commands : r \in Requests /\ phase[r] = "sent" /\ result[r] = None
<1>1. commandQueue \in Seq(Requests) /\ Lists(commandQueue, commands)
  BY DEF QueueInvariant, TypeOK, QueueListsCommands
<1>2. LiveQueue = Live(commandQueue, commands)
  BY DEF LiveQueue, Live
<1>3. \A r \in commands : r \in Requests /\ phase[r] = "sent" /\ result[r] = None
  BY DEF QueueInvariant, TypeOK, NoLostRequest, Pending
<1> QED
  BY <1>1, <1>2, <1>3, LiveLists

LEMMA LedgerOpens ==
    ASSUME QueueInvariant, NEW r \in Requests, WriteCommand(r)
    PROVE  Ledger!Open(r)
<1>1. /\ phase[r] = "starting" /\ result[r] = None
      /\ r \notin Range(commandQueue)
      /\ UNCHANGED <<cancelled, result>>
  BY DEF WriteCommand, Resumes, QueueInvariant, PhasesMatchQueue
<1>2. r \notin Range(LiveQueue)
  BY <1>1, LiveQueueProperties
<1>3. LiveQueue' = Live(Append(commandQueue, r), commands \union {r})
  BY DEF WriteCommand, LiveQueue, Live
<1>4. commandQueue \in Seq(Requests) /\ Lists(commandQueue, commands)
  BY DEF QueueInvariant, TypeOK, QueueListsCommands
<1>5. LiveQueue' = Append(LiveQueue, r)
  BY <1>1, <1>3, <1>4, LiveAppend, LiveQueueProperties
<1> QED
  BY <1>1, <1>2, <1>5 DEF Ledger!Open, Ledger!Range, Range

LEMMA LedgerRefuses ==
    ASSUME QueueInvariant, NEW r \in Requests, WriteFails(r) \/ SendFails(r)
    PROVE  Ledger!Refuse(r)
<1>1. /\ phase[r] = "starting" /\ result[r] = None
      /\ result' = [result EXCEPT ![r] = "undefined"]
      /\ UNCHANGED <<cancelled, commandQueue, commands>>
  BY DEF WriteFails, SendFails, Resumes, QueueInvariant, PhasesMatchQueue, queueVars
<1>2. r \notin Range(LiveQueue) /\ LiveQueue' = LiveQueue
  BY <1>1, LiveQueueProperties DEF LiveQueue
<1>3. result \in [Requests -> {None, "answer", "undefined"}]
  BY DEF QueueInvariant, TypeOK
<1>4. result' = [q \in Requests |->
                    IF q \in {r} /\ result[q] = None THEN "undefined" ELSE result[q]]
  BY <1>1, <1>3
<1> QED
  BY <1>1, <1>2, <1>4 DEF Ledger!Refuse, Ledger!Abandoned, Ledger!Range, Range

LEMMA LedgerAbandonsAll ==
    ASSUME QueueInvariant, NEW n, RestartLanguageServer(n)
    PROVE  Ledger!AbandonAll
<1>1. /\ commandQueue' = <<>> /\ UNCHANGED cancelled
      /\ result' = Settle(commands, "undefined")
  BY DEF RestartLanguageServer, ClearPendingRequests
<1>2. LiveQueue' = <<>>
  BY <1>1 DEF LiveQueue
<1> QED
  BY <1>1, <1>2, LiveQueueProperties
  DEF Ledger!AbandonAll, Ledger!Abandoned, Ledger!Range, Range, Settle

LEMMA LedgerAbandons ==
    ASSUME QueueInvariant, ExpireResponse
    PROVE  \E i \in 1 .. Len(LiveQueue) : Ledger!Abandon(i)
<1> DEFINE r == Head(responses)
<1>1. /\ r \in commands /\ r \in cancelled
      /\ commands' = commands \ {r}
      /\ commandQueue' = Spliced(commandQueue, r)
      /\ result' = Settle({r}, "undefined")
      /\ UNCHANGED cancelled
  BY DEF ExpireResponse
<1> HIDE DEF r
<1>2. LiveQueue' = Live(Spliced(commandQueue, r), commands \ {r})
  BY <1>1 DEF LiveQueue, Live
<1>3. commandQueue \in Seq(Requests) /\ Lists(commandQueue, commands)
  BY DEF QueueInvariant, TypeOK, QueueListsCommands
<1>4. PICK i \in 1 .. Len(LiveQueue) :
         LiveQueue[i] = r /\ LiveQueue' = RemoveAt(LiveQueue, i)
  BY <1>1, <1>2, <1>3, LiveSpliced, LiveQueueProperties
<1>5. result[r] = None
  BY <1>1, LiveQueueProperties
<1> QED
  BY <1>1, <1>4, <1>5 DEF Ledger!Abandon, Ledger!Abandoned, Ledger!RemoveAt, RemoveAt, Settle

LEMMA LedgerAnswers ==
    ASSUME QueueInvariant, AnswerRequest
    PROVE  \E i \in 1 .. Len(LiveQueue) : Ledger!Answer(i)
<1> DEFINE r == Head(responses)
           q == Spliced(commandQueue, r)
           rs == commands \ {r}
           given_up == Dropped(q) \intersect rs
<1>1. /\ r \in commands /\ r \notin cancelled
      /\ commands' = commands \ ({r} \union given_up)
      /\ commandQueue' = Trimmed(q)
      /\ result' = Answered(r, Settle(given_up, "undefined"))
      /\ UNCHANGED cancelled
  BY DEF AnswerRequest
<1>2. commandQueue \in Seq(Requests) /\ Lists(commandQueue, commands)
  BY DEF QueueInvariant, TypeOK, QueueListsCommands
<1>3. q \in Seq(Requests) /\ Lists(q, rs)
  BY <1>1, <1>2, SplicedLists
<1>4. PICK i \in 1 .. Len(LiveQueue) : LiveQueue[i] = r /\ Live(q, rs) = RemoveAt(LiveQueue, i)
  BY <1>1, <1>2, LiveSpliced, LiveQueueProperties
<1> DEFINE rest == RemoveAt(LiveQueue, i)
           excess == IF Len(rest) > QueueLimit THEN Len(rest) - QueueLimit ELSE 0
<1>5. commands' = rs \ Dropped(q)
  BY <1>1
<1>6. r \notin given_up
  OBVIOUS
<1> HIDE DEF r, q, rs, given_up
<1>7. LiveQueue' = Live(Trimmed(q), rs \ Dropped(q))
  BY <1>1, <1>5 DEF LiveQueue, Live
<1>8. /\ LiveQueue' = SubSeq(rest, excess + 1, Len(rest))
      /\ given_up = {rest[j] : j \in 1 .. excess}
  BY <1>3, <1>4, <1>7, LiveTrimmed DEF given_up
<1>9. r \in Requests /\ result[r] = None
  BY <1>1, LiveQueueProperties
<1>10. result' = [[s \in Requests |->
                     IF s \in given_up /\ result[s] = None THEN "undefined" ELSE result[s]]
                    EXCEPT ![r] = "answer"]
  BY <1>1, <1>6, <1>9 DEF Answered, Settle
<1>11. Ledger!Answer(i)
  BY <1>1, <1>4, <1>8, <1>9, <1>10 DEF Ledger!Answer, Ledger!Abandoned, Ledger!RemoveAt, RemoveAt
<1> QED
  BY <1>11

LEMMA LedgerStutter ==
    ASSUME UNCHANGED <<commandQueue, commands, cancelled, result>>
    PROVE  UNCHANGED <<LiveQueue, cancelled, result>>
  BY DEF LiveQueue

LEMMA LedgerStep ==
    ASSUME QueueInvariant, [Next]_vars
    PROVE  [Ledger!Next]_<<LiveQueue, cancelled, result>>
<1> USE DEF callerVars, queueVars, dataVars, spawnVars, pipeVars
<1>1. ASSUME NEW t \in CommandTypes, SendCommand(t)
      PROVE  Ledger!Next
  <2>1. UNCHANGED <<LiveQueue, result>> /\ cancelled' = cancelled \union current[t]
    BY <1>1 DEF SendCommand, Superseded, LiveQueue
  <2>2. current[t] \in SUBSET Requests
    BY DEF QueueInvariant, TypeOK
  <2>3. Ledger!Withdraw(current[t])
    BY <2>1 DEF Ledger!Withdraw
  <2> QED
    BY <2>2, <2>3 DEF Ledger!Next
<1>2. ASSUME NEW r \in Requests, EditorCancels(r)
      PROVE  Ledger!Next
  <2>1. UNCHANGED <<LiveQueue, result>> /\ cancelled' = cancelled \union {r}
    BY <1>2 DEF EditorCancels, LiveQueue
  <2>2. Ledger!Withdraw({r})
    BY <2>1 DEF Ledger!Withdraw
  <2> QED
    BY <2>2 DEF Ledger!Next
<1>3. ASSUME NEW r \in Requests, WriteCommand(r)
      PROVE  Ledger!Next
  BY <1>3, LedgerOpens DEF Ledger!Next
<1>4. ASSUME NEW r \in Requests, WriteFails(r) \/ SendFails(r)
      PROVE  Ledger!Next
  BY <1>4, LedgerRefuses DEF Ledger!Next
<1>5. CASE StartLanguageServer \/ RestartOnChange
  BY <1>5, LedgerAbandonsAll DEF StartLanguageServer, RestartOnChange, Ledger!Next
<1>6. CASE ExpireResponse
  BY <1>6, LedgerAbandons DEF Ledger!Next
<1>7. CASE AnswerRequest
  BY <1>7, LedgerAnswers DEF Ledger!Next
<1>8. ASSUME NEW r \in Requests, AwaitLanguageServer(r)
      PROVE  UNCHANGED <<LiveQueue, cancelled, result>>
  BY <1>8, LedgerStutter DEF AwaitLanguageServer
<1>9. ASSUME NEW n \in Spawns,
             \/ SpawnSucceeds(n) \/ SpawnFindsNoPython(n) \/ SpawnThrows(n)
             \/ RespawnAfterError(n) \/ ErrorAfterLastRetry(n) \/ ReadData(n)
             \/ ServerWrites(n) \/ ServerRaises(n) \/ ServerCrashes(n)
      PROVE  UNCHANGED <<LiveQueue, cancelled, result>>
  <2>1. UNCHANGED <<commandQueue, commands, cancelled, result>>
    BY <1>9
    DEF SpawnSucceeds, SpawnFindsNoPython, SpawnThrows, EndSpawn, RespawnAfterError,
        ErrorAfterLastRetry, ReadData, ServerWrites, ServerRaises, ServerCrashes
  <2> QED
    BY <2>1, LedgerStutter
<1>10. CASE SendNonCancellableCommand \/ IgnoreResponse \/ Dispose \/ UNCHANGED vars
  <2>1. UNCHANGED <<commandQueue, commands, cancelled, result>>
    BY <1>10 DEF SendNonCancellableCommand, IgnoreResponse, Dispose, vars
  <2> QED
    BY <2>1, LedgerStutter
<1> QED
  BY <1>1, <1>2, <1>3, <1>4, <1>5, <1>6, <1>7, <1>8, <1>9, <1>10 DEF Next, HandleResponse

\* The proxy implements the ledger of open requests: whatever the splice leaves
\* in the queue, every request is settled at most once, a withdrawn one is never
\* answered, and what checkQueueLength gives up is the oldest beyond the limit.
THEOREM LedgerImplemented == Spec => ImplementsLedger
<1>1. Init => Ledger!Init
  BY LedgerInit
<1>2. QueueInvariant /\ [Next]_vars => [Ledger!Next]_<<LiveQueue, cancelled, result>>
  BY LedgerStep
<1> QED
  BY <1>1, <1>2, QueueInvariantHolds, PTL DEF Spec, ImplementsLedger, Ledger!Spec

-----------------------------------------------------------------------------
(* The language server.                                                    *)

-----------------------------------------------------------------------------
(* Types.                                                                  *)

Ends == {"notCompared", "notStopped", "noOptions", "noServer"}

Busy(a) == activity[a] = "comparing" \/ Replacing(a)

\* An activity that has not ended knows the interpreter it works with.
Typed ==
    /\ LSTypeOK
    /\ \A a \in Activities : Busy(a) => found[a] \in Interpreters

LEMMA HashInHashes ==
    ASSUME NEW i \in Interpreters PROVE Hash[i] \in Hashes
BY DEF Hashes

LEMMA FailedAreEnds ==
    /\ DOMAIN Failed = {"comparing", "stopping", "options", "starting"}
    /\ \A s \in DOMAIN Failed : Failed[s] \in Ends
<1>1. DOMAIN Failed = {"comparing", "stopping", "options", "starting"}
  BY DEF Failed
<1>2. Failed["comparing"] = "notCompared" /\ Failed["stopping"] = "notStopped"
  BY DEF Failed
<1>3. Failed["options"] = "noOptions" /\ Failed["starting"] = "noServer"
  BY DEF Failed
<1> QED
  BY <1>1, <1>2, <1>3 DEF Ends

LEMMA InitTyped == LSInit => Typed
<1> SUFFICES ASSUME LSInit PROVE Typed
  OBVIOUS
<1>1. activity \in [Activities -> Stages] /\ found \in [Activities -> Interpreters \union {Undefined}]
  BY DEF LSInit, Stages
<1>2. \A a \in Activities : Busy(a) => found[a] \in Interpreters
  BY DEF LSInit, Busy, Replacing
<1>3. events \in 0..MaxActivities
  BY InterpretersAssumption DEF LSInit
<1>4. interpreterHash \in Hashes
  BY DEF LSInit, Hashes
<1> QED
  BY <1>1, <1>2, <1>3, <1>4 DEF LSInit, Typed, LSTypeOK

LEMMA NextTyped ==
    ASSUME Typed, [LSNext]_lsVars PROVE Typed'
<1> USE DEF Typed, LSTypeOK, Stages, Busy, Replacing
<1>1. CASE ChangeSetting
  BY <1>1, InterpretersAssumption DEF ChangeSetting, serverVars, activityVars
<1>2. CASE TellSubscribers
  <2>1. PICK S \in SUBSET Unused :
           /\ activity' = [a \in Activities |-> IF a \in S THEN "comparing" ELSE activity[a]]
           /\ found' = [a \in Activities |-> IF a \in S THEN configured ELSE found[a]]
    BY <1>2 DEF TellSubscribers
  <2>2. events' \in 0..MaxActivities
    BY <1>2, InterpretersAssumption DEF TellSubscribers
  <2>3. missed' \in BOOLEAN
    BY <1>2 DEF TellSubscribers
  <2> QED
    BY <1>2, <2>1, <2>2, <2>3 DEF TellSubscribers, serverVars
<1>3. ASSUME NEW a \in Activities, SameInterpreter(a) PROVE Typed'
  BY <1>3 DEF SameInterpreter, serverVars
<1>4. ASSUME NEW a \in Activities, StopClient(a) PROVE Typed'
  <2>1. interpreterHash' \in Hashes
    BY <1>4, HashInHashes DEF StopClient, Replace
  <2> QED
    BY <1>4, <2>1 DEF StopClient, Replace
<1>5. ASSUME NEW a \in Activities, NothingToStop(a) PROVE Typed'
  <2>1. interpreterHash' \in Hashes
    BY <1>5, HashInHashes DEF NothingToStop, Replace
  <2> QED
    BY <1>5, <2>1 DEF NothingToStop, Replace, DisposeAndActivate, DataForOptions
<1>6. ASSUME NEW a \in Activities, Stopped(a) PROVE Typed'
  BY <1>6 DEF Stopped, DisposeAndActivate, DataForOptions, WithoutStopped
<1>7. ASSUME NEW a \in Activities, Subscribe(a) PROVE Typed'
  <2>1. interpreterHash' \in Hashes
    BY <1>7, HashInHashes DEF Subscribe
  <2> QED
    BY <1>7, <2>1 DEF Subscribe, WithSubscription
<1>8. ASSUME NEW a \in Activities, Start(a) \/ StartFails(a) PROVE Typed'
  BY <1>8 DEF Start, StartFails
<1>9. ASSUME NEW a \in Activities, Fail(a) PROVE Typed'
  <2>1. PICK s \in Ends : activity' = [activity EXCEPT ![a] = s]
    BY <1>9, FailedAreEnds DEF Fail
  <2> QED
    BY <1>9, <2>1 DEF Fail, serverVars, Ends
<1>10. CASE UNCHANGED lsVars
  BY <1>10 DEF lsVars, serverVars, activityVars
<1> QED
  BY <1>1, <1>2, <1>3, <1>4, <1>5, <1>6, <1>7, <1>8, <1>9, <1>10 DEF LSNext

-----------------------------------------------------------------------------
(* One server.                                                             *)

Inv == Typed /\ (~overlapped => OneServerRuns)

LEMMA InitOneServer == LSInit => OneServerRuns
BY DEF LSInit, OneServerRuns, Replacing

LEMMA NextOneServer ==
    ASSUME Inv, [LSNext]_lsVars PROVE ~overlapped' => OneServerRuns'
<1> SUFFICES ASSUME ~overlapped' PROVE OneServerRuns'
  OBVIOUS
<1>0. ~overlapped /\ Typed /\ OneServerRuns
  BY DEF Inv, LSNext, ChangeSetting, TellSubscribers, SameInterpreter, StopClient, NothingToStop,
         Replace, Stopped, DisposeAndActivate, Subscribe, Start, StartFails, Fail, lsVars, Typed, LSTypeOK
<1> USE <1>0 DEF Typed, LSTypeOK, OneServerRuns, Replacing
<1>1. CASE ChangeSetting
  BY <1>1 DEF ChangeSetting, serverVars, activityVars
<1>2. CASE TellSubscribers
  <2>1. PICK S \in SUBSET Unused :
           activity' = [a \in Activities |-> IF a \in S THEN "comparing" ELSE activity[a]]
    BY <1>2 DEF TellSubscribers
  <2> QED
    BY <1>2, <2>1 DEF TellSubscribers, serverVars
<1>3. ASSUME NEW a \in Activities, SameInterpreter(a) PROVE OneServerRuns'
  BY <1>3 DEF SameInterpreter, serverVars
<1>4. ASSUME NEW a \in Activities, StopClient(a) PROVE OneServerRuns'
  BY <1>4 DEF StopClient, Replace
<1>5. ASSUME NEW a \in Activities, NothingToStop(a) PROVE OneServerRuns'
  <2>1. running = {}
    BY <1>5, InterpretersAssumption DEF NothingToStop, Replace
  <2> QED
    BY <1>5, <2>1 DEF NothingToStop, Replace, DisposeAndActivate
<1>6. ASSUME NEW a \in Activities, Stopped(a) PROVE OneServerRuns'
  BY <1>6 DEF Stopped, DisposeAndActivate, WithoutStopped
<1>7. ASSUME NEW a \in Activities, Subscribe(a) PROVE OneServerRuns'
  BY <1>7 DEF Subscribe
<1>8. ASSUME NEW a \in Activities, Start(a) \/ StartFails(a) PROVE OneServerRuns'
  BY <1>8 DEF Start, StartFails
<1>9. ASSUME NEW a \in Activities, Fail(a) PROVE OneServerRuns'
  <2>1. PICK s \in Ends : activity' = [activity EXCEPT ![a] = s]
    BY <1>9, FailedAreEnds DEF Fail
  <2> QED
    BY <1>9, <2>1 DEF Fail, serverVars, Ends
<1>10. CASE UNCHANGED lsVars
  BY <1>10 DEF lsVars, serverVars, activityVars
<1> QED
  BY <1>1, <1>2, <1>3, <1>4, <1>5, <1>6, <1>7, <1>8, <1>9, <1>10 DEF LSNext

\* One server runs, the one the activator can stop, however the settings change,
\* as long as restarts do not overlap.
THEOREM ServerCorrect == LSSpec => []ServerInvariant
<1>1. LSInit => Inv
  BY InitTyped, InitOneServer DEF Inv
<1>2. Inv /\ [LSNext]_lsVars => Inv'
  BY NextTyped, NextOneServer DEF Inv
<1>3. Inv => ServerInvariant
  BY DEF Inv, Typed, ServerInvariant
<1> QED
  BY <1>1, <1>2, <1>3, PTL DEF LSSpec

-----------------------------------------------------------------------------
(* Subscriptions.                                                          *)

\* Without a subscription there is an activity that is about to subscribe, or one
\* that could not.
Listens ==
    subscribed = {} => \E a \in Activities : activity[a] \in {"options", "noOptions"}

LEMMA InitListens == LSInit => Listens
<1> SUFFICES ASSUME LSInit PROVE Listens
  OBVIOUS
<1>1. 1 \in Activities
  BY InterpretersAssumption DEF Activities
<1> QED
  BY <1>1 DEF LSInit, Listens

LEMMA NextListens ==
    ASSUME Typed, Listens, [LSNext]_lsVars PROVE Listens'
<1> USE DEF Typed, LSTypeOK, Listens
<1>1. CASE ChangeSetting
  BY <1>1 DEF ChangeSetting, serverVars, activityVars
<1>2. CASE TellSubscribers
  <2>1. PICK S \in SUBSET Unused :
           activity' = [a \in Activities |-> IF a \in S THEN "comparing" ELSE activity[a]]
    BY <1>2 DEF TellSubscribers
  <2> QED
    BY <1>2, <2>1 DEF TellSubscribers, serverVars, Unused
<1>3. ASSUME NEW a \in Activities, SameInterpreter(a) PROVE Listens'
  BY <1>3 DEF SameInterpreter, serverVars
<1>4. ASSUME NEW a \in Activities, StopClient(a) PROVE Listens'
  BY <1>4 DEF StopClient, Replace
<1>5. ASSUME NEW a \in Activities, NothingToStop(a) PROVE Listens'
  BY <1>5 DEF NothingToStop, Replace, DisposeAndActivate
<1>6. ASSUME NEW a \in Activities, Stopped(a) PROVE Listens'
  BY <1>6 DEF Stopped, DisposeAndActivate
<1>7. ASSUME NEW a \in Activities, Subscribe(a) PROVE Listens'
  BY <1>7 DEF Subscribe, WithSubscription
<1>8. ASSUME NEW a \in Activities, Start(a) \/ StartFails(a) PROVE Listens'
  BY <1>8 DEF Start, StartFails
<1>9. ASSUME NEW a \in Activities, Fail(a) PROVE Listens'
  <2>1. Failed["options"] = "noOptions"
    BY DEF Failed
  <2>2. activity[a] # "noOptions"
    BY <1>9, FailedAreEnds DEF Fail
  <2> QED
    BY <1>9, <2>1, <2>2 DEF Fail, serverVars
<1>10. CASE UNCHANGED lsVars
  BY <1>10 DEF lsVars, serverVars, activityVars
<1> QED
  BY <1>1, <1>2, <1>3, <1>4, <1>5, <1>6, <1>7, <1>8, <1>9, <1>10 DEF LSNext

\* Once the restarts have ended the activator is subscribed to changes of the
\* interpreter, even when they overlapped and disposed of each other's subscriptions.
THEOREM ListensCorrect == LSSpec => []StillListens
<1>1. LSInit => Typed /\ Listens
  BY InitTyped, InitListens
<1>2. Typed /\ Listens /\ [LSNext]_lsVars => (Typed /\ Listens)'
  BY NextTyped, NextListens
<1>3. Typed /\ Listens => StillListens
  BY DEF Listens, StillListens, Quiet, Replacing
<1> QED
  BY <1>1, <1>2, <1>3, PTL DEF LSSpec

-----------------------------------------------------------------------------
(* The interpreter.                                                        *)

\* Nothing happened that may leave the server with another interpreter.
Undisturbed ==
    /\ ~missed /\ ~overlapped
    /\ \A a \in Activities : activity[a] \notin Ends

\* What is configured is what the server has, or is about to be compared with it.
Told ==
    events = 0 =>
        \/ interpreterHash = Hash[configured]
        \/ \E b \in Activities : activity[b] = "comparing" /\ found[b] = configured

OptionsAreCurrent ==
    \A a \in Activities : activity[a] = "options" =>
        subscribed = {} /\ (events = 0 => found[a] = configured)

StartedIsTold ==
    \A a \in Activities : activity[a] = "starting" =>
        interpreterHash = Hash[found[a]] /\ Told

RunningIsTold ==
    (\A a \in Activities : ~Replacing(a)) =>
        /\ languageClient \in Activities
        /\ running = {languageClient}
        /\ activity[languageClient] = "done"
        /\ interpreterHash = Hash[found[languageClient]]
        /\ Told

Current == OptionsAreCurrent /\ StartedIsTold /\ RunningIsTold

CurrentInv == Inv /\ (Undisturbed => Current)

LEMMA InitCurrent == LSInit => Current
<1> SUFFICES ASSUME LSInit PROVE Current
  OBVIOUS
<1>1. 1 \in Activities
  BY InterpretersAssumption DEF Activities
<1>2. \A a \in Activities : activity[a] \in {"options", "new"} /\ (activity[a] = "options" => a = 1)
  BY DEF LSInit
<1>3. OptionsAreCurrent
  BY <1>2 DEF LSInit, OptionsAreCurrent
<1>4. Replacing(1)
  BY <1>1 DEF LSInit, Replacing
<1> QED
  BY <1>1, <1>2, <1>3, <1>4 DEF Current, StartedIsTold, RunningIsTold

\* What disturbs the activator is never forgotten.
LEMMA UndisturbedBefore ==
    ASSUME Typed, [LSNext]_lsVars, Undisturbed' PROVE Undisturbed
<1> USE DEF Typed, LSTypeOK, Undisturbed
<1>1. CASE ChangeSetting
  BY <1>1 DEF ChangeSetting, activityVars
<1>2. CASE TellSubscribers
  <2>1. PICK S \in SUBSET Unused :
           activity' = [a \in Activities |-> IF a \in S THEN "comparing" ELSE activity[a]]
    BY <1>2 DEF TellSubscribers
  <2> QED
    BY <1>2, <2>1 DEF TellSubscribers, Unused, Ends
<1>3. ASSUME NEW a \in Activities, SameInterpreter(a) PROVE Undisturbed
  BY <1>3 DEF SameInterpreter, Ends
<1>4. ASSUME NEW a \in Activities, StopClient(a) PROVE Undisturbed
  BY <1>4 DEF StopClient, Replace, Ends
<1>5. ASSUME NEW a \in Activities, NothingToStop(a) PROVE Undisturbed
  BY <1>5 DEF NothingToStop, Replace, DisposeAndActivate, Ends
<1>6. ASSUME NEW a \in Activities, Stopped(a) PROVE Undisturbed
  BY <1>6 DEF Stopped, DisposeAndActivate, Ends
<1>7. ASSUME NEW a \in Activities, Subscribe(a) PROVE Undisturbed
  BY <1>7 DEF Subscribe, Ends
<1>8. ASSUME NEW a \in Activities, Start(a) \/ StartFails(a) PROVE Undisturbed
  BY <1>8 DEF Start, StartFails, Ends
<1>9. ASSUME NEW a \in Activities, Fail(a) PROVE Undisturbed
  BY <1>9, FailedAreEnds DEF Fail
<1>10. CASE UNCHANGED lsVars
  BY <1>10 DEF lsVars, activityVars
<1> QED
  BY <1>1, <1>2, <1>3, <1>4, <1>5, <1>6, <1>7, <1>8, <1>9, <1>10 DEF LSNext

\* An event that has somebody to tell starts a restart.
LEMMA SomebodyIsTold ==
    ASSUME Typed, NEW S \in SUBSET Unused, subscribed # {},
           Cardinality(S) = Cardinality(subscribed)
    PROVE  S # {}
<1>1. IsFiniteSet(Activities)
  BY InterpretersAssumption, FS_Interval DEF Activities
<1>2. IsFiniteSet(subscribed)
  BY <1>1, FS_Subset DEF Typed, LSTypeOK
<1>3. Cardinality(subscribed) # 0
  BY <1>2, FS_EmptySet
<1> QED
  BY <1>3, FS_EmptySet

LEMMA NextCurrent ==
    ASSUME CurrentInv, [LSNext]_lsVars, Undisturbed' PROVE Current'
<1>0. /\ Undisturbed /\ Typed /\ OneServerRuns
      /\ OptionsAreCurrent /\ StartedIsTold /\ RunningIsTold
  BY UndisturbedBefore DEF CurrentInv, Inv, Current, Undisturbed
<1> USE DEF Current
<1>1. CASE ChangeSetting
  <2>1. ~(events' = 0) /\ UNCHANGED <<activity, found, subscribed, running, languageClient, interpreterHash>>
    BY <1>1, <1>0 DEF ChangeSetting, Typed, LSTypeOK, activityVars, serverVars
  <2>2. Told'
    BY <2>1 DEF Told
  <2> QED
    BY <1>0, <2>1, <2>2 DEF OptionsAreCurrent, StartedIsTold, RunningIsTold, Replacing
<1>2. CASE TellSubscribers
  <2>1. PICK S \in SUBSET Unused :
           /\ Cardinality(S) = Cardinality(subscribed)
           /\ activity' = [a \in Activities |-> IF a \in S THEN "comparing" ELSE activity[a]]
           /\ found' = [a \in Activities |-> IF a \in S THEN configured ELSE found[a]]
    BY <1>2 DEF TellSubscribers
  <2>2. subscribed # {}
    BY <1>2 DEF TellSubscribers, Undisturbed
  <2>3. PICK b \in S : TRUE
    BY <1>0, <2>1, <2>2, SomebodyIsTold
  <2>4. b \in Activities /\ activity'[b] = "comparing" /\ found'[b] = configured
    BY <2>1, <2>3 DEF Unused
  <2>5. UNCHANGED <<configured, interpreterHash, languageClient, running, subscribed>>
    BY <1>2 DEF TellSubscribers, serverVars
  <2>6. Told'
    BY <2>4, <2>5 DEF Told
  <2>7. ASSUME NEW a \in Activities, activity'[a] # "comparing"
        PROVE  activity'[a] = activity[a] /\ found'[a] = found[a]
    BY <2>1, <2>7
  <2>8. ASSUME NEW a \in Activities, Replacing(a) PROVE Replacing(a)'
    BY <2>1, <2>8 DEF Replacing, Unused
  <2>9. OptionsAreCurrent'
    BY <1>0, <2>2, <2>7 DEF OptionsAreCurrent
  <2>10. StartedIsTold'
    BY <1>0, <2>5, <2>6, <2>7 DEF StartedIsTold
  <2>11. ASSUME \A a \in Activities : ~Replacing(a)'
         PROVE  activity'[languageClient] = "done" /\ found'[languageClient] = found[languageClient]
    BY <1>0, <2>1, <2>8, <2>11 DEF RunningIsTold, Unused
  <2>12. RunningIsTold'
    BY <1>0, <2>5, <2>6, <2>8, <2>11 DEF RunningIsTold
  <2> QED
    BY <2>9, <2>10, <2>12
<1>3. ASSUME NEW a \in Activities, SameInterpreter(a) PROVE Current'
  <2>1. /\ activity' = [activity EXCEPT ![a] = "done"]
        /\ activity[a] = "comparing"
        /\ interpreterHash = Hash[found[a]]
        /\ UNCHANGED <<configured, events, found, subscribed, running, languageClient, interpreterHash>>
    BY <1>3 DEF SameInterpreter, Unchanged, serverVars
  <2>2. Told => Told'
    BY <1>0, <2>1 DEF Told, Typed, LSTypeOK
  <2>3. \A b \in Activities : Replacing(b)' = Replacing(b)
    BY <1>0, <2>1 DEF Replacing, Typed, LSTypeOK
  <2> QED
    BY <1>0, <2>1, <2>2, <2>3 DEF OptionsAreCurrent, StartedIsTold, RunningIsTold, Typed, LSTypeOK
<1>4. ASSUME NEW a \in Activities, StopClient(a) PROVE Current'
  <2>1. \A b \in Activities : ~Replacing(b)
    BY <1>4 DEF StopClient, Replace, Undisturbed
  <2>2. \A b \in Activities : activity'[b] \notin {"options", "starting"}
    BY <1>0, <1>4, <2>1 DEF StopClient, Replacing, Typed, LSTypeOK
  <2>3. Replacing(a)'
    BY <1>0, <1>4 DEF StopClient, Replacing, Typed, LSTypeOK
  <2> QED
    BY <2>2, <2>3 DEF OptionsAreCurrent, StartedIsTold, RunningIsTold
<1>5. ASSUME NEW a \in Activities, NothingToStop(a) PROVE Current'
  <2>1. \A b \in Activities : ~Replacing(b)
    BY <1>5 DEF NothingToStop, Replace, Undisturbed
  <2>2. languageClient \in Activities /\ languageClient = Undefined
    BY <1>0, <1>5, <2>1 DEF NothingToStop, RunningIsTold
  <2> QED
    BY <2>2, InterpretersAssumption
<1>6. ASSUME NEW a \in Activities, Stopped(a) PROVE Current'
  <2>1. /\ subscribed' = {} /\ configured' = configured /\ found'[a] = configured
        /\ activity'[a] = "options"
        /\ \A b \in Activities : b # a => activity'[b] = activity[b]
    BY <1>0, <1>6 DEF Stopped, DisposeAndActivate, DataForOptions, Typed, LSTypeOK
  <2>2. \A b \in Activities : b # a => ~Replacing(b)
    BY <1>0, <1>6 DEF Stopped, OneServerRuns, Replacing
  <2>3. \A b \in Activities : b # a => activity'[b] \notin {"options", "starting"}
    BY <2>1, <2>2 DEF Replacing
  <2> QED
    BY <2>1, <2>3 DEF OptionsAreCurrent, StartedIsTold, RunningIsTold, Replacing
<1>7. ASSUME NEW a \in Activities, Subscribe(a) PROVE Current'
  <2>1. /\ interpreterHash' = Hash[found[a]] /\ UNCHANGED <<events, configured, found>>
        /\ activity[a] = "options" /\ activity'[a] = "starting"
        /\ \A b \in Activities : b # a => activity'[b] = activity[b]
    BY <1>0, <1>7 DEF Subscribe, Typed, LSTypeOK
  <2>2. \A b \in Activities : b # a => ~Replacing(b)
    BY <1>0, <2>1 DEF OneServerRuns, Replacing
  <2>3. \A b \in Activities : b # a => activity'[b] \notin {"options", "starting"}
    BY <2>1, <2>2 DEF Replacing
  <2>4. Told'
    BY <1>0, <2>1 DEF OptionsAreCurrent, Told
  <2> QED
    BY <2>1, <2>3, <2>4 DEF OptionsAreCurrent, StartedIsTold, RunningIsTold, Replacing
<1>8. ASSUME NEW a \in Activities, Start(a) PROVE Current'
  <2>1. /\ languageClient' = a /\ running' = {a}
        /\ UNCHANGED <<events, configured, found, interpreterHash>>
        /\ activity[a] = "starting" /\ activity'[a] = "done"
        /\ \A b \in Activities : b # a => activity'[b] = activity[b]
    BY <1>0, <1>8 DEF Start, OneServerRuns, Typed, LSTypeOK
  <2>2. \A b \in Activities : b # a => ~Replacing(b)
    BY <1>0, <2>1 DEF OneServerRuns, Replacing
  <2>3. \A b \in Activities : activity'[b] \notin {"options", "starting"}
    BY <2>1, <2>2 DEF Replacing
  <2>4. Told /\ interpreterHash = Hash[found[a]]
    BY <1>0, <2>1 DEF StartedIsTold
  <2>5. Told'
    BY <2>1, <2>4 DEF Told
  <2> QED
    BY <2>1, <2>3, <2>4, <2>5 DEF OptionsAreCurrent, StartedIsTold, RunningIsTold
<1>9. ASSUME NEW a \in Activities, Fail(a) \/ StartFails(a) PROVE Current'
  <2>1. activity'[a] \in Ends
    BY <1>0, <1>9, FailedAreEnds DEF Fail, StartFails, Ends, Typed, LSTypeOK
  <2> QED
    BY <2>1 DEF Undisturbed
<1>10. CASE UNCHANGED lsVars
  BY <1>0, <1>10 DEF lsVars, serverVars, activityVars, OptionsAreCurrent, StartedIsTold, RunningIsTold,
     Told, Replacing
<1> QED
  BY <1>1, <1>2, <1>3, <1>4, <1>5, <1>6, <1>7, <1>8, <1>9, <1>10 DEF LSNext

\* The server ends up with the configured interpreter, unless an event was missed,
\* restarts overlapped or one failed.
THEOREM CurrentCorrect == LSSpec => []ServerIsCurrent
<1>1. LSInit => CurrentInv
  BY InitTyped, InitOneServer, InitCurrent DEF CurrentInv, Inv
<1>2. CurrentInv /\ [LSNext]_lsVars => CurrentInv'
  BY NextTyped, NextOneServer, NextCurrent DEF CurrentInv, Inv
<1>3. CurrentInv => ServerIsCurrent
  <2> SUFFICES ASSUME CurrentInv, Quiet, events = 0, ~missed, ~overlapped,
                      \A a \in Activities : activity[a] \in {"new", "done"}
               PROVE  running = {languageClient} /\ Hash[found[languageClient]] = Hash[configured]
    BY DEF ServerIsCurrent
  <2>1. RunningIsTold
    BY DEF CurrentInv, Current, Undisturbed, Ends
  <2> QED
    BY <2>1 DEF RunningIsTold, Told, Quiet
<1> QED
  BY <1>1, <1>2, <1>3, PTL DEF LSSpec
=============================================================================
