------------------------ MODULE LintingEngineProofs ------------------------
(***************************************************************************)
(* Proofs about LintingEngine: of two passes over a document one at most   *)
(* is live, however events and answers interleave.                         *)
(***************************************************************************)
EXTENDS LintingEngine, SequenceTheorems, TLAPS

-----------------------------------------------------------------------------
(* Sequences.                                                              *)

\* A sequence has the type of its elements.
LEMMA Retyped ==
    ASSUME NEW S, NEW q \in Seq(S), NEW T, \A i \in 1 .. Len(q) : q[i] \in T
    PROVE  q \in Seq(T)
  BY LenProperties, SeqDef

-----------------------------------------------------------------------------
(* What the operators return.                                              *)

\* A pass that began has a document.
LEMMA DocumentOfPass ==
    ASSUME TypeOK, NEW p \in Passes, phase[p] # "new"
    PROVE  document[p] \in Documents
  BY DEF TypeOK

\* Emptying documents keeps the type of the diagnostics.
LEMMA EmptiedType ==
    ASSUME TypeOK, NEW ds
    PROVE  Emptied(ds) \in [Documents -> Seq(Problems)]
<1>1. <<>> \in Seq(Problems)
  BY EmptySeq
<1> QED
  BY <1>1 DEF Emptied, TypeOK

\* A prefix of a sequence holds elements of the sequence, at most as many as
\* the filter lets through.
LEMMA LimitedProperties ==
    ASSUME NEW S, NEW s \in Seq(S)
    PROVE  /\ Limited(s) \in Seq(S)
           /\ Len(Limited(s)) <= MaxProblems + 1
           /\ Len(Limited(s)) <= Len(s)
           /\ \A i \in 1 .. Len(Limited(s)) : Limited(s)[i] = s[i]
<1>1. Len(s) \in Nat /\ MaxProblems \in Nat
  BY LenProperties, LimitsAssumption
<1>2. CASE Len(s) > MaxProblems + 1
  <2>1. \A i \in 1 .. MaxProblems + 1 : s[i] \in S
    BY <1>1, <1>2, ElementOfSeq
  <2>2. /\ SubSeq(s, 1, MaxProblems + 1) \in Seq(S)
        /\ Len(SubSeq(s, 1, MaxProblems + 1)) = MaxProblems + 1
        /\ \A i \in 1 .. MaxProblems + 1 : SubSeq(s, 1, MaxProblems + 1)[i] = s[i]
    BY <1>1, <2>1, SubSeqProperties
  <2> QED
    BY <1>1, <1>2, <2>2 DEF Limited
<1>3. CASE ~(Len(s) > MaxProblems + 1)
  BY <1>1, <1>3 DEF Limited
<1> QED
  BY <1>2, <1>3

\* The type of a sequence of problems of one pass.
LEMMA OwnProblems ==
    ASSUME NEW p, NEW s \in Seq(Problems), \A i \in 1 .. Len(s) : s[i].pass = p
    PROVE  s \in Seq([pass : {p}, linter : 1 .. Linters])
<1>1. \A i \in 1 .. Len(s) : s[i] \in [pass : {p}, linter : 1 .. Linters]
  <2> SUFFICES ASSUME NEW i \in 1 .. Len(s)
               PROVE  s[i] \in [pass : {p}, linter : 1 .. Linters]
    OBVIOUS
  <2>1. s[i] \in Problems /\ s[i].pass = p
    BY ElementOfSeq
  <2> QED
    BY <2>1 DEF Problems
<1> QED
  BY <1>1, Retyped

\* What a pass collects is its own, and no more than the limit.
LEMMA CollectProperties ==
    ASSUME TypeOK, CollectedOwn, NEW p \in Passes,
           output[p][awaited[p]] \in 0 .. MaxMessages
    PROVE  /\ Collect(p) \in Seq(Problems)
           /\ Len(Collect(p)) <= MaxProblems + 1
           /\ \A i \in 1 .. Len(Collect(p)) : Collect(p)[i].pass = p
<1> DEFINE mine == [pass : {p}, linter : 1 .. Linters]
           own == ProblemsOf(p, awaited[p])
<1>1. /\ collected[p] \in Seq(Problems)
      /\ Len(collected[p]) <= MaxProblems + 1
      /\ awaited[p] \in 1 .. Linters
  BY DEF TypeOK
<1>2. \A i \in 1 .. Len(collected[p]) : collected[p][i].pass = p
  BY DEF CollectedOwn
<1>3. collected[p] \in Seq(mine)
  BY <1>1, <1>2, OwnProblems
<1>4. own \in Seq(mine)
  <2>1. output[p][awaited[p]] \in Nat
    BY LimitsAssumption
  <2>2. own \in [1 .. output[p][awaited[p]] -> mine]
    BY <1>1 DEF ProblemsOf
  <2> HIDE DEF own, mine
  <2>3. own \in Seq(mine)
    BY <2>1, <2>2, SeqDef
  <2> QED
    BY <2>3 DEF own, mine
<1> HIDE DEF own
<1>5. collected[p] \o own \in Seq(mine)
  BY <1>3, <1>4, ConcatProperties
<1>6. /\ Limited(collected[p] \o own) \in Seq(mine)
      /\ Len(Limited(collected[p] \o own)) <= MaxProblems + 1
  BY <1>5, LimitedProperties
<1>7. Collect(p) \in Seq(mine) /\ Len(Collect(p)) <= MaxProblems + 1
  BY <1>1, <1>3, <1>6 DEF Collect, own
<1>8. \A i \in 1 .. Len(Collect(p)) : Collect(p)[i] \in mine
  BY <1>7, ElementOfSeq
<1>9. Collect(p) \in Seq(Problems)
  <2>1. mine \subseteq Problems
    BY DEF Problems
  <2> QED
    BY <1>7, <1>8, <2>1, Retyped
<1> QED
  BY <1>7, <1>8, <1>9

-----------------------------------------------------------------------------
(* Types.                                                                  *)

\* Linting documents starts passes that are fresh, and touches no other.
LEMMA LintDocumentsProperties ==
    ASSUME TypeOK, NEW ds, ds \subseteq Documents, NEW isEnabled, LintDocuments(ds, isEnabled)
    PROVE  /\ phase' \in [Passes -> {"new", "checking", "linting", "done"}]
           /\ document' \in [Passes -> Documents \union {None}]
           /\ \A p \in Passes : phase'[p] # "new" => document'[p] # None
           /\ \A p \in Passes : phase[p] # "new" =>
                 phase'[p] = phase[p] /\ document'[p] = document[p]
           /\ \A p \in Passes : phase'[p] = "linting" => phase[p] = "linting"
           /\ UNCHANGED <<pendingLintings, cancelled, output, awaited, collected>>
<1>1. /\ phase \in [Passes -> {"new", "checking", "linting", "done"}]
      /\ document \in [Passes -> Documents \union {None}]
      /\ \A p \in Passes : phase[p] # "new" => document[p] # None
  BY DEF TypeOK
<1>2. CASE isEnabled
  <2>1. PICK pass \in [ds -> Fresh] :
          /\ phase' = [p \in Passes |-> IF p \in Range(pass) THEN "checking" ELSE phase[p]]
          /\ document' = [p \in Passes |->
                             IF p \in Range(pass) THEN CHOOSE d \in ds : pass[d] = p
                             ELSE document[p]]
    BY <1>2 DEF LintDocuments
  <2>2. \A p \in Range(pass) : p \in Fresh /\ \E d \in ds : pass[d] = p
    BY DEF Range
  <2>3. \A p \in Range(pass) : (CHOOSE d \in ds : pass[d] = p) \in Documents
    BY <2>2
  <2>4. None \notin Documents
    BY NoneAssumption
  <2>5. UNCHANGED <<pendingLintings, cancelled, output, awaited, collected>>
    BY DEF LintDocuments
  <2>6. \A p \in Range(pass) : p \in Passes /\ phase[p] = "new"
    BY <2>2 DEF Fresh
  <2>7. ASSUME NEW p \in Passes
        PROVE  /\ phase'[p] \in {"new", "checking", "linting", "done"}
               /\ document'[p] \in Documents \union {None}
               /\ phase'[p] # "new" => document'[p] # None
               /\ phase[p] # "new" => phase'[p] = phase[p] /\ document'[p] = document[p]
               /\ phase'[p] = "linting" => phase[p] = "linting"
    <3>1. CASE p \in Range(pass)
      <4>1. phase'[p] = "checking" /\ document'[p] = CHOOSE d \in ds : pass[d] = p
        BY <2>1, <3>1
      <4>2. document'[p] \in Documents
        BY <2>3, <3>1, <4>1
      <4> QED
        BY <2>4, <2>6, <3>1, <4>1, <4>2
    <3>2. CASE p \notin Range(pass)
      <4>1. phase'[p] = phase[p] /\ document'[p] = document[p]
        BY <2>1, <3>2
      <4> QED
        BY <1>1, <4>1
    <3> QED
      BY <3>1, <3>2
  <2> QED
    BY <2>1, <2>5, <2>7
<1>3. CASE ~isEnabled
  BY <1>1, <1>3 DEF LintDocuments
<1> QED
  BY <1>2, <1>3

\* Every event that lints documents keeps the types.
LEMMA LintDocumentsType ==
    ASSUME TypeOK, NEW ds, ds \subseteq Documents, NEW isEnabled, LintDocuments(ds, isEnabled),
           NEW es, diagnostics' = Emptied(es), listed' \subseteq Documents,
           opened' \subseteq Documents, enabled' \in BOOLEAN, oldSettings' \in BOOLEAN,
           timers' \in Nat
    PROVE  TypeOK'
<1>1. diagnostics' \in [Documents -> Seq(Problems)]
  BY EmptiedType
<1>2. /\ pendingLintings' \in [Documents -> Passes \union {None}]
      /\ cancelled' \subseteq Passes
      /\ output' \in [Passes -> [1 .. Linters -> Outcomes \union {Running}]]
      /\ awaited' \in [Passes -> 1 .. Linters]
      /\ collected' \in [Passes -> Seq(Problems)]
      /\ \A p \in Passes : Len(collected'[p]) <= MaxProblems + 1
  BY LintDocumentsProperties DEF TypeOK
<1> QED
  BY <1>1, <1>2, LintDocumentsProperties DEF TypeOK

LEMMA TypeStep == TypeOK /\ CollectedOwn /\ [Next]_vars => TypeOK'
<1> SUFFICES ASSUME TypeOK, CollectedOwn, [Next]_vars
             PROVE  TypeOK'
  OBVIOUS
<1> USE DEF editorVars, shownVars, passVars
<1>a. /\ opened \subseteq Documents /\ listed \subseteq Documents
      /\ enabled \in BOOLEAN /\ oldSettings \in BOOLEAN /\ timers \in Nat
  BY DEF TypeOK
<1>1. ASSUME NEW d \in Documents, OnDocumentOpened(d)
      PROVE  TypeOK'
  BY <1>a, <1>1, LintDocumentsType DEF OnDocumentOpened, LintDocument
<1>2. ASSUME NEW d \in Documents, OnDocumentSaved(d)
      PROVE  TypeOK'
  BY <1>a, <1>2, LintDocumentsType DEF OnDocumentSaved, LintDocument
<1>3. ASSUME NEW d \in Documents, OnDocumentClosed(d)
      PROVE  TypeOK'
  BY <1>3, EmptiedType DEF TypeOK, OnDocumentClosed, ClearDiagnostics
<1>4. CASE OnConfigFileSaved
  BY <1>4 DEF TypeOK, OnConfigFileSaved
<1>5. CASE TimerFires
  BY <1>a, <1>5, LintDocumentsType DEF TimerFires, LintOpenPythonFiles
<1>6. CASE OnDidChangeInterpreter
  BY <1>a, <1>6, LintDocumentsType DEF OnDidChangeInterpreter, LintOpenPythonFiles
<1>7. CASE SettingsChange
  BY <1>7 DEF TypeOK, SettingsChange
<1>8. CASE LintSettingsChangedHandler
  <2>1. /\ opened' \subseteq Documents /\ enabled' \in BOOLEAN
        /\ oldSettings' \in BOOLEAN /\ timers' \in Nat
    BY <1>a, <1>8 DEF LintSettingsChangedHandler, CheckChangesAndNotify
  <2>2. CASE LintOpenPythonFiles
    BY <1>a, <2>1, <2>2, LintDocumentsType DEF LintOpenPythonFiles
  <2>3. CASE /\ LintDocuments(opened, enabled)
             /\ listed' = listed \union opened
             /\ diagnostics' = Emptied(opened)
    BY <1>a, <2>1, <2>3, LintDocumentsType
  <2> QED
    BY <1>8, <2>2, <2>3 DEF LintSettingsChangedHandler
<1>9. ASSUME NEW p \in Passes, FileMissing(p)
      PROVE  TypeOK'
  BY <1>9 DEF TypeOK, FileMissing
<1>10. ASSUME NEW p \in Passes, StartLinters(p)
       PROVE  TypeOK'
  <2>1. /\ document[p] \in Documents
        /\ pendingLintings' \in [Documents -> Passes \union {None}]
        /\ cancelled' \subseteq Passes
    BY <1>10 DEF TypeOK, StartLinters, ReplacePending
  <2>2. /\ output' \in [Passes -> [1 .. Linters -> Outcomes \union {Running}]]
        /\ phase' \in [Passes -> {"new", "checking", "linting", "done"}]
        /\ \A q \in Passes : phase'[q] # "new" => document[q] # None
    BY <1>10, LimitsAssumption DEF TypeOK, StartLinters, Outcomes
  <2> QED
    BY <1>10, <2>1, <2>2 DEF TypeOK, StartLinters
<1>11. ASSUME NEW p \in Passes, NEW l \in 1 .. Linters, LinterFinishes(p, l)
       PROVE  TypeOK'
  BY <1>11 DEF TypeOK, LinterFinishes
<1>12. ASSUME NEW p \in Passes, BreakWhenCancelled(p)
       PROVE  TypeOK'
  BY <1>12 DEF TypeOK, BreakWhenCancelled, AwaitedLinter, Publish
<1>13. ASSUME NEW p \in Passes, NextLinter(p)
       PROVE  TypeOK'
  <2>1. Collect(p) \in Seq(Problems) /\ Len(Collect(p)) <= MaxProblems + 1
    BY <1>13, CollectProperties DEF NextLinter, AwaitedLinter
  <2>2. awaited' \in [Passes -> 1 .. Linters]
    BY <1>13, LintersAssumption DEF TypeOK, NextLinter
  <2> QED
    BY <1>13, <2>1, <2>2 DEF TypeOK, NextLinter
<1>14. ASSUME NEW p \in Passes, LastLinter(p)
       PROVE  TypeOK'
  <2>1. Collect(p) \in Seq(Problems) /\ Len(Collect(p)) <= MaxProblems + 1
    BY <1>14, CollectProperties DEF LastLinter, AwaitedLinter
  <2>2. document[p] \in Documents
    <3>1. phase[p] = "linting"
      BY <1>14 DEF LastLinter, AwaitedLinter
    <3> QED
      BY <3>1, DocumentOfPass
  <2>3. /\ diagnostics' \in [Documents -> Seq(Problems)]
        /\ listed' \subseteq Documents
        /\ phase' \in [Passes -> {"new", "checking", "linting", "done"}]
        /\ \A q \in Passes : phase'[q] # "new" => document[q] # None
    BY <1>14, <2>1, <2>2, NoneAssumption DEF TypeOK, LastLinter, Publish
  <2>4. /\ collected' \in [Passes -> Seq(Problems)]
        /\ \A q \in Passes : Len(collected'[q]) <= MaxProblems + 1
    BY <1>14, <2>1 DEF TypeOK, LastLinter
  <2> QED
    BY <1>14, <2>3, <2>4 DEF TypeOK, LastLinter, Publish
<1>15. ASSUME NEW p \in Passes, LinterRejects(p)
       PROVE  TypeOK'
  BY <1>15 DEF TypeOK, LinterRejects, AwaitedLinter
<1>16. CASE UNCHANGED vars
  BY <1>16 DEF TypeOK, vars
<1> QED
  BY <1>1, <1>2, <1>3, <1>4, <1>5, <1>6, <1>7, <1>8, <1>9, <1>10, <1>11, <1>12, <1>13,
     <1>14, <1>15, <1>16 DEF Next, AwaitStep

LEMMA TypeInit == Init => TypeOK /\ CollectedOwn
<1> SUFFICES ASSUME Init
             PROVE  TypeOK /\ CollectedOwn
  OBVIOUS
<1>1. /\ <<>> \in Seq(Problems) /\ Len(<<>>) = 0
  BY EmptySeq
<1>2. 1 \in 1 .. Linters /\ MaxProblems \in Nat
  BY LintersAssumption, LimitsAssumption
<1>3. CollectedOwn
  BY <1>1 DEF Init, CollectedOwn
<1>4. TypeOK
  BY <1>1, <1>2 DEF Init, TypeOK
<1> QED
  BY <1>3, <1>4

-----------------------------------------------------------------------------
(* Passes.                                                                 *)

\* A step that lints documents starts no linter, cancels no pass and keeps the
\* problems of a document or shows none.
LEMMA LintDocumentsKeeps ==
    ASSUME PassInvariant, NEW ds, ds \subseteq Documents, NEW isEnabled,
           LintDocuments(ds, isEnabled), NEW es, diagnostics' = Emptied(es)
    PROVE  LivePassIsPending' /\ CollectedOwn' /\ OutdatedAreCancelled'
<1>1. /\ \A p \in Passes : phase'[p] = "linting" =>
            phase[p] = "linting" /\ document'[p] = document[p]
      /\ UNCHANGED <<pendingLintings, cancelled, collected>>
  BY LintDocumentsProperties DEF PassInvariant
<1>2. LivePassIsPending'
  BY <1>1 DEF PassInvariant, LivePassIsPending
<1>3. CollectedOwn'
  BY <1>1 DEF PassInvariant, CollectedOwn
<1>4. OutdatedAreCancelled'
  <2> SUFFICES ASSUME NEW d \in Documents, NEW i \in 1 .. Len(diagnostics'[d])
               PROVE  diagnostics'[d][i].pass \in cancelled' \union {pendingLintings'[d]}
    BY DEF OutdatedAreCancelled
  <2>1. diagnostics'[d] = <<>> \/ diagnostics'[d] = diagnostics[d]
    BY DEF Emptied
  <2>2. diagnostics'[d] # <<>>
    BY EmptySeq
  <2> QED
    BY <1>1, <2>1, <2>2 DEF PassInvariant, OutdatedAreCancelled
<1> QED
  BY <1>2, <1>3, <1>4

LEMMA PassStep == PassInvariant /\ [Next]_vars => PassInvariant'
<1> SUFFICES ASSUME PassInvariant, [Next]_vars
             PROVE  LivePassIsPending' /\ CollectedOwn' /\ OutdatedAreCancelled'
  BY TypeStep DEF PassInvariant
<1> USE DEF editorVars, shownVars, passVars
<1>a. TypeOK /\ LivePassIsPending /\ CollectedOwn /\ OutdatedAreCancelled
  BY DEF PassInvariant
<1>b. opened \subseteq Documents
  BY <1>a DEF TypeOK
<1>1. ASSUME NEW d \in Documents, OnDocumentOpened(d) \/ OnDocumentSaved(d)
      PROVE  LivePassIsPending' /\ CollectedOwn' /\ OutdatedAreCancelled'
  BY <1>1, LintDocumentsKeeps DEF OnDocumentOpened, OnDocumentSaved, LintDocument
<1>2. ASSUME NEW d \in Documents, OnDocumentClosed(d)
      PROVE  LivePassIsPending' /\ CollectedOwn' /\ OutdatedAreCancelled'
  <2>1. LivePassIsPending' /\ CollectedOwn'
    BY <1>a, <1>2 DEF OnDocumentClosed, LivePassIsPending, CollectedOwn
  <2>2. ASSUME NEW e \in Documents, NEW i \in 1 .. Len(diagnostics'[e])
        PROVE  diagnostics'[e][i].pass \in cancelled' \union {pendingLintings'[e]}
    <3>1. diagnostics'[e] = <<>> \/ diagnostics'[e] = diagnostics[e]
      BY <1>2 DEF OnDocumentClosed, ClearDiagnostics, Emptied
    <3>2. diagnostics'[e] # <<>>
      BY EmptySeq
    <3> QED
      BY <1>a, <1>2, <3>1, <3>2 DEF OnDocumentClosed, OutdatedAreCancelled
  <2> QED
    BY <2>1, <2>2 DEF OutdatedAreCancelled
<1>3. CASE TimerFires \/ OnDidChangeInterpreter
  BY <1>b, <1>3, LintDocumentsKeeps DEF TimerFires, OnDidChangeInterpreter, LintOpenPythonFiles
<1>4. CASE LintSettingsChangedHandler
  BY <1>b, <1>4, LintDocumentsKeeps DEF LintSettingsChangedHandler, LintOpenPythonFiles
<1>5. CASE OnConfigFileSaved \/ SettingsChange
  BY <1>a, <1>5
  DEF OnConfigFileSaved, SettingsChange, LivePassIsPending, CollectedOwn, OutdatedAreCancelled
<1>6. ASSUME NEW p \in Passes, FileMissing(p) \/ LinterRejects(p)
      PROVE  LivePassIsPending' /\ CollectedOwn' /\ OutdatedAreCancelled'
  <2>1. /\ \A q \in Passes : phase'[q] = "linting" => phase[q] = "linting"
        /\ UNCHANGED <<document, diagnostics, pendingLintings, cancelled, collected>>
    BY <1>a, <1>6 DEF FileMissing, LinterRejects, TypeOK
  <2> QED
    BY <1>a, <2>1 DEF LivePassIsPending, CollectedOwn, OutdatedAreCancelled
<1>7. ASSUME NEW p \in Passes, StartLinters(p)
      PROVE  LivePassIsPending' /\ CollectedOwn' /\ OutdatedAreCancelled'
  <2>1. document[p] \in Documents
    BY <1>a, <1>7, DocumentOfPass DEF StartLinters
  <2>2. /\ pendingLintings' = [pendingLintings EXCEPT ![document[p]] = p]
        /\ cancelled' = cancelled \union ({pendingLintings[document[p]]} \ {None})
        /\ phase' = [phase EXCEPT ![p] = "linting"]
        /\ UNCHANGED <<document, diagnostics, collected>>
    BY <1>7 DEF StartLinters, ReplacePending
  <2>3. /\ pendingLintings \in [Documents -> Passes \union {None}]
        /\ phase \in [Passes -> {"new", "checking", "linting", "done"}]
    BY <1>a DEF TypeOK
  <2>4. None \notin Passes
    BY NoneAssumption
  <2>5. LivePassIsPending'
    <3> SUFFICES ASSUME NEW q \in Passes, phase'[q] = "linting", q \notin cancelled'
                 PROVE  pendingLintings'[document[q]] = q
      BY <2>2 DEF LivePassIsPending
    <3>1. CASE q = p
      BY <2>1, <2>2, <2>3, <3>1
    <3>2. CASE q # p
      <4>1. phase[q] = "linting" /\ pendingLintings[document[q]] = q
        BY <1>a, <2>2, <2>3, <3>2 DEF LivePassIsPending
      <4>2. document[q] # document[p]
        BY <2>2, <2>4, <4>1
      <4> QED
        BY <2>2, <4>1, <4>2
    <3> QED
      BY <3>1, <3>2
  <2>6. CollectedOwn'
    BY <1>a, <2>2 DEF CollectedOwn
  <2>7. OutdatedAreCancelled'
    <3> SUFFICES ASSUME NEW d \in Documents, NEW i \in 1 .. Len(diagnostics[d])
                 PROVE  diagnostics[d][i].pass \in cancelled' \union {pendingLintings'[d]}
      BY <2>2 DEF OutdatedAreCancelled
    <3>1. diagnostics[d][i].pass \in Passes
      <4>1. diagnostics[d] \in Seq(Problems)
        BY <1>a DEF TypeOK
      <4>2. diagnostics[d][i] \in Problems
        BY <4>1, ElementOfSeq
      <4> QED
        BY <4>2 DEF Problems
    <3>2. diagnostics[d][i].pass \in cancelled \union {pendingLintings[d]}
      BY <1>a DEF OutdatedAreCancelled
    <3>3. CASE d = document[p]
      BY <2>2, <2>4, <3>1, <3>2, <3>3
    <3>4. CASE d # document[p]
      BY <2>2, <2>3, <3>2, <3>4
    <3> QED
      BY <3>3, <3>4
  <2> QED
    BY <2>5, <2>6, <2>7
<1>8. ASSUME NEW p \in Passes, NEW l \in 1 .. Linters, LinterFinishes(p, l)
      PROVE  LivePassIsPending' /\ CollectedOwn' /\ OutdatedAreCancelled'
  BY <1>a, <1>8 DEF LinterFinishes, LivePassIsPending, CollectedOwn, OutdatedAreCancelled
<1>9. ASSUME NEW p \in Passes, BreakWhenCancelled(p)
      PROVE  LivePassIsPending' /\ CollectedOwn' /\ OutdatedAreCancelled'
  <2>1. /\ p \in cancelled
        /\ diagnostics' = [diagnostics EXCEPT ![document[p]] = collected[p]]
        /\ phase' = [phase EXCEPT ![p] = "done"]
        /\ UNCHANGED <<document, pendingLintings, cancelled, collected>>
    BY <1>9 DEF BreakWhenCancelled, Publish
  <2>2. LivePassIsPending' /\ CollectedOwn'
    BY <1>a, <2>1 DEF LivePassIsPending, CollectedOwn, TypeOK
  <2>3. ASSUME NEW d \in Documents, NEW i \in 1 .. Len(diagnostics'[d])
        PROVE  diagnostics'[d][i].pass \in cancelled' \union {pendingLintings'[d]}
    <3>1. diagnostics'[d] = collected[p] \/ diagnostics'[d] = diagnostics[d]
      BY <1>a, <2>1 DEF TypeOK
    <3> QED
      BY <1>a, <2>1, <3>1 DEF CollectedOwn, OutdatedAreCancelled
  <2> QED
    BY <2>2, <2>3 DEF OutdatedAreCancelled
<1>10. ASSUME NEW p \in Passes, NextLinter(p)
       PROVE  LivePassIsPending' /\ CollectedOwn' /\ OutdatedAreCancelled'
  <2>1. \A i \in 1 .. Len(Collect(p)) : Collect(p)[i].pass = p
    BY <1>a, <1>10, CollectProperties DEF NextLinter, AwaitedLinter
  <2>2. CollectedOwn'
    BY <1>a, <1>10, <2>1 DEF CollectedOwn, NextLinter, TypeOK
  <2> QED
    BY <1>a, <1>10, <2>2 DEF LivePassIsPending, OutdatedAreCancelled, NextLinter
<1>11. ASSUME NEW p \in Passes, LastLinter(p)
       PROVE  LivePassIsPending' /\ CollectedOwn' /\ OutdatedAreCancelled'
  <2>1. \A i \in 1 .. Len(Collect(p)) : Collect(p)[i].pass = p
    BY <1>a, <1>11, CollectProperties DEF LastLinter, AwaitedLinter
  <2>2. /\ phase[p] = "linting" /\ p \notin cancelled
        /\ diagnostics' = [diagnostics EXCEPT ![document[p]] = Collect(p)]
        /\ collected' = [collected EXCEPT ![p] = Collect(p)]
        /\ phase' = [phase EXCEPT ![p] = "done"]
        /\ UNCHANGED <<document, pendingLintings, cancelled>>
    BY <1>11 DEF LastLinter, Publish, AwaitedLinter
  <2>3. pendingLintings[document[p]] = p
    BY <1>a, <2>2 DEF LivePassIsPending
  <2>4. CollectedOwn'
    BY <1>a, <2>1, <2>2 DEF CollectedOwn, TypeOK
  <2>5. LivePassIsPending'
    BY <1>a, <2>2 DEF LivePassIsPending, TypeOK
  <2>6. ASSUME NEW d \in Documents, NEW i \in 1 .. Len(diagnostics'[d])
        PROVE  diagnostics'[d][i].pass \in cancelled' \union {pendingLintings'[d]}
    <3>1. CASE d = document[p]
      <4>1. diagnostics'[d] = Collect(p)
        BY <1>a, <2>2, <3>1 DEF TypeOK
      <4> QED
        BY <2>1, <2>2, <2>3, <3>1, <4>1
    <3>2. CASE d # document[p]
      <4>1. diagnostics'[d] = diagnostics[d]
        BY <1>a, <2>2, <3>2 DEF TypeOK
      <4> QED
        BY <1>a, <2>2, <4>1 DEF OutdatedAreCancelled
    <3> QED
      BY <3>1, <3>2
  <2> QED
    BY <2>4, <2>5, <2>6 DEF OutdatedAreCancelled
<1>12. CASE UNCHANGED vars
  BY <1>a, <1>12 DEF vars, LivePassIsPending, CollectedOwn, OutdatedAreCancelled
<1> QED
  BY <1>1, <1>2, <1>3, <1>4, <1>5, <1>6, <1>7, <1>8, <1>9, <1>10, <1>11, <1>12
  DEF Next, AwaitStep

LEMMA PassInit == Init => PassInvariant
<1> SUFFICES ASSUME Init
             PROVE  LivePassIsPending /\ OutdatedAreCancelled
  BY TypeInit DEF PassInvariant
<1>1. \A p \in Passes : phase[p] = "new"
  BY DEF Init
<1>2. \A d \in Documents : diagnostics[d] = <<>> /\ Len(diagnostics[d]) = 0
  BY EmptySeq DEF Init
<1> QED
  BY <1>1, <1>2 DEF LivePassIsPending, OutdatedAreCancelled

\* The invariant of the passes: a live pass can be cancelled, it holds its own
\* problems, and only cancelled passes leave outdated problems.
THEOREM PassesCorrect == Spec => []PassInvariant
<1>1. Init => PassInvariant
  BY PassInit
<1>2. PassInvariant /\ [Next]_vars => PassInvariant'
  BY PassStep
<1> QED
  BY <1>1, <1>2, PTL DEF Spec

\* At most one pass over a document is neither finished nor cancelled, whatever
\* the numbers of documents, linters and messages are (lintingEngine.ts:82-94).
THEOREM LivePassUnique == Spec => []OneLivePass
<1>1. PassInvariant => OneLivePass
  BY DEF PassInvariant, LivePassIsPending, OneLivePass
<1> QED
  BY <1>1, PassesCorrect, PTL

\* Outdated problems come from cancelled passes only (lintingEngine.ts:113-134).
THEOREM OutdatedCancelled == Spec => []OutdatedAreCancelled
<1>1. PassInvariant => OutdatedAreCancelled
  BY DEF PassInvariant
<1> QED
  BY <1>1, PassesCorrect, PTL
=============================================================================
