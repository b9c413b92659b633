--------------------------- MODULE LintingEngine ---------------------------
(***************************************************************************)
(* Linting of the open Python documents: the LinterProvider turns events   *)
(* of the editor into calls of the LintingEngine; a call of lintDocument   *)
(* (a pass) starts every active linter, awaits them in order and publishes *)
(* the diagnostics it collected.  A newer pass cancels the pending one.    *)
(***************************************************************************)
EXTENDS Naturals, Sequences, Functions, SequencesExt

CONSTANTS
    Documents,    \* Python files of the workspace
    Passes,       \* bound: the passes of a behaviour
    Linters,      \* how many linters are active
    MaxProblems,  \* python.linting.maxNumberOfProblems
    MaxMessages,  \* bound: the messages of one linter
    MaxTimers,    \* bound: the timers pending at once
    Running, Rejected,   \* what becomes of a linter that has not reported
    None

ASSUME LintersAssumption == Linters \in Nat \ {0}
ASSUME LimitsAssumption == MaxProblems \in Nat /\ MaxMessages \in Nat /\ MaxTimers \in Nat
ASSUME NoneAssumption == None \notin Passes /\ None \notin Documents
ASSUME OutcomesAssumption == Running # Rejected /\ {Running, Rejected} \cap Nat = {}

\* What becomes of a linter: it reports some messages, or fails.
Outcomes == (0 .. MaxMessages) \union {Rejected}

VARIABLES
    opened,       \* the documents open in the editor
    enabled,      \* linting is enabled
    oldSettings,  \* whether it was when ConfigSettingMonitor last looked
    timers,       \* pending timers that lint all open files
    listed,       \* the documents diagnosticCollection has
    diagnostics,  \* diagnostics[d]: the pass and the linter of each problem shown
    pendingLintings,
    document,     \* document[p]: what pass p lints, None before it begins
    phase,        \* phase[p]
    cancelled,    \* the passes whose token was cancelled
    output,       \* output[p][l]: the state of linter l in pass p
    awaited,      \* awaited[p]: the linter the loop awaits
    collected     \* collected[p]: the local variable diagnostics of pass p

editorVars == <<opened, enabled, oldSettings, timers>>
shownVars == <<listed, diagnostics>>
passVars == <<pendingLintings, document, phase, cancelled, output, awaited, collected>>
vars == <<editorVars, shownVars, passVars>>

Problems == [pass : Passes, linter : 1 .. Linters]
Fresh == {p \in Passes : phase[p] = "new"}

Init ==
    /\ opened \in SUBSET Documents
    /\ enabled = TRUE
    /\ oldSettings = TRUE
    /\ timers = 1
    /\ listed = {}
    /\ diagnostics = [d \in Documents |-> <<>>]
    /\ pendingLintings = [d \in Documents |-> None]
    /\ document = [p \in Passes |-> None]
    /\ phase = [p \in Passes |-> "new"]
    /\ cancelled = {}
    /\ output = [p \in Passes |-> [l \in 1 .. Linters |-> Running]]
    /\ awaited = [p \in Passes |-> 1]
    /\ collected = [p \in Passes |-> <<>>]

-----------------------------------------------------------------------------
(* The engine.                                                             *)

\* lintDocument, for each document of ds, up to the await of fileExists: the
\* old diagnostics are replaced by none; with linting disabled that is all.
LintDocuments(ds, isEnabled) ==
    /\ IF isEnabled
       THEN \E pass \in [ds -> Fresh] :
               /\ IsInjective(pass)
               /\ phase' = [p \in Passes |->
                               IF p \in Range(pass) THEN "checking" ELSE phase[p]]
               /\ document' = [p \in Passes |->
                                  IF p \in Range(pass)
                                  THEN CHOOSE d \in ds : pass[d] = p ELSE document[p]]
       ELSE UNCHANGED <<phase, document>>
    /\ UNCHANGED <<pendingLintings, cancelled, output, awaited, collected>>

Emptied(ds) == [d \in Documents |-> IF d \in ds THEN <<>> ELSE diagnostics[d]]

LintDocument(d) ==
    /\ LintDocuments({d}, enabled)
    /\ listed' = listed \union {d}
    /\ diagnostics' = Emptied({d})

\* The collection is cleared, then every open document is linted.
LintOpenPythonFiles ==
    /\ LintDocuments(opened, enabled)
    /\ listed' = opened
    /\ diagnostics' = Emptied(Documents)

ClearDiagnostics(d) ==
    /\ listed' = listed \ {d}
    /\ diagnostics' = Emptied({d})

\* Mutants: the pending pass is not cancelled; it is cancelled after the new
\* one was stored, and its listener deletes the new one.
CancelNothing(p) ==
    /\ UNCHANGED cancelled
    /\ pendingLintings' = [pendingLintings EXCEPT ![document[p]] = p]
CancelTooLate(p) ==
    LET old == pendingLintings[document[p]]
    IN  /\ cancelled' = cancelled \union ({old} \ {None})
        /\ pendingLintings' = [pendingLintings EXCEPT ![document[p]] =
                                  IF old = None THEN p ELSE None]

\* The pending pass of the document, finished or not, is cancelled and p takes
\* its place.
ReplacePending(p) ==
    /\ cancelled' = cancelled \union ({pendingLintings[document[p]]} \ {None})
    /\ pendingLintings' = [pendingLintings EXCEPT ![document[p]] = p]

\* shouldLintDocument found that the file does not exist.
FileMissing(p) ==
    /\ phase[p] = "checking"
    /\ phase' = [phase EXCEPT ![p] = "done"]
    /\ UNCHANGED <<editorVars, shownVars, pendingLintings, document, cancelled, output,
                   awaited, collected>>

\* The file exists: the linters are started.  A linter created while linting
\* is disabled reports nothing.
StartLinters(p) ==
    /\ phase[p] = "checking"
    /\ ReplacePending(p)
    /\ phase' = [phase EXCEPT ![p] = "linting"]
    /\ output' = [output EXCEPT ![p] =
                     [l \in 1 .. Linters |-> IF enabled THEN Running ELSE 0]]
    /\ UNCHANGED <<editorVars, shownVars, document, awaited, collected>>

\* A mutant: the process of a cancelled linter never closes.
FinishesUnlessCancelled(p) == phase[p] = "linting" /\ p \notin cancelled

\* A killed process closes as well.
Finishes(p) == phase[p] = "linting"

\* A linter resolves, or rejects: run catches the errors of the process only.
LinterFinishes(p, l) ==
    /\ Finishes(p)
    /\ output[p][l] = Running
    /\ \E result \in Outcomes :
          output' = [output EXCEPT ![p][l] = result]
    /\ UNCHANGED <<editorVars, shownVars, pendingLintings, document, phase, cancelled,
                   awaited, collected>>

Publish(p, problems) ==
    /\ listed' = listed \union {document[p]}
    /\ diagnostics' = [diagnostics EXCEPT ![document[p]] = problems]
    /\ phase' = [phase EXCEPT ![p] = "done"]

\* filter((value, index) => index <= maxNumberOfProblems)
Limited(problems) ==
    IF Len(problems) > MaxProblems + 1 THEN SubSeq(problems, 1, MaxProblems + 1)
    ELSE problems

ProblemsOf(p, l) == [i \in 1 .. output[p][l] |-> [pass |-> p, linter |-> l]]

\* The messages of a linter are kept while the document is open.
Collect(p) ==
    LET l == awaited[p]
    IN  IF document[p] \in opened THEN Limited(collected[p] \o ProblemsOf(p, l))
        ELSE collected[p]

AwaitedLinter(p, results) ==
    /\ phase[p] = "linting"
    /\ output[p][awaited[p]] \in results

\* The loop is left when the pass was cancelled: what it collected is set all
\* the same.
BreakWhenCancelled(p) ==
    /\ AwaitedLinter(p, 0 .. MaxMessages)
    /\ p \in cancelled
    /\ Publish(p, collected[p])
    /\ UNCHANGED <<editorVars, pendingLintings, document, cancelled, output, awaited,
                   collected>>

NextLinter(p) ==
    /\ AwaitedLinter(p, 0 .. MaxMessages)
    /\ p \notin cancelled
    /\ awaited[p] < Linters
    /\ collected' = [collected EXCEPT ![p] = Collect(p)]
    /\ awaited' = [awaited EXCEPT ![p] = @ + 1]
    /\ UNCHANGED <<editorVars, shownVars, pendingLintings, document, phase, cancelled,
                   output>>

LastLinter(p) ==
    /\ AwaitedLinter(p, 0 .. MaxMessages)
    /\ p \notin cancelled
    /\ awaited[p] = Linters
    /\ collected' = [collected EXCEPT ![p] = Collect(p)]
    /\ Publish(p, Collect(p))
    /\ UNCHANGED <<editorVars, pendingLintings, document, cancelled, output, awaited>>

\* The await throws: lintDocument rejects and nothing is set.
LinterRejects(p) ==
    /\ AwaitedLinter(p, {Rejected})
    /\ phase' = [phase EXCEPT ![p] = "done"]
    /\ UNCHANGED <<editorVars, shownVars, pendingLintings, document, cancelled, output,
                   awaited, collected>>

-----------------------------------------------------------------------------
(* The provider.                                                           *)

OnDocumentOpened(d) ==
    /\ d \notin opened
    /\ opened' = opened \union {d}
    /\ LintDocument(d)
    /\ UNCHANGED <<enabled, oldSettings, timers>>

OnDocumentSaved(d) ==
    /\ d \in opened
    /\ enabled
    /\ LintDocument(d)
    /\ UNCHANGED editorVars

\* A configuration file of a linter is saved.
OnConfigFileSaved ==
    /\ timers < MaxTimers
    /\ timers' = timers + 1
    /\ UNCHANGED <<opened, enabled, oldSettings, shownVars, passVars>>

\* The timer of the constructor or of a saved configuration file.
TimerFires ==
    /\ timers > 0
    /\ timers' = timers - 1
    /\ LintOpenPythonFiles
    /\ UNCHANGED <<opened, enabled, oldSettings>>

OnDocumentClosed(d) ==
    /\ d \in opened
    /\ opened' = opened \ {d}
    /\ ClearDiagnostics(d)
    /\ UNCHANGED <<enabled, oldSettings, timers, passVars>>

OnDidChangeInterpreter ==
    /\ LintOpenPythonFiles
    /\ UNCHANGED editorVars

\* The user switches linting on or off.
SettingsChange ==
    /\ enabled' = ~enabled
    /\ UNCHANGED <<opened, oldSettings, timers, shownVars, passVars>>

\* ConfigSettingMonitor finds that the settings differ from those of the last time.
CheckChangesAndNotify ==
    /\ enabled # oldSettings
    /\ oldSettings' = enabled

\* The settings of the workspace, or of the folder of the documents, changed.
LintSettingsChangedHandler ==
    /\ CheckChangesAndNotify
    /\ \/ LintOpenPythonFiles
       \/ /\ LintDocuments(opened, enabled)
          /\ listed' = listed \union opened
          /\ diagnostics' = Emptied(opened)
    /\ UNCHANGED <<opened, enabled, timers>>

-----------------------------------------------------------------------------
AwaitStep(p) ==
    BreakWhenCancelled(p) \/ NextLinter(p) \/ LastLinter(p) \/ LinterRejects(p)

Next ==
    \/ \E d \in Documents :
          OnDocumentOpened(d) \/ OnDocumentSaved(d) \/ OnDocumentClosed(d)
    \/ OnConfigFileSaved
    \/ TimerFires
    \/ OnDidChangeInterpreter
    \/ SettingsChange
    \/ LintSettingsChangedHandler
    \/ \E p \in Passes :
          \/ FileMissing(p)
          \/ StartLinters(p)
          \/ \E l \in 1 .. Linters : LinterFinishes(p, l)
          \/ AwaitStep(p)

Spec == Init /\ [][Next]_vars

\* The file system answers, processes end, and the loop goes on.
Fairness ==
    \A p \in Passes :
       /\ WF_vars(FileMissing(p) \/ StartLinters(p))
       /\ \A l \in 1 .. Linters : WF_vars(LinterFinishes(p, l))
       /\ WF_vars(AwaitStep(p))

FairSpec == Spec /\ Fairness

-----------------------------------------------------------------------------
(* Properties.                                                             *)

\* Every variable has its type; no pass collects more than one problem beyond
\* maxNumberOfProblems (lintingEngine.ts:130).
TypeOK ==
    /\ opened \subseteq Documents
    /\ enabled \in BOOLEAN
    /\ oldSettings \in BOOLEAN
    /\ timers \in Nat
    /\ listed \subseteq Documents
    /\ diagnostics \in [Documents -> Seq(Problems)]
    /\ pendingLintings \in [Documents -> Passes \union {None}]
    /\ document \in [Passes -> Documents \union {None}]
    /\ phase \in [Passes -> {"new", "checking", "linting", "done"}]
    /\ \A p \in Passes : phase[p] # "new" => document[p] # None
    /\ cancelled \subseteq Passes
    /\ output \in [Passes -> [1 .. Linters -> Outcomes \union {Running}]]
    /\ awaited \in [Passes -> 1 .. Linters]
    /\ collected \in [Passes -> Seq(Problems)]
    /\ \A p \in Passes : Len(collected[p]) <= MaxProblems + 1

\* A pass that still runs and was not cancelled can be cancelled: it is the one
\* pendingLintings holds for its document.
LivePassIsPending ==
    \A p \in Passes :
       phase[p] = "linting" /\ p \notin cancelled => pendingLintings[document[p]] = p

\* However events and answers interleave, at most one pass over a document is
\* neither finished nor cancelled.
OneLivePass ==
    \A p, q \in Passes :
       (/\ phase[p] = "linting" /\ p \notin cancelled
        /\ phase[q] = "linting" /\ q \notin cancelled
        /\ document[p] = document[q])  => p = q

\* A problem of a pass that is no longer the newest of its document is only shown
\* when that pass had been cancelled, and published late what it had collected.
OutdatedAreCancelled ==
    \A d \in Documents : \A i \in 1 .. Len(diagnostics[d]) :
       diagnostics[d][i].pass \in cancelled \union {pendingLintings[d]}

\* A pass only holds problems that it collected itself.
CollectedOwn ==
    \A p \in Passes : \A i \in 1 .. Len(collected[p]) : collected[p][i].pass = p

\* However passes are superseded, a live one can be cancelled, and what is shown of
\* an older one was set by a pass that had been.  It is inductive.
PassInvariant ==
    TypeOK /\ LivePassIsPending /\ CollectedOwn /\ OutdatedAreCancelled

\* Every pass comes to an end, also one that was cancelled.
EveryPassEnds ==
    \A p \in Passes : phase[p] \in {"checking", "linting"} ~> phase[p] = "done"
=============================================================================
