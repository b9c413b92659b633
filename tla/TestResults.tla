---------------------------- MODULE TestResults ----------------------------
(***************************************************************************)
(* The tree of discovered tests and how the TestResultsService rolls what  *)
(* is known of the functions up to suites, files and folders.  The counts  *)
(* and times it also adds up are left out: nothing reads them.             *)
(***************************************************************************)
EXTENDS Naturals, FiniteSets, SequencesExt

CONSTANTS
    TestFunctions,  \* the functions of the tree
    Suites,         \* its classes
    Files,
    Folders,
    FunctionsOf,    \* FunctionsOf[n]: the functions of suite or file n itself
    SuitesOf,       \* SuitesOf[n]: the suites of suite or file n itself
    FilesOf,        \* FilesOf[d]: the files of folder d, in order
    FoldersOf       \* FoldersOf[d]: the folders of folder d, in order

\* The tree is finite; classes are nested in the source, and folders in the file
\* system, so there is a height that is less in every part.
ASSUME TreeAssumption ==
    /\ IsFiniteSet(TestFunctions) /\ IsFiniteSet(Suites) /\ IsFiniteSet(Folders)
    /\ FunctionsOf \in [Suites \union Files -> SUBSET TestFunctions]
    /\ SuitesOf \in [Suites \union Files -> SUBSET Suites]
    /\ FilesOf \in [Folders -> Seq(Files)]
    /\ FoldersOf \in [Folders -> Seq(Folders)]
    /\ Suites \cap Files = {} /\ Folders \cap (Suites \union Files) = {}
    /\ \E height \in [Suites \union Files -> 0 .. Cardinality(Suites)] :
          \A n \in Suites \union Files : \A s \in SuitesOf[n] : height[s] < height[n]
    /\ \E height \in [Folders -> 0 .. Cardinality(Folders)] :
          \A d \in Folders : \A e \in ToSet(FoldersOf[d]) : height[e] < height[d]

\* passed: true, false or undefined.
Verdicts == {"yes", "no", "none"}

\* Mutant: a part that did not run is passed over.
VerdictOfRun(parts) ==
    IF "no" \in parts THEN "no" ELSE IF "yes" \in parts THEN "yes" ELSE "none"

\* A suite or a file has run if all its parts have.
Verdict(parts) ==
    IF "none" \in parts THEN "none" ELSE IF "no" \in parts THEN "no" ELSE "yes"

\* updateTestSuiteAndFileResults, of every suite and file.
UpdateTestSuiteAndFileResults(passed) ==
    LET up[n \in Suites \union Files] ==
          Verdict({passed[f] : f \in FunctionsOf[n]} \union {up[s] : s \in SuitesOf[n]})
    IN up

\* The loop over the files, or the folders, of a folder: after one that failed,
\* every other one counts as one that did not run.
RollUp(verdicts) ==
    FoldLeft(LAMBDA sum, v : IF sum.passed /\ v # "none"
                             THEN [sum EXCEPT !.passed = v = "yes"]
                             ELSE [sum EXCEPT !.ran = FALSE],
             [passed |-> TRUE, ran |-> TRUE], verdicts)

\* updateTestFolderResults, of every folder.
UpdateTestFolderResults(files) ==
    LET up[d \in Folders] ==
          LET fs == RollUp([i \in DOMAIN FilesOf[d] |-> files[FilesOf[d][i]]])
              ds == RollUp([i \in DOMAIN FoldersOf[d] |-> up[FoldersOf[d][i]]])
          IN IF ~(fs.ran /\ ds.ran) THEN "none"
             ELSE IF fs.passed /\ ds.passed THEN "yes" ELSE "no"
    IN up

\* updateResults: passed of every suite, file and folder.
UpdateResults(passed) ==
    LET files == UpdateTestSuiteAndFileResults(passed)
        folders == UpdateTestFolderResults(files)
    IN [n \in Suites \union Files \union Folders |->
          IF n \in Folders THEN folders[n] ELSE files[n]]

-----------------------------------------------------------------------------
(* What the tree is to say.                                                *)

\* The functions below a suite or a file, and the files below a folder.
Functions[n \in Suites \union Files] ==
    FunctionsOf[n] \union UNION {Functions[s] : s \in SuitesOf[n]}

FilesBelow[d \in Folders] ==
    ToSet(FilesOf[d]) \union UNION {FilesBelow[e] : e \in ToSet(FoldersOf[d])}

\* A suite or a file passed if all its functions did, failed if all ran and one
\* failed, and is undecided otherwise; a folder passed if all its files did and is
\* never said to have failed if none did.
TellsOfFunctions(tree, passed) ==
    /\ \A n \in Suites \union Files :
          /\ tree[n] = "yes" <=> \A f \in Functions[n] : passed[f] = "yes"
          /\ tree[n] = "no" <=> /\ \A f \in Functions[n] : passed[f] # "none"
                                /\ \E f \in Functions[n] : passed[f] = "no"
    /\ \A d \in Folders :
          /\ tree[d] = "yes" <=> \A f \in FilesBelow[d] : tree[f] = "yes"
          /\ tree[d] = "no" => \E f \in FilesBelow[d] : tree[f] = "no"
=============================================================================
