SPECIFICATION FairSpec
CONSTANTS
    TestFunctions <- MCTestFunctions
    Suites <- MCSuites
    Files <- MCFiles
    Folders <- MCFolders
    FunctionsOf <- MCFunctionsOf
    SuitesOf <- MCSuitesOf
    FilesOf <- MCFilesOf
    FoldersOf <- MCFoldersOf
    Strangers <- MCStrangers
    AllTests <- MCAllTests
    Selections <- MCSelections
    MaxRuns = 2
    Reportable = {"passed", "failed"}
    None = None
INVARIANTS RunInvariant SummaryAgrees RollUpAgrees
PROPERTY EveryRunSettles
CHECK_DEADLOCK FALSE
