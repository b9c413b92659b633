----------------------------- MODULE MCTestRun -----------------------------
(* The instances of TestRun that TLC checks: a folder with a file and a    *)
(* folder with another one, and with one that could not be collected.      *)
EXTENDS TestRun

MCTestFunctions == {"test_a", "test_b", "test_c"}
MCSuites == {"Class"}
MCFiles == {"test_1.py", "test_2.py", "test_3.py"}
MCFolders == {"tests", "tests/unit"}
MCFunctionsOf ==
    "test_1.py" :> {"test_b"} @@ "test_2.py" :> {"test_c"} @@ "test_3.py" :> {} @@ "Class" :> {"test_a"}
MCSuitesOf == "test_1.py" :> {"Class"} @@ "test_2.py" :> {} @@ "test_3.py" :> {} @@ "Class" :> {}
MCFilesOf == "tests" :> <<"test_1.py">> @@ "tests/unit" :> <<"test_2.py", "test_3.py">>
MCFoldersOf == "tests" :> <<"tests/unit">> @@ "tests/unit" :> << >>
MCStrangers == {"setUpClass"}

\* All tests, one, or a class whose set-up fails.  Bound: with unittest, of which every
\* piece of every frame is a step, the second file is not run.
MCAllTests ==
    [unittest |-> <<<<"test_a", "test_b">>>>, xml |-> <<<<"test_a", "test_b", "test_c">>>>]
MCSelections ==
    [unittest |-> {MCAllTests.unittest, <<<<"setUpClass">>>>},
     xml |-> {MCAllTests.xml, <<<<"test_a">>>>, <<<<"setUpClass">>>>}]
=============================================================================
