SPECIFICATION Spec
CONSTANTS
    Files = {"main", "module"}
    Main = "main"
    Library = "library"
    Renamed = {"module"}
    Lines = {1, 2}
    Breakpoints = {"b1", "b2"}
    Place <- OneLine
    Conditional = {"b2"}
    MaxDepth = 3
INVARIANTS
    TracingInvariant
PROPERTIES
    BreakpointsStop
    StepsStopInScope
    StepsStopWhenDue
CHECK_DEADLOCK FALSE
