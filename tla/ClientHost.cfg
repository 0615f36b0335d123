SPECIFICATION HostSpec
CONSTANTS
    Threads = {t1, t2}
    Mark = TRUE
    Extra = {4}
    Source = {6}
    HookSets <- NoneOrBoth
    MaxAnswers = 3
    MaxFailures = 1
INVARIANTS
    CleansUp
    RoutingReportTrue
    HooksInOrder
PROPERTIES
    Ends
CHECK_DEADLOCK FALSE
