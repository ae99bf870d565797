CONSTANT UpdateWorkers = 2
SPECIFICATION FairSpec
INVARIANTS LifecycleTypeOK NoErrorSkipsFinalization
PROPERTIES SignalEndsProcess ServesInTheEnd
CHECK_DEADLOCK FALSE
