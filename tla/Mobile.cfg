SPECIFICATION FairSpec
CONSTANTS
    MaxStarts = 2
    MaxJobs = 2
    SUBMIT_CAP = 1
INVARIANTS OneWriter  RunningIsBacked
PROPERTIES SignalledStops
