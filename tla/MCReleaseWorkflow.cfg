SPECIFICATION FairSpec
CONSTANTS
    MaxRuns = 3
    MaxFaults = 2
    MaxBuilds = 5
    Junk = Junk
CHECK_DEADLOCK FALSE
INVARIANTS SuccessIsWhole TornOnlyByFailure OnlyBuilds
PROPERTIES NoDowngrade Settles
