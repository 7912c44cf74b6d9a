SPECIFICATION FairSpec
INVARIANTS
    LeavesCleanly
PROPERTIES
    SigtermEndsProcess
    RepeatedInterruptsEnd
