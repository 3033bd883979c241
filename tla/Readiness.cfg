SPECIFICATION FairSpec
INVARIANT ReportIsTheServices
PROPERTY ProbeIsAnswered
CHECK_DEADLOCK FALSE
