SPECIFICATION FairSpec
CONSTANTS
    MaxBirth = 3
    Attempts = 2
    Stranger = 9
    Faults <- AllFaults
INVARIANTS SignalsOnlyRecorded CleanedMeansQuiet RecordedMeansPublished StopIsTruthful
PROPERTIES ForeignEvidenceKept RecordEnds
CHECK_DEADLOCK FALSE
