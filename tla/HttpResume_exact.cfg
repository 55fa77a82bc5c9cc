\* Three chunks, two changes of the source, one retry, two stops.
CONSTANTS
    Length = 3
    MaxRetries = 1
    MaxChanges = 2
    MaxStops = 2
\* A download that is over stays over.
CHECK_DEADLOCK FALSE
SPECIFICATION FairSpec
INVARIANTS
    ExactUnlessTorn
PROPERTIES
    DownloadEnds
