\* The drives of Tracks.cfg with the one property.
\* The workflow ends, so the end is no deadlock.
CONSTANTS
    OxtsDirectories <- MCOxtsDirectories
    VelodyneDirectories <- MCVelodyneDirectories
    Malformed <- MCMalformed
    SampleTime = 100
    KeepClasses = {"street"}
    DefaultSpeed <- MCDefaultSpeed
    NoDistance = 1000
    Radius = 2
    MaxCandidates = 2
    ClusterRadius = 2
    IntersectionDist = 2
    RoadFiles <- MCRoadFiles
    LowConfidence = 2
SPECIFICATION WorkflowSpec
INVARIANTS
    BacktraceHasCandidate
CHECK_DEADLOCK FALSE
