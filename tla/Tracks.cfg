\* Times wrap at 16; a gap is 3 or more; tolerances in tenths of a metre.
\* A position of a drive has up to three edges within the radius, of which two are kept.
\* All ends, so the end is no deadlock.
CONSTANTS
    TimeRange = 16
    NoTime <- MCNoTime
    Settings <- MCSettings
    Readings <- MCReadings
    Truths <- MCTruths
    Matches <- MCMatches
    Simplifying = 1
    Adoption = 3
    Splitting = 10
    Calls <- MCCalls
    OxtsDirectories <- MCOxtsDirectories
    VelodyneDirectories <- MCVelodyneDirectories
    Malformed <- MCMalformed
    SampleTime = 100
    KeepClasses = {"street"}
    DefaultSpeed <- MCDefaultSpeed
    NoDistance = 1000
    Radius = 2
    MaxCandidates = 2
    ClusterRadius = 2
    IntersectionDist = 2
    RoadFiles <- MCRoadFiles
    LowConfidence = 2
    Lines0 <- MCLines
    Others <- MCOthers
    MaxPoints = 3
    PartLists <- MCParts
    MaxParts = 3
    CandidateLines <- MCMovingLines
    EdgeLines <- MCMovingLines
    MaxEdges = 2
    NetworkInputs <- MCNetworkInputs
    Imported <- MCImported
    OnewayTags = {1}
    Missing = Missing
    Network <- MCNetwork
    RouteInputs <- MCRouteInputs
SPECIFICATION Spec
INVARIANTS
    TracksAreWhole
    PartsKeepTheTrack
    LinesStayWhole
    SegmentsAccounted
    OptionsRespected
    FramesKeepTheirTime
    RoadsAreImported
    PathIsShortest
    MostLikelyChoice
    CenterlineIsSound
    ReportIsConsistent
    CachesAreFresh
    LinesOutliveRoute
    FormatsAreFaithful
    RoutesAreFollowed
CHECK_DEADLOCK FALSE
