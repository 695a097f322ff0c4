\* A web server that has used up its bounds on runs and changes may stop.
SPECIFICATION Spec
CONSTANTS
    ShardCount = 3
    Limits = {0, 1}
    MaxTrouble = 2
    NoFile = NoFile
    TornFile = TornFile
    Clients = {c1, c2}
    ServerCount = 2
    MaxStops = 1
    MaxFailures = 2
    NoClient = NoClient
    NoPid = NoPid
    Runs = {r1}
    Changers = {u1}
    k1 = k1
    s1 = s1
    Keys = {k1}
    Sessions = {s1}
    Requests <- MCRequests
    ResponseMax = 1
    PrefixMax = 1
    MaxRuns = 2
    MaxChanges = 1
    MaxExpiries = 1
    Nothing = Nothing
    d1 = d1
    d2 = d2
    Files = {d1, d2}
    FileOrder <- MCFileOrder
    Lengths <- MCLengths
    MaxSetbacks = 3
    Missing = Missing
    Unreadable = Unreadable
    Fine = Fine
    Coarse = Coarse
    Layouts = {Fine, Coarse}
    Units <- MCUnits
    UnitBytes <- MCUnitBytes
    HotTarget <- MCHotTarget
    WarmTarget <- MCWarmTarget
    MaxUpsets = 2
    Absent = Absent
    Torn = Torn
INVARIANTS
    TypeOK
    SkippedShardsAreWhole
    CompleteIsWhole
    OneModelInMemory
    StateNamesServer
    WholeDownloads
    StreamSound
PROPERTIES
    FollowsOn
    WorkCompletes
    CallsReturn
CHECK_DEADLOCK FALSE
