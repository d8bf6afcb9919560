\* Every page on its own: two volumes and two namespaces, two directories with
\* volumes, two scrapers.
CONSTANTS
    v = v  w = w  first = first  second = second
    Namespace = {first, second}
    NoNamespace = NoNamespace
    PV = {v, w}
    PVState <- PVStates
    RangeList <- TwoLists
    Hard = {0, 7}
    NoteSet <- TwoNotes
    MaxChanges = 2
    a = a  b = b  na = na  nb = nb  ia = ia  ib = ib
    flat = flat  outer = outer  inner = inner  dot = dot
    Name = {na, nb}  ID = {ia, ib}  Path = {flat, outer, inner, dot}
    Within = {}
    Vol = {a, b}
    Volume <- Volumes
    NoDir = NoDir
    Parent <- Tree
    Hidden = {dot}
    Limit = {0, 10, 20}
    Use = {8, 9, 10}
    MaxMoves = 2
    Scraper = {s1, s2}
    NoScraper = NoScraper
    Fresh = 2
    MaxUpdate = 2
SPECIFICATION InstanceSpec
INVARIANTS PolicyTypeOK LimitRangesComeFirst OneLimitPerNamespace AnswersAreExact
INVARIANTS ReportTypeOK LimitsAreOwn ReportIsExact
INVARIANTS MetricsTypeOK
PROPERTIES StalenessIsBounded ScrapesReturn
CHECK_DEADLOCK FALSE
