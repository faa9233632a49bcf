SPECIFICATION BenchSpec
CONSTANTS
    Fold <- MCFold
    Octet <- MCOctet
    OctetBits = 2
    Octets = 2
    Bits6 = 6
    MappedTop = 1
    MinPrefix4 = 2
    MinPrefix6 = 4
    Invalid = Invalid
    Notations <- MCNotations
    MaxEntries = 1
    Nothing = Nothing
    MaxPort = 3
    HttpPort = 1
    HttpsPort = 3
    Shift <- MCShift
    Paths <- MCPaths
    TopPorts <- MCTopPorts
    Specs <- MCSpecs
    Absent = Absent
    q1 = q1
    q2 = q2
    q3 = q3
    Puts = {q1, q2, q3}
    Body <- MCBody
    Fields = {"title", "prompt"}
    Null = "null"
    NoRow = NoRow
    Ports = {22, 80}
    Identified = {80}
    OutputLimit = 3
    AllHosts = {h1, h2, h3}
    Target = h1
    InScope = {h1, h2}
    MaxRedirects = 2
    MaxRetries = 1
    Queries = 2
    Subjects = {acme}
    Platforms = {mastodon, github}
    Links = {l1}
    Ttl = 2
    MaxRuns = 3
    MaxTime = 2
    None = None
    acme = acme
    mastodon = mastodon
    github = github
    l1 = l1
    h1 = h1
    h2 = h2
    h3 = h3
CHECK_DEADLOCK FALSE
INVARIANTS
    DecisionsFollowMeaning
    BreadthIsBounded
    PortsAreAsMeant
    CommandsAreExplained
    FieldsAreOfLastSaves
    TypeOK
    ResultContract
    WalkStaysInScope
    AnswersAreFresh
    RequestsWithinBudget
PROPERTIES
    NotationsCollapse
    EveryRunEnds
