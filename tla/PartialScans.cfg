SPECIFICATION RunsSpec
CONSTANTS
    Ports = {22, 80}
    Identified = {80}
    OutputLimit = 3
    AllHosts = {h1, h2, h3}
    Target = h1
    InScope = {h1, h2}
    MaxRedirects = 3
    MaxRetries = 1
    Queries = 2
    Subjects = {acme}
    Platforms = {mastodon, github}
    Links = {l1}
    Ttl = 2
    MaxRuns = 1
    MaxTime = 4
    None = None
    acme = acme
    mastodon = mastodon
    github = github
    l1 = l1
    h1 = h1
    h2 = h2
    h3 = h3
CHECK_DEADLOCK FALSE
INVARIANTS
    PartialScans
