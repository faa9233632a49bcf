SPECIFICATION ReportsSpec
CONSTANTS
    j1 = j1
    j2 = j2
    j3 = j3
    xml = xml
    txt = txt
    dev = dev
    admin = admin
    www = www
    Jobs = {j1, j2, j3}
    Hints = {j3}
    Given <- MCGiven
    Target <- MCTarget
    Blobs <- MCBlobs
    Facts <- MCFacts
    Flagged = {dev, admin}
    Requests = {r1}
    Limit = 3
    None = None
CHECK_DEADLOCK FALSE
INVARIANT
    LinesAreBacked
