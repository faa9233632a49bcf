SPECIFICATION FairSpec
CONSTANTS
    a1 = a1
    a2 = a2
    a3 = a3
    t1 = t1
    t2 = t2
    j1 = j1
    Adders = {a1, a2, a3}
    Attesters = {t1, t2}
    Jobs = {j1}
    Values <- MCValues
    Targets <- MCTargets
    Posted <- MCPosted
    Target <- MCTarget
    Aims <- MCAims
    Accepted <- MCAccepted
    Allowed <- MCAllowed
    Nobody = Nobody
    Fold <- MCFold
    Octet <- MCOctet
    OctetBits = 2
    Octets = 2
    Bits6 = 6
    MappedTop = 1
    MinPrefix4 = 2
    MinPrefix6 = 4
    Invalid = Invalid
CHECK_DEADLOCK FALSE
INVARIANTS
    TypeOK
    AttestationCoversScope
    ContactsAreAttested
PROPERTIES
    ImplementsLedger
    LockIsFreed
