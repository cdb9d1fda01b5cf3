SPECIFICATION Spec
CONSTANTS
    None = None
    Torn = Torn
    Unreadable = Unreadable
    BadCreds = {"bad"}
    Setups <- SetupsDef
    Images <- ImagesDef
    SimpleSigs <- SimpleSigsDef
    CosignSigs <- CosignSigsDef
    Digests = {"d1", "d2", "bad"}
    Malformed = {"bad"}
    Keys = {"k1", "k2"}
    GuestKey = "k1"
    FileUrls = {"file1", "file2"}
    MaxChecks = 2
    MaxMoves = 1
    MaxRotations = 1
    MaxFails = 1
    MaxCrashes = 1
INVARIANTS
    
    AcceptedIsSigned
    VerdictIsRight
CHECK_DEADLOCK FALSE
