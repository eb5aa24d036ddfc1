\* A campaign over two sections from any case, with and without faults.
CONSTANTS
    None = None
    s1 = s1  s2 = s2
    psk = psk  open = open
    real = real  test = test  empty = empty
    SectionList <- TwoSections
    Radios <- OneRadio
    TokenList <- TwoTokens
    Open <- open
    Keys <- AllKeys
    EmptyKey <- empty
    TestKey <- test
    Channels = {1, 2}
    Late = FALSE
SPECIFICATION FairSpec
INVARIANTS
    RestoredBeforeNext
    ReportIsTrue
PROPERTIES
    CampaignShortens
    CampaignEnds
CHECK_DEADLOCK FALSE
