\* One client that does everything, twice; nothing takes effect after its operation has ended.
CONSTANTS
    None = None
    c1 = c1  c2 = c2  net1 = net1  net2 = net2  pool1 = pool1
    auto = auto  manual = manual  lte = lte  nr5g = nr5g  gsm = gsm
    dual = dual  guest = guest  timed_off = timed_off
    key = key  isolate = isolate  power_level = power_level
    OtherMode = OtherMode
    Nets <- TwoNets
    Pools <- OnePool
    Resolvers <- TwoResolvers
    NetworkModes <- ThreeModes
    Offered <- TwoModes
    Sections <- AllSections
    AccessPoints <- TwoAccessPoints
    Guest <- guest
    Fields <- TwoFields
    GuestVerified <- OneField
    GlobalFields <- OneGlobal
    Values <- TwoValues
    Losing <- SeparateOnly
    FactoryGuest <- DefaultGuest
    Configs <- WholeObjects
    Initial <- Fresh
    Admissible <- SettingsAdmissible
    Preparable <- SettingsPreparable
    Same <- SettingsSame
    Applied <- SettingsApplied
    Met <- SettingsMet
    Asked <- SettingsAsked
    Kept <- SettingsKept
    Frame <- SettingsFrame
    Clients <- OneClient
    HasPassword <- OneClient
    Ops <- WholeObjectOps
    Checked <- WholeObjectChecked
    Trusting <- WholeObjectTrusting
    Attempts = 2
    MaxCalls = 2
    Late = FALSE
SPECIFICATION FairSpec
INVARIANTS
    TypeOK
    ReturnedHolds
PROPERTIES
    OnlyAskedChanges
    EveryOperationReturns
