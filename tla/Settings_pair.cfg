\* Two clients, one without a password, writes of single fields that may take effect late.
CONSTANTS
    None = None
    c1 = c1  c2 = c2  net1 = net1  net2 = net2  pool1 = pool1
    auto = auto  manual = manual  lte = lte  nr5g = nr5g  gsm = gsm
    dual = dual  guest = guest  timed_off = timed_off
    key = key  isolate = isolate  power_level = power_level
    OtherMode = OtherMode
    Nets <- TwoNets
    Pools <- OnePool
    Resolvers <- TwoResolvers
    NetworkModes <- ThreeModes
    Offered <- TwoModes
    Sections <- AllSections
    AccessPoints <- TwoAccessPoints
    Guest <- guest
    Fields <- TwoFields
    GuestVerified <- OneField
    GlobalFields <- OneGlobal
    Values <- TwoValues
    Losing <- SeparateOnly
    FactoryGuest <- DefaultGuest
    Configs <- SingleFields
    Initial <- Unset
    Admissible <- SettingsAdmissible
    Preparable <- SettingsPreparable
    Same <- SettingsSame
    Applied <- SettingsApplied
    Met <- SettingsMet
    Asked <- SettingsAsked
    Kept <- SettingsKept
    Frame <- SettingsFrame
    Clients <- TwoClients
    HasPassword <- OneClient
    Ops <- SingleFieldOps
    Checked <- SingleFieldChecked
    Trusting <- SingleFieldTrusting
    Attempts = 2
    MaxCalls = 1
    Late = TRUE
SPECIFICATION Spec
INVARIANTS
    EffectAtMostOnce
    NoHiddenEffect
PROPERTIES
    OnlyAskedChanges
    TableFittedOnce
    ImplementsSetting
