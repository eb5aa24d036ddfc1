\* Two clients, one operation each, at a router that may apply a write at any time.
CONSTANTS
    None = None
    c1 = c1  c2 = c2  upnp = upnp  dmz = dmz  pptp = pptp  host = host
    rule1 = rule1  rule2 = rule2  hello = hello  alice = alice  bob = bob
    friends = friends  mac1 = mac1  mac2 = mac2  phone = phone
    en = en  de = de  fr = fr  noon = noon
    Switches <- TwoSwitches
    Protocols <- OneProtocol
    Hosts <- OneHost
    Rules <- TwoRules
    RuleSlots = 2
    ForwardSlots = 1
    Ids <- TwoIds
    Texts <- OneText
    MaxSent = 3
    Indexes <- TwoIds
    Names <- TwoNames
    GroupNames <- OneGroup
    Macs <- TwoMacs
    Aliases <- OneAlias
    Languages <- ThreeLanguages
    Advertised <- TwoLanguages
    SleepMinutes <- TwoTimes
    Times <- OneTime
    Clients <- TwoClients
    Configs <- ServicesConfigs
    Initial <- InUse
    Ops <- FewOps
    ReadBack <- FewReadBack
    Checked <- FewChecked
    Confirmed <- FewConfirmed
    Answers <- ServicesAnswers
    Confirms <- ServicesConfirms
    ReportsDone <- ServicesReportsDone
    Valid <- ServicesValid
    Admissible <- ServicesAdmissible
    Same <- ServicesSame
    Applied <- ServicesApplied
    Met <- ServicesSame
    Asked <- ServicesAsked
    Frame <- ServicesFrame
    MaxCalls = 1
SPECIFICATION Spec
INVARIANTS
    EffectAtMostOnce
    NoHiddenEffect
    ConfirmedHappened
PROPERTIES
    OnlyAskedChanges
    SlotsAsNamed
    ImplementsSetting
