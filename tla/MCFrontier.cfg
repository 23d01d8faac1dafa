CONSTANTS
    g1 = g1
    t1 = t1
    t2 = t2
    t3 = t3
    k1 = k1
    k2 = k2
    k3 = k3
    a1 = a1
    a2 = a2
    s1 = s1
    s2 = s2
    NoTask = NoTask
    NoSpec = NoSpec
    NoPolicy = NoPolicy
    NoAnchor = NoAnchor
    NoDraft = NoDraft
    NoSandbox = NoSandbox
    AnyTag = {any}
    Inherited = {inherited}
    NoType = NoType
    CapabilityCatalog <- NoCapabilities
    Base <- SecondNarrows
    Generations = {g1}
    Tasks = {t1, t2, t3}
    Keys = {k1, k2, k3}
    Intents <- RootIntents
    SourceTask <- Sources
    Carried <- ResultIntents
    Specs <- Overrides
    Policies <- TwoPolicies
    SeedPayload <- Payload
    TypeIds = {"w"}
    MaxRevision = 2
    Contract <- ContractOf
    Drafts <- TwoDrafts
SPECIFICATION Spec
INVARIANTS
    NothingIsStranded
    PolicyIsCeiling
    ReplayIdempotent
PROPERTIES
    DecidedAsSeen
