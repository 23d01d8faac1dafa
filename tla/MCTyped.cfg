SPECIFICATION Spec
CONSTANTS
    t1 = t1
    e1 = e1
    n1 = n1
    p1 = p1
    p2 = p2
    p3 = p3
    s1 = s1
    s2 = s2
    s3 = s3
    c1 = c1
    c2 = c2
    c3 = c3
    c4 = c4
    k1 = k1
    Dispositions = {"ACTIVE", "DRAINING"}
    NoAnchor = NoAnchor
    NoPolicy = NoPolicy
    NoSandbox = NoSandbox
    NoType = NoType
    NoBinding = NoBinding
    NoAgent = NoAgent
    NoTask = NoTask
    AnyTag = {any}
    Inherited = {inherited}
    CapabilityCatalog <- Capabilities
    Types <- ThreeTypes
    Policies = {p1, p2, p3}
    Sources = {s1, s2, s3}
    Configs = {c1, c2, c3, c4}
    Contract <- ContractOf
    Base <- BaseOf
    PolicyContent <- PolicyOf
    SourceContent <- ThreeSources
    ConfigContent <- FourConfigs
    Tasks = {t1}
    Agents = {e1}
    NewAgents = {n1}
    MaxAttempts = 2
    MaxChanges = 1
    Requirement <- RequirementOf
    Placement <- PlacementOf
    HomeOf <- Homes
    Initially <- Opened
    LegacyHosts <- HostsBefore
    Target <- TheTarget
    Imported <- Installed
    Routed <- Routes
    Digest = {k1}
    Requirements <- SampleRequirements
INVARIANTS
    FaultReachesRoot
PROPERTIES
    BestOfTheCatalogue
    RestrictionsHold
    PublishedNarrows
    FrontierDecides
    RetiredForGood
    HostKeepsItsProvenance
    AcquisitionSettles
