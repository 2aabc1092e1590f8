SPECIFICATION GateSpec
CONSTANTS
    VariantOrder <- MCVariantOrder
    Unit = 4
    Pool <- MCPool
    NPaths = 2
    Evident = {1, 2}
    Rules <- MCRules
    Forms = {"escalating"}
    Replies <- MCReplies
    Setups <- MCSetups
    h1 = h1
    h2 = h2
    Hosts = {h1, h2}
    HostOps = {"authorize", "inspect", "delete", "retain"}
    MaxDecides = 2
    MaxRows = 16
    Refs = {1, 2}
    Calls = {1, 2, h1, h2}
    MaxFaults = 1
    MaxTokens = 1
    NoId = NoId
CHECK_DEADLOCK FALSE
INVARIANTS
    AuthorizedActionsAreJustified
    LedgerIsExplained
    RulingsAreAttested
    CertifiesWhatWasAttested
PROPERTY
    StoreKeepsItsWord
