CONSTANTS
    Addrs <- MCAddrsSmall
    Sizes <- MCSizes
    Descs = {D1}
    NoDesc = NoDesc
    NoRoot = NoRoot
    PrimeTable <- MCPrimeTableSmall
SPECIFICATION Spec
INVARIANT RootTablesConsistent
INVARIANT RootScanKind
PROPERTY RegistryRefined
