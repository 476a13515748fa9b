\* As MCProvider.cfg, for what the ports promise of failures.
SPECIFICATION Spec
CONSTANTS
    CatalogueFiles <- MCCatalogueFiles
    ProviderRequests <- MCProviderRequests
    ModelIds <- MCModelIds
    MaxAttempts = 3
    MaxTexts = 2
    None = None
INVARIANT FailuresAreProviderErrors
\* A call returns and the behaviour ends there.
CHECK_DEADLOCK FALSE
