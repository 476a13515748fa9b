\* Every catalogue of one or two entries, every request, the code's own three
\* attempts, streams of up to two pieces of text.
SPECIFICATION Spec
CONSTANTS
    CatalogueFiles <- MCCatalogueFiles
    ProviderRequests <- MCProviderRequests
    ModelIds <- MCModelIds
    MaxAttempts = 3
    MaxTexts = 2
    None = None
INVARIANTS
    TypeOK
    RetryDiscipline
    RightWire
    OneTaxonomy
    StreamIsWhole
\* A call returns and the behaviour ends there.
CHECK_DEADLOCK FALSE
