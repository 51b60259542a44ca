\* Wait and its enrichment over cache lag, rollouts, pod failures, claim binding
\* and warnings, and failing API calls.  Wait returns and the system may then
\* stop: deadlock is not an error.
CONSTANTS
    Replicas = 2
    Name <- MCName
    TemplateName <- MCTemplateName
    Claims <- MCClaimsWithSibling
    Ordinals <- MCOrdinals
    Polls = 3
    InitGenerations <- MCInitGenerations
    ApiErrors = TRUE
    StaleReads = FALSE
SPECIFICATION Spec
CHECK_DEADLOCK FALSE
INVARIANTS
    TypeOK
    EnrichmentNeverMasks
    ReportedClaimsAreStuck
