\* Does the enrichment pick up claims of the StatefulSet "e-v" for Wait on "e"?
CONSTANTS
    Replicas = 2
    Name <- MCName
    TemplateName <- MCTemplateName
    Claims <- MCClaimsWithSibling
    Ordinals <- MCOrdinals
    Polls = 2
    InitGenerations <- MCInitGenerations
    ApiErrors = FALSE
    StaleReads = FALSE
SPECIFICATION Spec
CHECK_DEADLOCK FALSE
INVARIANT OnlyOwnClaimsReported
