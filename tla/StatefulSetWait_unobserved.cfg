\* Does a failed Wait report the stuck claims of its own StatefulSet when no
\* poll ever found the StatefulSet?
CONSTANTS
    Replicas = 2
    Name <- MCName
    TemplateName <- MCTemplateName
    Claims <- MCOwnClaims
    Ordinals <- MCOrdinals
    Polls = 2
    InitGenerations <- MCInitGenerations
    ApiErrors = FALSE
    StaleReads = FALSE
SPECIFICATION Spec
CHECK_DEADLOCK FALSE
INVARIANT StuckOwnClaimsReported
