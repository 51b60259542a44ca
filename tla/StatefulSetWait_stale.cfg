\* Wait right after a Deploy whose patch left the spec replicas as they were,
\* with a client whose reads may still return the pre-patch object.
\* Wait returns and the system may then stop: deadlock is not an error.
CONSTANTS
    Replicas = 2
    Name <- MCName
    TemplateName <- MCTemplateName
    Claims <- MCClaimsWithSibling
    Ordinals <- MCOrdinals
    Polls = 3
    InitGenerations <- MCInitGenerations
    ApiErrors = TRUE
    StaleReads = TRUE
SPECIFICATION Spec
CHECK_DEADLOCK FALSE
PROPERTIES
    SuccessOnlyWhenRolledOut
