\* Safety of Deploy/Destroy over every scaling, restart and API-error interleaving.
CONSTANTS
    ServiceName = ServiceName
    OldServiceName = OldServiceName
    ReplicaChoices <- MCReplicaChoices
    InitGenerations <- MCAllGenerations
    MaxScaleEvents = 3
    CleanupPolls = 3
    MaxCrashes = 2
    ApiErrors = TRUE
SPECIFICATION Spec
INVARIANTS
    TypeOK
    NoCreateOverExisting
PROPERTIES
    SynchronizerRefinesObject
