\* Liveness: a scaled-up Etcd whose StatefulSet was updated at least once
\* since it was created (generation >= 2) is migrated and converges.
CONSTANTS
    ServiceName = ServiceName
    OldServiceName = OldServiceName
    ReplicaChoices <- MCScaledReplicas
    InitGenerations <- MCUpdatedGenerations
    MaxScaleEvents = 0
    CleanupPolls = 2
    MaxCrashes = 1
    ApiErrors = TRUE
SPECIFICATION Spec

PROPERTY MigrationCompletes
