\* The same question for a StatefulSet never updated since its creation
\* (generation 1): Deploy skips the migration and its patch is rejected.
CONSTANTS
    ServiceName = ServiceName
    OldServiceName = OldServiceName
    ReplicaChoices <- MCScaledReplicas
    InitGenerations <- MCNeverUpdatedGenerations
    MaxScaleEvents = 0
    CleanupPolls = 2
    MaxCrashes = 1
    ApiErrors = TRUE
SPECIFICATION Spec

PROPERTY MigrationCompletes
