\* An earlier-release single-member StatefulSet under the client service whose
\* Etcd stays at one replica: Deploy skips the migration and patches spec.serviceName.
CONSTANTS
    ServiceName = ServiceName
    OldServiceName = OldServiceName
    ReplicaChoices <- MCSingleReplica
    InitGenerations <- MCAllGenerations
    MaxScaleEvents = 0
    CleanupPolls = 2
    MaxCrashes = 0
    ApiErrors = FALSE
SPECIFICATION Spec

PROPERTY EtcdConverges
