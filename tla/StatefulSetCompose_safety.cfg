\* Composer and Provider Resolver over MCCompleteValues.
CONSTANTS
    Nil = Nil
    Panic = Panic
    ValuesSpace <- MCCompleteValues
    DefaultServerPort = 2380
    DefaultClientPort = 2379
    DefaultBackupPort = 8080
    DefaultLocalPrefix <- MCLocalPrefix
SPECIFICATION Spec
INVARIANTS
    TypeOK
    MountsReferenceVolumes
    CredentialsUnderMount
    LocalStoreMounted
    BackupEndpointReachesSidecar
\* One composition per reconciliation: the state after it has no successor.
CHECK_DEADLOCK FALSE
