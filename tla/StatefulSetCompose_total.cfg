\* Composer and Provider Resolver over MCAllValues.
CONSTANTS
    Nil = Nil
    Panic = Panic
    ValuesSpace <- MCAllValues
    DefaultServerPort = 2380
    DefaultClientPort = 2379
    DefaultBackupPort = 8080
    DefaultLocalPrefix <- MCLocalPrefix
SPECIFICATION Spec
INVARIANT ComposeTotal
\* One composition per reconciliation: the state after it has no successor.
CHECK_DEADLOCK FALSE
