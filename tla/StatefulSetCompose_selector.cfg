\* Composer and Provider Resolver over MCOverridingValues.
CONSTANTS
    Nil = Nil
    Panic = Panic
    ValuesSpace <- MCOverridingValues
    DefaultServerPort = 2380
    DefaultClientPort = 2379
    DefaultBackupPort = 8080
    DefaultLocalPrefix <- MCLocalPrefix
SPECIFICATION Spec
INVARIANT SelectorMatchesTemplate
\* One composition per reconciliation: the state after it has no successor.
CHECK_DEADLOCK FALSE
