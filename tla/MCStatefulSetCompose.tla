------------------------ MODULE MCStatefulSetCompose ------------------------
(***************************************************************************)
(* Small Values snapshots for StatefulSetCompose: every infrastructure     *)
(* provider name the resolver knows plus one it does not, every optional   *)
(* TLS descriptor and port set or unset.                                   *)
(***************************************************************************)
EXTENDS StatefulSetCompose

MCTLS == [ca |-> "ca-secret", server |-> "server-secret", client |-> "client-secret"]

MCInfraProviders ==
    {"aws", "azure", "gcp", "alicloud", "openstack", "dell", "openshift", "local", "unknown"}

MCContainer == <<"backups">>

MCLocalPrefix == <<"etc", "gardener", "local-backupbuckets">>

\* Stores with Container and SecretRef both set.
MCCompleteStores ==
    {Nil} \cup [provider : MCInfraProviders, container : {MCContainer}, secretRef : {"store-secret"}]

\* Stores where Container or SecretRef may be unset.
MCAllStores ==
    {Nil} \cup [provider : MCInfraProviders, container : {Nil, MCContainer},
                secretRef : {Nil, "store-secret"}]

MCPlainLabels == {<<>>, "app" :> "etcd-main"}

\* User labels that reuse a key of getCommonLabels.
MCOverridingLabels == {<<>>, "instance" :> "main"}

MCValues(stores, labels) ==
    [name : {"etcd-main"}, namespace : {"shoot"}, labels : labels, annotations : {<<>>},
     serverPort : {Nil, 2390}, clientPort : {Nil}, backupPort : {Nil, 9090},
     backupTLS : {Nil, MCTLS}, clientUrlTLS : {Nil, MCTLS}, peerUrlTLS : {Nil, MCTLS},
     store : stores, priorityClassName : {Nil, "high"},
     etcdResources : {Nil}, backupResources : {Nil}, storageCapacity : {Nil},
     volumeClaimTemplateName : {"etcd-main"}, configMapName : {"etcd-bootstrap"},
     replicas : {3}, serviceName : {"etcd-main-client"}]

MCCompleteValues == MCValues(MCCompleteStores, MCPlainLabels)
MCAllValues == MCValues(MCAllStores, MCPlainLabels)
MCOverridingValues == MCValues(MCCompleteStores, MCOverridingLabels)

====
