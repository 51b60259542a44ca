------------------------- MODULE StatefulSetCompose -------------------------
(***************************************************************************)
(* The Spec Composer and the Provider Resolver of statefulset.go: how the  *)
(* body of syncStatefulset (lines 165-262) turns one Values snapshot into  *)
(* the desired StatefulSet through getObjectMeta, the container getters    *)
(* and getVolumes, and how the backup-storage provider chooses the mounts, *)
(* volumes and environment variables of the backup-restore sidecar.        *)
(*                                                                         *)
(* Data abstraction.  Images, commands, probes, affinity and the other     *)
(* fields copied verbatim from Values are left out.  A path is the         *)
(* sequence of its segments: "/root/.gcp/" is <<"root", ".gcp">>, so the   *)
(* trailing slash the code writes on some mount paths and not on others    *)
(* names the same directory, and joining two paths with "/" is \o.  The    *)
(* BACKUP_ENDPOINT URL is kept as its scheme, host and port.  A nil        *)
(* pointer that the code dereferences makes the whole result Panic.        *)
(***************************************************************************)
EXTENDS Naturals, Sequences, FiniteSets, TLC

LOCAL INSTANCE SequencesExt

CONSTANTS
    Nil,                 \* an unset optional field of Values
    Panic,               \* a nil-pointer dereference: the reconciler crashes
    ValuesSpace,         \* the Values snapshots the configuration owner hands over
    DefaultServerPort,   \* defaultServerPort, defaultClientPort, defaultBackupPort
    DefaultClientPort,
    DefaultBackupPort,
    DefaultLocalPrefix   \* defaultLocalPrefix, as a path

VARIABLES
    values,   \* the snapshot c.values of this reconciliation
    sts       \* the composed StatefulSet, Nil before composition, or Panic

vars == <<values, sts>>

-----------------------------------------------------------------------------
(* Collaborators outside src/: utils.MergeStringMaps (later maps win) and   *)
(* utils.StorageProviderFromInfraProvider.                                  *)

MergeStringMaps(a, b) == b @@ a

ProviderError == "error"

StorageProviderFromInfraProvider(p) ==
    CASE p \in {"aws", "S3"}          -> "S3"
      [] p \in {"azure", "ABS"}       -> "ABS"
      [] p \in {"gcp", "GCS"}         -> "GCS"
      [] p \in {"alicloud", "OSS"}    -> "OSS"
      [] p \in {"openstack", "Swift"} -> "Swift"
      [] p \in {"dell", "ECS"}        -> "ECS"
      [] p \in {"openshift", "OCS"}   -> "OCS"
      [] p \in {"local", "Local"}     -> "Local"
      [] OTHER                        -> ProviderError

\* pointer.Int32Deref / pointer.StringDeref
Deref(p, default) == IF p = Nil THEN default ELSE p

\* The provider of the snapshot's backup store, as the getters resolve it.
StoreProvider(val) ==
    IF val.store = Nil THEN Nil
    ELSE StorageProviderFromInfraProvider(val.store.provider)

-----------------------------------------------------------------------------
(* Labels and object metadata.                                              *)

getCommonLabels(val) == ("name" :> "etcd") @@ ("instance" :> val.name)

getObjectMeta(val) ==
    [name        |-> val.name,
     namespace   |-> val.namespace,
     labels      |-> MergeStringMaps(getCommonLabels(val), val.labels),
     annotations |-> MergeStringMaps(
                        ("gardener.cloud/owned-by" :> (val.namespace \o "/" \o val.name))
                          @@ ("gardener.cloud/owner-type" :> "etcd"),
                        val.annotations),
     owner       |-> [kind |-> "Etcd", name |-> val.name, controller |-> TRUE]]

-----------------------------------------------------------------------------
(* Containers of the pod template.                                          *)

Port(n, p) == [name |-> n, port |-> p]
Mount(n, path) == [name |-> n, path |-> path]
getEnvVarFromValue(n, v) == [name |-> n, from |-> "value", value |-> v]
getEnvVarFromField(n, f) == [name |-> n, from |-> "field", value |-> f]
getEnvVarFromSecrets(n, s, k) == [name |-> n, from |-> "secret", value |-> [secret |-> s, key |-> k]]

\* Mutant: the ports without Int32Deref's default.
getEtcdPortsUndefaulted(val) ==
    << Port("server", val.serverPort), Port("client", val.clientPort) >>

getEtcdPorts(val) ==
    << Port("server", Deref(val.serverPort, DefaultServerPort)),
       Port("client", Deref(val.clientPort, DefaultClientPort)) >>

getEtcdResources(val) == Deref(val.etcdResources, "default")

\* strconv.FormatBool
FormatBool(b) == IF b THEN "true" ELSE "false"

getEtcdEnvVars(val) ==
    << getEnvVarFromValue("ENABLE_TLS", FormatBool(val.backupTLS # Nil)),
       getEnvVarFromValue("BACKUP_ENDPOINT",
           [scheme |-> IF val.backupTLS # Nil THEN "https" ELSE "http",
            host   |-> val.name \o "-local",
            port   |-> Deref(val.backupPort, DefaultBackupPort)]),
       getEnvVarFromValue("FAIL_BELOW_REVISION_PARAMETER", "") >>

getSecretVolumeMounts(clientUrlTLS, peerUrlTLS) ==
    (IF clientUrlTLS # Nil
     THEN << Mount("client-url-ca-etcd", <<"var", "etcd", "ssl", "client", "ca">>),
             Mount("client-url-etcd-server-tls", <<"var", "etcd", "ssl", "client", "server">>),
             Mount("client-url-etcd-client-tls", <<"var", "etcd", "ssl", "client", "client">>) >>
     ELSE <<>>)
    \o
    (IF peerUrlTLS # Nil
     THEN << Mount("peer-url-ca-etcd", <<"var", "etcd", "ssl", "peer", "ca">>),
             Mount("peer-url-etcd-server-tls", <<"var", "etcd", "ssl", "peer", "server">>) >>
     ELSE <<>>)

getEtcdVolumeMounts(val) ==
    << Mount(val.volumeClaimTemplateName, <<"var", "etcd", "data">>) >>
      \o getSecretVolumeMounts(val.clientUrlTLS, val.peerUrlTLS)

\* Mutant: the bucket directory mounted where it lies on the host.
HostStorageMountUnderPrefix(val) ==
    Mount("host-storage", DefaultLocalPrefix \o val.store.container)

\* Local mounts the bucket directory at the path Container names.
HostStorageMount(val) == Mount("host-storage", val.store.container)

\* Mutant: the object-store secret mounted at a different directory.
EtcdBackupMountPathMoved == <<"var", "etcd-backup">>

\* "/root/etcd-backup/", where the S3-like stores mount their secret.
EtcdBackupMountPath == <<"root", "etcd-backup">>

\* The providers whose secret getBackupRestoreVolumeMounts mounts at
\* EtcdBackupMountPath.
ObjectStoreMountProviders == {"S3", "ABS", "OSS", "Swift", "OCS"}

\* The provider-specific mount, when Container is set for Local.
getBackupRestoreVolumeMounts(val) ==
    LET vms == << Mount(val.volumeClaimTemplateName, <<"var", "etcd", "data">>),
                  Mount("etcd-config-file", <<"var", "etcd", "config">>) >>
                 \o getSecretVolumeMounts(val.clientUrlTLS, val.peerUrlTLS)
        p   == StoreProvider(val)
    IN  CASE p = "Local" /\ val.store.container # Nil
               -> Append(vms, HostStorageMount(val))
          [] p = "GCS"
               -> Append(vms, Mount("etcd-backup", <<"root", ".gcp">>))
          [] p \in ObjectStoreMountProviders
               -> Append(vms, Mount("etcd-backup", EtcdBackupMountPath))
          [] OTHER -> vms

getStorageReq(val) == Deref(val.storageCapacity, "default")

\* Mutant: the sidecar port ignores Values.BackupPort.
getBackupPortsDefaultOnly(val) == << Port("server", DefaultBackupPort) >>

getBackupPorts(val) == << Port("server", Deref(val.backupPort, DefaultBackupPort)) >>

getBackupResources(val) == Deref(val.backupResources, "default")

Volume(n, kind, ref) == [name |-> n, kind |-> kind, ref |-> ref]

\* Mutant: the volume switch without the provider added last.
ObjectStoreVolumeProvidersWithoutOCS == {"GCS", "S3", "OSS", "ABS", "Swift"}

\* The providers getVolumes gives the etcd-backup secret volume.
ObjectStoreVolumeProviders == {"GCS", "S3", "OSS", "ABS", "Swift", "OCS"}

\* Local dereferences Container and the secret providers SecretRef, unguarded.
getVolumes(val) ==
    LET vs == << Volume("etcd-config-file", "configMap", val.configMapName) >>
              \o (IF val.clientUrlTLS # Nil
                  THEN << Volume("client-url-ca-etcd", "secret", val.clientUrlTLS.ca),
                          Volume("client-url-etcd-server-tls", "secret", val.clientUrlTLS.server),
                          Volume("client-url-etcd-client-tls", "secret", val.clientUrlTLS.client) >>
                  ELSE <<>>)
              \o (IF val.peerUrlTLS # Nil
                  THEN << Volume("peer-url-ca-etcd", "secret", val.peerUrlTLS.ca),
                          Volume("peer-url-etcd-server-tls", "secret", val.peerUrlTLS.server) >>
                  ELSE <<>>)
        p  == StoreProvider(val)
    IN  CASE p = "Local"
               -> IF val.store.container = Nil THEN Panic
                  ELSE Append(vs, Volume("host-storage", "hostPath",
                                         DefaultLocalPrefix \o val.store.container))
          [] p \in ObjectStoreVolumeProviders
               -> IF val.store.secretRef = Nil THEN Panic
                  ELSE Append(vs, Volume("etcd-backup", "secret", val.store.secretRef))
          [] OTHER -> vs

\* The credentials file each object store reads, and its environment variable.
CredentialsMountPath == <<"root", "etcd-backup">>
CredentialsEnv ==
    ("S3" :> "AWS_APPLICATION_CREDENTIALS") @@ ("ABS" :> "AZURE_APPLICATION_CREDENTIALS")
      @@ ("Swift" :> "OPENSTACK_APPLICATION_CREDENTIALS") @@ ("OSS" :> "ALICLOUD_APPLICATION_CREDENTIALS")
      @@ ("OCS" :> "OPENSHIFT_APPLICATION_CREDENTIALS") @@ ("GCS" :> "GOOGLE_APPLICATION_CREDENTIALS")

\* STORAGE_CONTAINER, POD_NAME and POD_NAMESPACE precede the early returns;
\* ECS dereferences SecretRef, unguarded.
getBackupRestoreEnvVars(val) ==
    LET env == << getEnvVarFromValue("STORAGE_CONTAINER",
                       IF val.store = Nil THEN <<>> ELSE Deref(val.store.container, <<>>)),
                   getEnvVarFromField("POD_NAME", "metadata.name"),
                   getEnvVarFromField("POD_NAMESPACE", "metadata.namespace") >>
        p   == StoreProvider(val)
    IN  CASE p = "GCS"
               -> Append(env, getEnvVarFromValue(CredentialsEnv[p],
                                  <<"root", ".gcp", "serviceaccount.json">>))
          [] p \in {"S3", "ABS", "Swift", "OSS", "OCS"}
               -> Append(env, getEnvVarFromValue(CredentialsEnv[p], CredentialsMountPath))
          [] p = "ECS"
               -> IF val.store.secretRef = Nil THEN Panic
                  ELSE env \o << getEnvVarFromSecrets("ECS_ENDPOINT", val.store.secretRef, "endpoint"),
                                 getEnvVarFromSecrets("ECS_ACCESS_KEY_ID", val.store.secretRef, "accessKeyID"),
                                 getEnvVarFromSecrets("ECS_SECRET_ACCESS_KEY", val.store.secretRef, "secretAccessKey") >>
          [] OTHER -> env

-----------------------------------------------------------------------------
(* The StatefulSet literal of syncStatefulset, lines 165-262.  Go evaluates *)
(* the literal before the object is patched, so a panic in any getter ends  *)
(* the reconciliation with nothing sent.                                    *)

Container(n, ports, res, env, mounts, caps) ==
    [name |-> n, ports |-> ports, resources |-> res, env |-> env,
     mounts |-> mounts, capabilities |-> caps]

ComposeStatefulSet(val) ==
    LET meta  == getObjectMeta(val)
        brEnv == getBackupRestoreEnvVars(val)
        vols  == getVolumes(val)
    IN  IF brEnv = Panic \/ vols = Panic THEN Panic
        ELSE
        [meta           |-> meta,
         replicas       |-> val.replicas,
         serviceName    |-> val.serviceName,
         selector       |-> getCommonLabels(val),
         template       |->
            [labels            |-> meta.labels,
             annotations       |-> val.annotations,
             hostAliases       |-> << [ip |-> "127.0.0.1", hostnames |-> << val.name \o "-local" >>] >>,
             priorityClassName |-> IF val.priorityClassName # Nil THEN val.priorityClassName ELSE "",
             shareProcessNamespace |-> TRUE,
             containers        |->
                << Container("etcd", getEtcdPorts(val), getEtcdResources(val),
                             getEtcdEnvVars(val), getEtcdVolumeMounts(val), {}),
                   Container("backup-restore", getBackupPorts(val), getBackupResources(val),
                             brEnv, getBackupRestoreVolumeMounts(val), {"SYS_PTRACE"}) >>,
             volumes           |-> vols],
         claimTemplates |-> << [name    |-> val.volumeClaimTemplateName,
                                storage |-> getStorageReq(val)] >>]

Init ==
    /\ values \in ValuesSpace
    /\ sts = Nil

\* The composition step of syncStatefulset.
Compose ==
    /\ sts = Nil
    /\ sts' = ComposeStatefulSet(values)
    /\ UNCHANGED values

Next == Compose

Spec == Init /\ [][Next]_vars

-----------------------------------------------------------------------------
(* Properties.                                                              *)

Composed == sts \notin {Nil, Panic}
Containers == ToSet(sts.template.containers)
BackupRestore == sts.template.containers[2]
EnvValue(c, n) == (CHOOSE e \in ToSet(c.env) : e.name = n).value

\* Every container port the composer writes is a valid port number, whether
\* Values sets it or Int32Deref falls back to the default.
TypeOK ==
    /\ values \in ValuesSpace
    /\ sts \in {Nil, Panic} \/
       \A c \in Containers : \A i \in DOMAIN c.ports :
           c.ports[i] \in [name : {"server", "client"}, port : 1..65535]

\* Every volume mount of both containers names a volume of the pod or the
\* volume claim template: the mount switch of getBackupRestoreVolumeMounts
\* and the volume switch of getVolumes agree for every provider.
MountsReferenceVolumes ==
    Composed =>
      LET names == {v.name : v \in ToSet(sts.template.volumes)}
                     \cup {t.name : t \in ToSet(sts.claimTemplates)}
      IN  \A c \in Containers : \A m \in ToSet(c.mounts) : m.name \in names

\* The credentials path each object store's environment variable points at
\* lies inside the etcd-backup secret volume mounted in the sidecar
\* (getBackupRestoreEnvVars against getBackupRestoreVolumeMounts).
CredentialsUnderMount ==
    Composed =>
      \A e \in ToSet(BackupRestore.env) :
         e.name \in {CredentialsEnv[p] : p \in DOMAIN CredentialsEnv} =>
            \E m \in ToSet(BackupRestore.mounts) :
               m.name = "etcd-backup" /\ IsPrefix(m.path, e.value)

\* For the Local provider the directory the sidecar is told to use
\* (STORAGE_CONTAINER) is the directory where the host-storage volume is
\* mounted.
LocalStoreMounted ==
    (Composed /\ StoreProvider(values) = "Local") =>
      \E m \in ToSet(BackupRestore.mounts) :
         m.name = "host-storage" /\ m.path = EnvValue(BackupRestore, "STORAGE_CONTAINER")

\* The BACKUP_ENDPOINT of the etcd container reaches the sidecar: its host
\* is a host alias of 127.0.0.1 and its port the sidecar's server port.
BackupEndpointReachesSidecar ==
    Composed =>
      LET ep == EnvValue(sts.template.containers[1], "BACKUP_ENDPOINT")
      IN  /\ \E a \in ToSet(sts.template.hostAliases) :
                a.ip = "127.0.0.1" /\ ep.host \in ToSet(a.hostnames)
          /\ ep.port \in {p.port : p \in ToSet(BackupRestore.ports)}

\* Composition is total (spec 4.1): no snapshot makes the composer crash.
ComposeTotal == sts # Panic

\* The pod template carries every label of the selector with the selector's
\* value, as the API server requires of a StatefulSet.
SelectorMatchesTemplate ==
    Composed =>
      \A k \in DOMAIN sts.selector :
         k \in DOMAIN sts.template.labels /\ sts.template.labels[k] = sts.selector[k]

====
