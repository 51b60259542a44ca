# TLA+ models of the etcd StatefulSet component

This directory holds TLA+ models of `src/pkg/component/etcd/statefulset/statefulset.go`
from etcd-druid, and the TLC configurations that check them. That file is the
component that turns an Etcd's configuration (`Values`) into one StatefulSet and
keeps it in place. `spec.md` is the natural-language specification.

## 1. Inventory

### Components

| Component | Code | State it keeps | Operations |
|---|---|---|---|
| Synchronizer | `Deploy` 66-88, `syncStatefulset` 160-269, `Destroy` 90-97, `deleteStatefulset` 271-273, `clusterScaledUpToMultiNode` 99-104, `Get` 56-64, `emptyStatefulset` 313-320 | No state across calls. Within one call: the fetched working copy (`stsOriginal`) and the values snapshot | Deploy: Get, migration check, destroy-and-wait, patch or create. Destroy: idempotent delete |
| Teardown Waiter | `WaitCleanup` 144-158 | The poll count and the deadline (`defaultInterval` 5 s, `defaultTimeout` 90 s) | One Get per poll. NotFound means done. Present means poll again. Other errors are severe |
| Convergence Waiter | `Wait` 113-142, `fetchPVCEventsFor` 275-300 | One local `sts` reused across polls, the last minor error, the collected messages | Poll until `CheckStatefulSet`. On failure: List claims, then FetchEventMessages per matching claim |
| Spec Composer | `syncStatefulset` spec literal 166-262, `getObjectMeta`, `getCommonLabels`, ports, resources, env, mounts and volumes 322-715 | None (pure) | Compose the StatefulSet spec from `Values` |
| Provider Resolver | backup-store branches of `getBackupRestoreVolumeMounts` 465-494, `getVolumes` 594-627, `getBackupRestoreEnvVars` 637-682 | None (pure) | Provider → mounts, volumes, env |

External collaborators, not under `src/`: the reconcile loop that calls Deploy,
Wait, Destroy and WaitCleanup and updates `etcd.Status.Replicas`; the platform
(API server, informer cache, StatefulSet controller, volume provisioner, garbage
collection); gardener's `retry.UntilTimeout` and `OpDestroyAndWait`;
`utils.CheckStatefulSet`; `utils.StorageProviderFromInfraProvider`;
`kutil.FetchEventMessages`.

### How the components interact

The reconcile loop calls `Deploy`, then `Wait`. When the Etcd is deleted, it
calls `Destroy` (and `WaitCleanup`). In the migration branch, `Deploy` itself
runs `OpDestroyAndWait`, which is `Destroy` followed by `WaitCleanup`, and then
`syncStatefulset`. All interaction with the platform goes through API calls:
Get, Patch (a strategic merge patch computed against the fetched copy),
Create, Delete and List. Between any two calls, the platform moves on. The
cache catches up, the StatefulSet controller observes generations and brings
pods up or down, a terminating object disappears, and claims bind or collect
warning events. The user may also scale the Etcd between reconciles, and the
operator process may restart in the middle of an operation.

### What is hard here

- **Multi-reconcile sequences.** Whether Deploy recreates the StatefulSet
  depends on its generation and serviceName, and on `StatusReplicas`, which
  lags behind the StatefulSet. Some sequences of scaling and status updates
  could delete a healthy multi-member cluster, and others never migrate it.
- **Crash and partial failure in the migration.** The delete can succeed
  while the wait or the create fails or the process restarts. The next
  reconcile must finish the job and must not create over a terminating object.
- **Platform rules the code relies on.** `spec.serviceName` cannot be patched.
  A patch of a vanished object is NotFound. A create over an existing object is
  AlreadyExists.
- **Timeouts.** Both waiters poll until a deadline. At the deadline, the
  timer and the context race.
- **Best-effort diagnostics.** The enrichment must never replace the
  primary error. Its filters (name prefix, phase, the templates of the local
  copy) decide which claims are blamed.

### Properties that make each component correct

- Synchronizer: it implements the abstract object life cycle
  `StatefulSetObject`. It creates only where there is no object, patches only
  the replica count, and deletes only an unmigrated object or on Etcd
  deletion. The migration never creates over an existing object. A scaled-up
  cluster whose StatefulSet has generation 2 or more eventually runs under
  the peer service with every member ready. At generation 1 it does not (see
  `deploy_gen1_stuck`).
- Teardown Waiter: it succeeds only when the object is gone, and it stops at
  its deadline.
- Convergence Waiter: success only for an observed, fully ready rollout. The
  primary error is never masked. Only this StatefulSet's pending claims are
  reported, and every one of them is.
- Composer and Resolver: composition is total. Every mounted volume is
  defined. The selector matches the template labels. Credential env paths
  lie under a mounted path.

The hazards, each at its line, are listed in `PROJECT.json` under "hazards".

## 2. Plan

Modules, in order of importance:

1. **`StatefulSetDeploy`** (done). It models the Synchronizer and, inside it,
   the Teardown Waiter, against the platform.
2. **`StatefulSetWait`** (done). It models the Convergence Waiter and its
   enrichment.
3. **`StatefulSetCompose`** (done). It models the Composer and the Provider
   Resolver as operators over bounded `Values`.
4. **Abstract specification `StatefulSetObject`** (done). `StatefulSetDeploy`
   is checked to implement it through the mapping `ObjectView`.
5. **`StatefulSetReconcile`** (next). It composes Deploy, Wait and
   Destroy/WaitCleanup in one reconcile loop, with `WaitCleanup` after
   `Destroy` as a public operation. It would also check that the StatefulSet
   Deploy writes is the one `StatefulSetCompose` composes.
6. **Fault model for the Wait module** (later): a lost or duplicated event
   list and a cache that goes back in time.

## 3. Modules

### StatefulSetDeploy (Synchronizer + Teardown Waiter)

State:

- `sts`: the platform object, with fields exists, terminating, generation,
  serviceName, replicas and readyReplicas.
- `specReplicas` and `statusReplicas`: the Etcd.
- `values`: the snapshot a Deploy took.
- `pc`: one of idle, destroyStale, waitCleanup and sync.
- `fetched`: the working copy, `stsOriginal`.
- `polls`: WaitCleanup polls done.
- `lastErr`: the outcome of the last operation.

Actions, one per API call, each with a `fails` parameter for a non-NotFound
error:

- `Deploy`: Get, the placeholder on NotFound, and the migration check
  `MustRecreate` (lines 75-78).
- `DeployDestroy`: the delete of `OpDestroyAndWait`.
- `WaitCleanup`: one poll.
- `syncStatefulset`: Patch or Create. The patch carries only the fields that
  differ from `stsOriginal`, as `StrategicMergeFrom` does. The platform
  rejects a patch of `serviceName`, answers NotFound for a vanished object,
  answers AlreadyExists on create, and bumps the generation on a spec change.
- `Destroy`.

Environment actions: `StsControllerStep`, `FinalizeDeletion`,
`UpdateEtcdStatus` (the loop records the ready count while idle), `ScaleEtcd`,
`DeleteEtcd`, and `OperatorRestart` (pc back to idle).

`Init` gives either no StatefulSet, or one left by an earlier release: a
single member under the client service, of generation g ∈ `InitGenerations`,
with `statusReplicas` 0 (never maintained) or 1.

### StatefulSetObject (abstract Synchronizer)

State: `obj`, with a phase (absent, live or terminating), serviceName,
replicas and ready count; `specReplicas`; `etcdDeleted`. Actions: `Create`,
which needs an absent object and uses the peer service; `Scale`, which
changes replicas only; `Retire`, which needs a live object under another
service or a deleted Etcd; and `Finalize`, `PodStep`, `UserScales` and
`UserDeletes`.

`StatefulSetDeploy` defines `ObjectView`, which hides the generation, `pc`,
`fetched`, `values`, `polls`, `lastErr` and the bounds. It checks
`SynchronizerRefinesObject == Abs!Spec`, where
`Abs == INSTANCE StatefulSetObject WITH obj <- ObjectView`. Druid's Get, its
polls and its failed calls are stuttering steps of the abstract spec. So are
a delete of a terminating object and a patch that leaves the replica count as
it is.

### StatefulSetCompose (Spec Composer + Provider Resolver)

State: `values`, the snapshot, drawn from `ValuesSpace`; and `sts`, which is
Nil before the composition step, then the composed StatefulSet or `Panic`.
The single action `Compose` applies `ComposeStatefulSet`, the literal at
lines 166-262 with every getter it calls. Each getter is an operator named
after its Go function: `getObjectMeta`, `getCommonLabels`, `getEtcdPorts`,
`getEtcdEnvVars`, `getEtcdVolumeMounts`, `getSecretVolumeMounts`,
`getBackupRestoreVolumeMounts`, `getBackupPorts`, `getVolumes`,
`getBackupRestoreEnvVars` and the rest. The provider switches are CASEs over
the result of `StorageProviderFromInfraProvider`.

- A path is a sequence of segments. `"/root/etcd-backup/"` and
  `"/root/etcd-backup"` are therefore the same directory, and "lies under" is
  `IsPrefix`.
- `BACKUP_ENDPOINT` is kept as scheme, host and port.
- Images, commands, probes and affinity are copied verbatim from `Values` and
  are left out.
- A nil `Container` or `SecretRef` that the code dereferences makes the
  result `Panic`.

### StatefulSetWait (Convergence Waiter)

State:

- `sts`: the platform object, with fields generation, observedGeneration and
  readyReplicas, and two fields for what a read returns. `visible` is false
  while a read gets NotFound. `lagging` is true while a read still returns
  the object from before Deploy's patch. `Fetched` gives that pre-patch
  object: the previous generation, fully rolled out. `lagging` can only be
  set when the constant `StaleReads` is TRUE.
- `claims`: claim name → bound and warned.
- `pc`: one of poll, list, events and done.
- `tick`, `copy` (whether a Get ever filled in Wait's local sts) and
  `retryErr`.
- `pending`, `messages`, `listed` (the List snapshot) and `waitErr`.
- `reported`: the claims whose warnings the returned error carries.

Actions:

- `Poll`: one run of the condition function, with `RetryOrGiveUp` for
  UntilTimeout's deadline and its race.
- `ListClaims`.
- `FetchClaimEvents`: one claim; a failure drops everything collected.
- `WaitReturns`.

Environment actions: `CacheSyncs`, `ControllerObserves`, `PodBecomesReady`,
`PodFails` and `ProvisionerStep`.

Names are character sequences. `ClaimName(t, s, o)` is `t-s-o`, and the
filter is `IsPrefix(TemplateName \o "-" \o Name, c)`, exactly as
`strings.HasPrefix` of the `Sprintf` result. The error text is abstracted to
its primary error and the set of claims it mentions.

## 4. Runs

| Run | Expect | What it shows |
|---|---|---|
| `deploy_safety` | pass | Covers fresh and earlier-release StatefulSets of generation 1 or 2, scaling 1↔3 three times, two restarts and API errors. Deploy and Destroy implement `StatefulSetObject` (`SynchronizerRefinesObject`). In particular, a StatefulSet already under the peer service is never deleted by Deploy, however the status lags and the user scales. Create never meets an existing object (`NoCreateOverExisting`). |
| `deploy_migration` | pass | An Etcd scaled to 3 whose old StatefulSet has generation 2 eventually converges under the peer service with 3 ready members (`MigrationCompletes`), despite a restart, WaitCleanup timeouts and transient API errors. |
| `deploy_single_member_stuck` | violation | An earlier-release single-member StatefulSet whose Etcd stays at one replica never converges (`EtcdConverges`). Every Deploy patches the immutable `serviceName`. This is a finding (a spec gap), under the assumption that `Values.ServiceName` is the peer service for every replica count. |
| `deploy_gen1_stuck` | violation | The same question with generation 1. Deploy skips the migration, its patch changes `serviceName`, the platform rejects it, and this repeats forever. This is a finding. |
| `wait_safety` | pass | The enrichment never replaces the error (`EnrichmentNeverMasks`). Reported claims were pending and have warnings (`ReportedClaimsAreStuck`). |
| `wait_prefix_collision` | violation | With a StatefulSet `e-v` beside `e`, Wait on `e` reports the claim `d-e-v-0`. This is a finding: there is no separator after the name in the prefix. |
| `wait_unobserved_claims` | violation | If no poll ever found the StatefulSet, the local copy has no templates, so no claim is reported. Spec 4.4 says otherwise. This is a finding. |
| `wait_stale_read` | violation | With `StaleReads`, the first poll after a patch that kept the replica count can read the pre-patch object, and Wait reports success for the old generation (`SuccessOnlyWhenRolledOut`). This is a finding (a spec gap): nothing in the unit ensures a read that reflects the platform's current truth, which spec §3 asks of the fetch in synchronize. |
| `compose_safety` | pass | Covers all 9 provider names (8 known and 1 unknown) and no store, each TLS descriptor and port override set or not, and a priority class set or not, with `Container` and `SecretRef` set. Every container port is valid (`TypeOK`). Every mount names a volume or the claim template (`MountsReferenceVolumes`). Every credentials variable points under the `etcd-backup` mount (`CredentialsUnderMount`). For Local, `STORAGE_CONTAINER` is where `host-storage` is mounted (`LocalStoreMounted`). `BACKUP_ENDPOINT` reaches the sidecar's port through the host alias (`BackupEndpointReachesSidecar`). |
| `compose_total` | violation | A store without `SecretRef`, or a Local store without `Container`, makes `getVolumes` (lines 611, 621) or `getBackupRestoreEnvVars` (line 674) dereference nil. Spec 4.1 says composition is total. This is a finding. |
| `compose_selector` | violation | A user label `instance` overrides the template label that the selector requires, and the platform rejects such a StatefulSet. This is a finding. |

Every property of a passing run has a mutant in `PROJECT.json`, a plausible
bug that TLC must catch:

- the serviceName guard dropped (for the refinement);
- ports without `Int32Deref`'s default;
- OCS missing from the volume switch;
- the object-store secret mounted at another directory;
- the Local bucket mounted at its host path;
- the sidecar port ignoring `BackupPort`;
- OpDestroy without the wait;
- generation > 2 instead of > 1;
- WaitCleanup without its deadline;
- the enrichment error returned instead of the primary one;
- the claim phase filter dropped;
- Wait polling without a deadline (for its type invariant).

### Bounds and why they suffice

- Replicas {1, 3}: both sides of `clusterScaledUpToMultiNode`.
- Generations {1, 2}: both sides of the `> 1` check.
- In `deploy_safety`, three scale events. Two are enough for migrate, then
  scale down, then scale up, the sequence that raises the generation of a
  migrated StatefulSet above 1 while the status still says 1. The third scales
  down again.
- In `deploy_safety`, two restarts, and one in the liveness runs. A restart
  can fall between any two steps of the migration, and twice in one
  migration.
- `CleanupPolls` is 3 in `deploy_safety` and 2 in the liveness runs. The wait
  can both succeed and time out.
- For Wait:
  - 3 polls: NotFound, not ready, then ready or the deadline.
  - 2 replicas: ready counts 0, 1 and 2.
  - 2 own claims and 1 sibling claim.
  - Generations 1 and 2, with the status one behind or current.
- For Compose, 1,280 snapshots. Every provider branch is taken. The 2 TLS
  descriptors give every mount prefix. One non-default server and backup port
  tells `Int32Deref`'s two outcomes apart. A second label set tells
  overriding user labels from other ones. Each field the properties do not
  read has one value.

### Fairness

`StatefulSetDeploy` uses strong fairness on the successful outcome of each
API call. The reconcile loop requeues an Etcd until Deploy succeeds, so a call
is attempted infinitely often, and the platform is assumed not to fail the
same call forever. It uses weak fairness on the StatefulSet controller,
deletion finalisation and the status update. There is no fairness on the
user, Etcd deletion or restarts, which are also bounded.

`StatefulSetWait` uses weak fairness on the waiter. Its runs are safety only.
The Wait returns, after which the system may stop, so those configurations
say `CHECK_DEADLOCK FALSE`.

`StatefulSetCompose` has no fairness. It takes one composition step per
snapshot, and its configurations say `CHECK_DEADLOCK FALSE` because nothing
follows that step. `StatefulSetObject` is checked as a safety refinement only.

## 5. Not modelled (yet) and why

- The link between the two models of `syncStatefulset`: `StatefulSetDeploy`
  keeps only serviceName and replicas of the spec, and `StatefulSetCompose`
  composes the whole spec without the patch. A composition module is planned.
- Immutable image, command, probe, affinity and topology fields: they are
  copied from `Values` verbatim, and no property reads them.
- How `Values` are built (`ServiceName` per replica count,
  `StatusReplicas`): not under `src/`. The model assumes one `ServiceName`,
  the peer service, for every replica count. The comment at lines 76-77 ("must
  be changed when a multi-node cluster is used") suggests the values may keep
  the client service for a single-member Etcd. If they do, the finding of
  `deploy_single_member_stuck` does not apply.
- The status count 0 at line 102: no property tells it apart from the guard
  itself (see its hazard in `PROJECT.json`).
- Concurrent Deploys for one Etcd: the reconcile loop's work queue serialises
  them (spec §5), so no interleaving of two Deploys is modelled.
- Cancellation of the caller's context: it surfaces as a severe error, which
  the `fails` parameter already covers.
- Logging, formatting of messages, and the cap of 2 events per claim: no
  property distinguishes them.
