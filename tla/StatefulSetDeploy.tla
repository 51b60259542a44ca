--------------------------- MODULE StatefulSetDeploy ---------------------------
(***************************************************************************)
(* The Synchronizer of pkg/component/etcd/statefulset: Deploy (fetch,      *)
(* topology-migration check, destroy-and-wait, then patch or create) and   *)
(* Destroy, run by the etcd reconcile loop against a platform that keeps   *)
(* one StatefulSet object.  Every API call is one step, so the platform    *)
(* (StatefulSet controller, deletion finalisation), the user (scaling the  *)
(* Etcd) and a restart of the operator process interleave with Deploy.    *)
(*                                                                         *)
(* Data is abstracted to what the migration decision reads: generation,    *)
(* spec.serviceName, spec.replicas and the ready replica count.            *)
(***************************************************************************)
EXTENDS Naturals, FiniteSets

CONSTANTS
    ServiceName,      \* c.values.ServiceName (the peer service)
    OldServiceName,   \* the client service earlier releases put in spec.serviceName
    ReplicaChoices,   \* values etcd.Spec.Replicas can take
    InitGenerations,  \* generations a StatefulSet left by an earlier release can have
    MaxScaleEvents,   \* bound: how often the user changes etcd.Spec.Replicas
    CleanupPolls,     \* WaitCleanup polls before defaultTimeout (90s / 5s)
    MaxCrashes,       \* bound: restarts of the operator process
    ApiErrors         \* whether API calls may fail with a non-NotFound error

ASSUME /\ ServiceName # OldServiceName
       /\ ReplicaChoices \subseteq 1..5
       /\ InitGenerations \subseteq 1..5
       /\ CleanupPolls \in 1..20
       /\ ApiErrors \in BOOLEAN

VARIABLES
    sts,             \* the StatefulSet object held by the platform
    specReplicas,    \* etcd.Spec.Replicas
    statusReplicas,  \* etcd.Status.Replicas, last observed by the reconcile loop
    etcdDeleted,     \* the Etcd resource is being deleted: the loop calls Destroy
    values,          \* c.values of the running Deploy: its snapshot of the Etcd
    pc,              \* where the running operation is
    fetched,         \* the working copy Deploy fetched (stsOriginal)
    polls,           \* WaitCleanup polls done so far
    lastErr,         \* outcome of the last finished operation
    scaleEvents, crashes

vars == <<sts, specReplicas, statusReplicas, etcdDeleted, values, pc,
          fetched, polls, lastErr, scaleEvents, crashes>>

Services == {ServiceName, OldServiceName}
Errors   == {"none", "severe", "notFound", "alreadyExists", "invalid", "timeout"}
ApiFailures == IF ApiErrors THEN BOOLEAN ELSE {FALSE}

\* An object the platform does not have.
NoSts == [exists |-> FALSE, terminating |-> FALSE, generation |-> 0,
          serviceName |-> OldServiceName, replicas |-> 0, readyReplicas |-> 0]

\* emptyStatefulset(): the placeholder, generation 0, no spec.
emptyStatefulset == [generation |-> 0, serviceName |-> OldServiceName, replicas |-> 0]

\* Get into a fresh object: the fields of the working copy.
CopyOf(o) == [generation |-> o.generation, serviceName |-> o.serviceName,
              replicas |-> o.replicas]

clusterScaledUpToMultiNode(val) ==
    /\ val.replicas > 1
    \* Also consider 0: the field was not maintained in earlier releases.
    /\ val.statusReplicas \in {0, 1}

\* Mutant: the migration branch only for generation 3 and above.
MustRecreateFromGeneration3(copy, val) ==
    /\ copy.generation > 2
    /\ copy.serviceName # val.serviceName
    /\ clusterScaledUpToMultiNode(val)

\* Mutant: recreate without comparing spec.serviceName with the desired one.
MustRecreateIgnoringService(copy, val) ==
    /\ copy.generation > 1
    /\ clusterScaledUpToMultiNode(val)

\* The condition of Deploy's topology-migration branch.
MustRecreate(copy, val) ==
    /\ copy.generation > 1
    /\ copy.serviceName # val.serviceName
    /\ clusterScaledUpToMultiNode(val)

Finish(err) == /\ pc' = "idle"
               /\ lastErr' = err

TypeOK ==
    /\ sts \in [exists: BOOLEAN, terminating: BOOLEAN, generation: 0..10,
                serviceName: Services, replicas: 0..5, readyReplicas: 0..5]
    /\ specReplicas \in ReplicaChoices
    /\ statusReplicas \in 0..5
    /\ etcdDeleted \in BOOLEAN
    /\ values \in [replicas: ReplicaChoices, statusReplicas: 0..5, serviceName: Services]
    /\ pc \in {"idle", "destroyStale", "waitCleanup", "sync"}
    /\ fetched \in [generation: 0..10, serviceName: Services, replicas: 0..5]
    /\ polls \in 0..CleanupPolls
    /\ lastErr \in Errors
    /\ scaleEvents \in 0..MaxScaleEvents
    /\ crashes \in 0..MaxCrashes

\* A fresh Etcd has no StatefulSet; one reconciled by an earlier release has a
\* single-member StatefulSet under the client service, whose replica count the
\* status either records or (older releases) leaves at 0.
Init ==
    /\ \/ sts = NoSts /\ statusReplicas = 0
       \/ \E g \in InitGenerations, st \in {0, 1} :
             /\ sts = [exists |-> TRUE, terminating |-> FALSE, generation |-> g,
                       serviceName |-> OldServiceName, replicas |-> 1, readyReplicas |-> 1]
             /\ statusReplicas = st
    /\ specReplicas \in ReplicaChoices
    /\ etcdDeleted = FALSE
    /\ values = [replicas |-> specReplicas, statusReplicas |-> statusReplicas,
                 serviceName |-> ServiceName]
    /\ pc = "idle"
    /\ fetched = emptyStatefulset
    /\ polls = 0
    /\ lastErr = "none"
    /\ scaleEvents = 0
    /\ crashes = 0

-----------------------------------------------------------------------------
(* Deploy: Get, and on NotFound the placeholder; then the migration check. *)
Deploy(fails) ==
    /\ pc = "idle"
    /\ ~etcdDeleted
    /\ LET val == [replicas |-> specReplicas, statusReplicas |-> statusReplicas,
                   serviceName |-> ServiceName]
       IN /\ values' = val
          /\ IF fails
               THEN /\ Finish("severe") /\ UNCHANGED fetched
               ELSE LET copy == IF sts.exists THEN CopyOf(sts) ELSE emptyStatefulset
                    IN /\ fetched' = copy
                       /\ pc' = IF MustRecreate(copy, val) THEN "destroyStale" ELSE "sync"
                       /\ UNCHANGED lastErr
    /\ UNCHANGED <<sts, specReplicas, statusReplicas, etcdDeleted, polls,
                   scaleEvents, crashes>>

\* deleteStatefulset: Delete, NotFound ignored.  A live object gets a deletion
\* timestamp; the platform removes it later.
deleteStatefulset ==
    IF sts.exists THEN [sts EXCEPT !.terminating = TRUE] ELSE sts

\* Mutant: OpDestroy instead of OpDestroyAndWait, create without waiting.
DeployDestroyNoWait(fails) ==
    /\ pc = "destroyStale"
    /\ IF fails
         THEN Finish("severe") /\ UNCHANGED <<sts, polls, fetched>>
         ELSE /\ sts' = deleteStatefulset
              /\ pc' = "sync"
              /\ fetched' = emptyStatefulset
              /\ UNCHANGED <<lastErr, polls>>
    /\ UNCHANGED <<specReplicas, statusReplicas, etcdDeleted, values,
                   scaleEvents, crashes>>

(* OpDestroyAndWait(c).Destroy inside Deploy's migration branch. *)
DeployDestroy(fails) ==
    /\ pc = "destroyStale"
    /\ IF fails
         THEN Finish("severe") /\ UNCHANGED <<sts, polls>>
         ELSE /\ sts' = deleteStatefulset
              /\ pc' = "waitCleanup"
              /\ polls' = 0
              /\ UNCHANGED lastErr
    /\ UNCHANGED <<specReplicas, statusReplicas, etcdDeleted, values, fetched,
                   scaleEvents, crashes>>

\* Mutant: WaitCleanup without its deadline (Until instead of UntilTimeout).
WaitCleanupNoDeadline(fails) ==
    /\ pc = "waitCleanup"
    /\ CASE fails ->
              Finish("severe") /\ UNCHANGED <<fetched, polls>>
         [] ~sts.exists ->
              /\ pc' = "sync"
              /\ fetched' = emptyStatefulset
              /\ UNCHANGED <<polls, lastErr>>
         [] OTHER ->
              /\ polls' = polls + 1
              /\ UNCHANGED <<pc, fetched, lastErr>>
    /\ UNCHANGED <<sts, specReplicas, statusReplicas, etcdDeleted, values,
                   scaleEvents, crashes>>

(* One poll of WaitCleanup: NotFound ends the wait and Deploy continues with *)
(* emptyStatefulset; an object still present means poll again until the     *)
(* deadline; any other error is severe.                                      *)
WaitCleanup(fails) ==
    /\ pc = "waitCleanup"
    /\ CASE fails ->
              Finish("severe") /\ UNCHANGED <<fetched, polls>>
         [] ~sts.exists ->
              /\ pc' = "sync"
              /\ fetched' = emptyStatefulset
              /\ UNCHANGED <<polls, lastErr>>
         [] polls + 1 < CleanupPolls ->
              /\ polls' = polls + 1
              /\ UNCHANGED <<pc, fetched, lastErr>>
         [] OTHER ->
              Finish("timeout") /\ UNCHANGED <<fetched, polls>>
    /\ UNCHANGED <<sts, specReplicas, statusReplicas, etcdDeleted, values,
                   scaleEvents, crashes>>

(* syncStatefulset: Patch when the working copy has a generation, Create     *)
(* otherwise.  The strategic merge patch carries only the fields in which the *)
(* desired spec differs from stsOriginal; the platform rejects a patch that   *)
(* changes the immutable spec.serviceName and one for a missing object, and   *)
(* bumps the generation when the spec changes.                                *)
syncStatefulset(fails) ==
    /\ pc = "sync"
    /\ LET setsService  == fetched.serviceName # values.serviceName
           setsReplicas == fetched.replicas # values.replicas
           patched == [sts EXCEPT
                         !.replicas   = IF setsReplicas THEN values.replicas ELSE @,
                         !.generation = IF setsReplicas /\ values.replicas # sts.replicas
                                          THEN @ + 1 ELSE @]
       IN CASE fails ->
                 Finish("severe") /\ UNCHANGED sts
            [] fetched.generation > 0 /\ ~sts.exists ->
                 Finish("notFound") /\ UNCHANGED sts
            [] fetched.generation > 0 /\ setsService
                                      /\ values.serviceName # sts.serviceName ->
                 Finish("invalid") /\ UNCHANGED sts
            [] fetched.generation > 0 ->
                 Finish("none") /\ sts' = patched
            [] sts.exists ->
                 Finish("alreadyExists") /\ UNCHANGED sts
            [] OTHER ->
                 /\ Finish("none")
                 /\ sts' = [exists |-> TRUE, terminating |-> FALSE, generation |-> 1,
                            serviceName |-> values.serviceName,
                            replicas |-> values.replicas, readyReplicas |-> 0]
    /\ UNCHANGED <<specReplicas, statusReplicas, etcdDeleted, values, fetched,
                   polls, scaleEvents, crashes>>

(* Destroy: the loop's call once the Etcd is being deleted. *)
Destroy(fails) ==
    /\ pc = "idle"
    /\ etcdDeleted
    /\ IF fails THEN Finish("severe") /\ UNCHANGED sts
               ELSE Finish("none") /\ sts' = deleteStatefulset
    /\ UNCHANGED <<specReplicas, statusReplicas, etcdDeleted, values, fetched,
                   polls, scaleEvents, crashes>>

-----------------------------------------------------------------------------
(* Environment: platform, reconcile loop, user, operator restarts.          *)

\* The StatefulSet controller brings one more pod up, or one down, at a time.
StsControllerStep ==
    /\ sts.exists /\ ~sts.terminating
    /\ sts.readyReplicas # sts.replicas
    /\ sts' = [sts EXCEPT !.readyReplicas =
                  IF @ < sts.replicas THEN @ + 1 ELSE @ - 1]
    /\ UNCHANGED <<specReplicas, statusReplicas, etcdDeleted, values, pc,
                   fetched, polls, lastErr, scaleEvents, crashes>>

\* The platform removes a terminating object once its pods are gone.
FinalizeDeletion ==
    /\ sts.terminating
    /\ sts' = NoSts
    /\ UNCHANGED <<specReplicas, statusReplicas, etcdDeleted, values, pc,
                   fetched, polls, lastErr, scaleEvents, crashes>>

\* Between operations the reconcile loop records the observed replica count.
UpdateEtcdStatus ==
    /\ pc = "idle"
    /\ statusReplicas' = sts.readyReplicas
    /\ statusReplicas' # statusReplicas
    /\ UNCHANGED <<sts, specReplicas, etcdDeleted, values, pc, fetched, polls,
                   lastErr, scaleEvents, crashes>>

ScaleEtcd ==
    /\ scaleEvents < MaxScaleEvents
    /\ ~etcdDeleted
    /\ \E r \in ReplicaChoices \ {specReplicas} : specReplicas' = r
    /\ scaleEvents' = scaleEvents + 1
    /\ UNCHANGED <<sts, statusReplicas, etcdDeleted, values, pc, fetched, polls,
                   lastErr, crashes>>

DeleteEtcd ==
    /\ ~etcdDeleted
    /\ etcdDeleted' = TRUE
    /\ UNCHANGED <<sts, specReplicas, statusReplicas, values, pc, fetched, polls,
                   lastErr, scaleEvents, crashes>>

\* The operator process restarts: the running operation is lost.
OperatorRestart ==
    /\ pc # "idle"
    /\ crashes < MaxCrashes
    /\ pc' = "idle"
    /\ crashes' = crashes + 1
    /\ UNCHANGED <<sts, specReplicas, statusReplicas, etcdDeleted, values,
                   fetched, polls, lastErr, scaleEvents>>

Druid ==
    \E f \in ApiFailures :
        \/ Deploy(f) \/ DeployDestroy(f) \/ WaitCleanup(f)
        \/ syncStatefulset(f) \/ Destroy(f)

Environment ==
    \/ StsControllerStep \/ FinalizeDeletion \/ UpdateEtcdStatus
    \/ ScaleEtcd \/ DeleteEtcd \/ OperatorRestart

Next == Druid \/ Environment

(* The loop requeues every Etcd, so a call is retried; an API call retried   *)
(* forever does not fail forever; the platform's controllers make progress.  *)
Fairness ==
    /\ SF_vars(Deploy(FALSE)) /\ SF_vars(DeployDestroy(FALSE))
    /\ SF_vars(WaitCleanup(FALSE)) /\ SF_vars(syncStatefulset(FALSE))
    /\ SF_vars(Destroy(FALSE))
    /\ WF_vars(StsControllerStep) /\ WF_vars(FinalizeDeletion)
    /\ WF_vars(UpdateEtcdStatus)

Spec == Init /\ [][Next]_vars /\ Fairness

-----------------------------------------------------------------------------
(* Properties                                                              *)

\* The StatefulSet runs under the desired service with every replica ready.
Converged ==
    /\ sts.exists /\ ~sts.terminating
    /\ sts.serviceName = ServiceName
    /\ sts.replicas = specReplicas
    /\ sts.readyReplicas = sts.replicas

(* The refinement mapping: the object as StatefulSetObject sees it, without *)
(* its generation and without Druid's working state.                         *)
ObjectView ==
    IF ~sts.exists
    THEN [phase |-> "absent", serviceName |-> OldServiceName, replicas |-> 0, ready |-> 0]
    ELSE [phase       |-> IF sts.terminating THEN "terminating" ELSE "live",
          serviceName |-> sts.serviceName,
          replicas    |-> sts.replicas,
          ready       |-> sts.readyReplicas]

Abs == INSTANCE StatefulSetObject WITH obj <- ObjectView

(* Deploy and Destroy, one API call at a time and interleaved with restarts, *)
(* API errors and a lagging etcd.Status.Replicas, implement StatefulSetObject:*)
(* they create only where there is no object and under the peer service,     *)
(* patch only the replica count, and delete a live StatefulSet only while it *)
(* still runs under the client service or the Etcd is being deleted; in      *)
(* particular a StatefulSet Deploy already migrated is never deleted again    *)
(* (Deploy lines 66-88, syncStatefulset, Destroy).                            *)
SynchronizerRefinesObject == Abs!Spec

(* The migration waits for the old StatefulSet to be gone before it creates *)
(* the new one, so Deploy's Create never meets an existing object            *)
(* (OpDestroyAndWait in Deploy, then Create in syncStatefulset).             *)
NoCreateOverExisting == lastErr # "alreadyExists"

(* A cluster scaled up to several members, whose Etcd is not deleted, ends  *)
(* up as a StatefulSet under the peer service with every member ready, even *)
(* when it starts as a single-member StatefulSet of an earlier release under *)
(* the client service (Deploy's migration path and syncStatefulset).         *)
MigrationCompletes ==
    (specReplicas > 1 /\ ~etcdDeleted) ~> (Converged \/ etcdDeleted)

(* Whatever its replica count, an Etcd that is not deleted ends up with its *)
(* StatefulSet under the desired service and every member ready: Deploy      *)
(* patches what it can patch and recreates what it cannot (Deploy lines      *)
(* 66-88, syncStatefulset lines 166-173).                                    *)
EtcdConverges ==
    ~etcdDeleted ~> (Converged \/ etcdDeleted)

=============================================================================
