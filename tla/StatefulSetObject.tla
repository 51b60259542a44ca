-------------------------- MODULE StatefulSetObject --------------------------
(***************************************************************************)
(* What the Synchronizer promises about the one StatefulSet of an Etcd,    *)
(* with Deploy and Destroy taken as if each were a single atomic write:    *)
(*   - it creates the object only where there is none, and always under    *)
(*     the desired service;                                                *)
(*   - it changes a live object's replica count, never its service;        *)
(*   - it deletes a live object only when the object still runs under      *)
(*     another service (topology migration) or the Etcd is being deleted.  *)
(* The platform finalises deletions and moves the ready count one pod at   *)
(* a time; the user scales and deletes the Etcd.                           *)
(***************************************************************************)
EXTENDS Naturals

CONSTANTS ServiceName, OldServiceName, ReplicaChoices

VARIABLES
    obj,            \* the StatefulSet: its phase, spec.serviceName, spec.replicas, ready count
    specReplicas,   \* etcd.Spec.Replicas
    etcdDeleted     \* the Etcd resource is being deleted

vars == <<obj, specReplicas, etcdDeleted>>

Absent == [phase |-> "absent", serviceName |-> OldServiceName, replicas |-> 0, ready |-> 0]

\* A fresh Etcd, or one a single-member StatefulSet of an earlier release serves.
Init ==
    /\ obj \in {Absent, [phase |-> "live", serviceName |-> OldServiceName,
                          replicas |-> 1, ready |-> 1]}
    /\ specReplicas \in ReplicaChoices
    /\ etcdDeleted = FALSE

\* syncStatefulset's Create, on a fetched placeholder.
Create ==
    /\ obj.phase = "absent"
    /\ \E r \in ReplicaChoices :
          obj' = [phase |-> "live", serviceName |-> ServiceName, replicas |-> r, ready |-> 0]
    /\ UNCHANGED <<specReplicas, etcdDeleted>>

\* syncStatefulset's Patch: the replica count, from some snapshot of the Etcd.
Scale ==
    /\ obj.phase = "live"
    /\ \E r \in ReplicaChoices \ {obj.replicas} : obj' = [obj EXCEPT !.replicas = r]
    /\ UNCHANGED <<specReplicas, etcdDeleted>>

\* deleteStatefulset, from Deploy's migration branch or from Destroy.
Retire ==
    /\ obj.phase = "live"
    /\ obj.serviceName # ServiceName \/ etcdDeleted
    /\ obj' = [obj EXCEPT !.phase = "terminating"]
    /\ UNCHANGED <<specReplicas, etcdDeleted>>

Finalize ==
    /\ obj.phase = "terminating"
    /\ obj' = Absent
    /\ UNCHANGED <<specReplicas, etcdDeleted>>

PodStep ==
    /\ obj.phase = "live"
    /\ obj.ready # obj.replicas
    /\ obj' = [obj EXCEPT !.ready = IF @ < obj.replicas THEN @ + 1 ELSE @ - 1]
    /\ UNCHANGED <<specReplicas, etcdDeleted>>

UserScales ==
    /\ ~etcdDeleted
    /\ \E r \in ReplicaChoices \ {specReplicas} : specReplicas' = r
    /\ UNCHANGED <<obj, etcdDeleted>>

UserDeletes ==
    /\ ~etcdDeleted
    /\ etcdDeleted' = TRUE
    /\ UNCHANGED <<obj, specReplicas>>

Next ==
    \/ Create \/ Scale \/ Retire
    \/ Finalize \/ PodStep \/ UserScales \/ UserDeletes

Spec == Init /\ [][Next]_vars

====
