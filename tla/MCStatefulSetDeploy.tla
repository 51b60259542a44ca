------------------------- MODULE MCStatefulSetDeploy -------------------------
(* Model-checking instance of StatefulSetDeploy. *)
EXTENDS StatefulSetDeploy

\* Single member and three members: the two sides of clusterScaledUpToMultiNode.
MCReplicaChoices == {1, 3}
\* An Etcd that stays single-member.
MCSingleReplica == {1}
\* Only the case the liveness run asks about: an already scaled-up Etcd.
MCScaledReplicas == {3}
\* Generations of a StatefulSet left by an earlier release.
MCUpdatedGenerations == {2}
MCNeverUpdatedGenerations == {1}
MCAllGenerations == {1, 2}
=============================================================================
