-------------------------- MODULE MCStatefulSetWait --------------------------
(* Model-checking instance of StatefulSetWait: an Etcd "e" with claim template *)
(* "d" and two members, and a second StatefulSet "e-v" in the same namespace.  *)
EXTENDS StatefulSetWait

MCName == <<"e">>
MCSiblingName == <<"e", "-", "v">>
MCTemplateName == <<"d">>
MCOrdinals == {"0", "1"}
MCOwnClaims == {ClaimName(MCTemplateName, MCName, o) : o \in MCOrdinals}
MCSiblingClaim == ClaimName(MCTemplateName, MCSiblingName, "0")
MCClaimsWithSibling == MCOwnClaims \cup {MCSiblingClaim}
MCInitGenerations == {1, 2}
=============================================================================
