-------------------------- MODULE MCKubermaticAgent --------------------------
(***************************************************************************)
(* The TLC instances of KubermaticAgent: dc1 and dc2 are one datacenter,   *)
(* as it is on the first and on the second seed; clu1 is on the first, and *)
(* in the project, clu2 on the second, with a spec that cannot be          *)
(* converted; a key names both.                                            *)
(***************************************************************************)
EXTENDS KubermaticAgent

CONSTANTS
  proj, user, key, seed1, seed2, dc, dc1, dc2, clu1, clu2, LoadBalancer,
  aws, byo, region

MCSeedOf ==
  [o \in Datacenters \cup Clusters |-> IF o \in {dc1, clu1} THEN seed1 ELSE seed2]
MCNameOf == [d \in Datacenters |-> dc]
MCDatacenterOf == [c \in Clusters |-> IF c = clu1 THEN dc1 ELSE dc2]
MCProjectOf == [c \in Clusters |-> IF c = clu1 THEN proj ELSE NoName]
MCOwnersOf ==
  [k \in SSHKeys |-> <<[kind |-> "User", name |-> user],
                       [kind |-> "Project", name |-> proj]>>]
MCAttachedTo == [k \in SSHKeys |-> Clusters]
MCCloudsOf ==
  [o \in Datacenters \cup Clusters |->
     IF o = clu2 THEN {aws, byo} ELSE IF o = dc2 THEN {byo} ELSE {aws}]
MCRegionOf == [d \in Datacenters |-> region]
MCSettingOf == [c \in Clusters |-> NoName]
MCExposeOf == [s \in Seeds |-> IF s = seed1 THEN LoadBalancer ELSE NoName]

=============================================================================
