------------------------ MODULE KubermaticAgent_proofs ------------------------
(***************************************************************************)
(* What a stored record of the kubermatic agent says, proved for all       *)
(* objects and references, with and without API servers that keep them:    *)
(* the lists of one collection are taken at different times, and what is   *)
(* related to what nevertheless holds.                                     *)
(***************************************************************************)
EXTENDS KubermaticAgent, SequenceTheorems, TLAPS

-----------------------------------------------------------------------------
\* The conversions.

LEMMA NameTypes ==
  /\ \A x \in Names \cup {NoName} : UUID(x) \in UUIDs
  /\ \A s \in Seeds \cup Projects \cup Users \cup SSHKeys \cup Clusters : s \in Names
  /\ NoSeed \notin KubeSeed
  /\ NoRecord \in Record
PROOF
  <1>1. \A s \in Seeds \cup Projects \cup Users \cup SSHKeys \cup Clusters : s \in Names
    BY DEF Names, Objects
  <1>2. NoSeed \notin KubeSeed
    BY <1>1, AgentAssumption DEF NoSeed, KubeSeed
  <1>3. QED
    BY <1>1, <1>2 DEF UUIDs, NoRecord, Record

LEMMA UUIDInjective == \A x, y : UUID(x) = UUID(y) => x = y
BY DEF UUID

LEMMA CloudProviderNameType ==
  ASSUME NEW o \in Datacenters \cup Clusters
  PROVE  CloudProviderName(o) \in Provider
BY AgentAssumption DEF CloudProviderName, Provider

LEMMA DatacenterFromKubeType ==
  ASSUME NEW d \in Datacenters
  PROVE  DatacenterFromKube(d) \in Datacenter
PROOF
  <1>1. UUID(NameOf[d]) \in UUIDs
    BY NameTypes DEF Names
  <1>2. QED
    BY <1>1, CloudProviderNameType
       DEF DatacenterFromKube, Datacenter, DatacenterCloudRegionName

LEMMA SeedFromKubeType ==
  ASSUME NEW s \in KubeSeed, expose \in Strategies
  PROVE  SeedFromKube(s) \in Seed
PROOF
  <1>1. s.name \in Seeds /\ s.datacenters \subseteq Datacenters
    BY DEF KubeSeed
  <1>2. UUID(s.name) \in UUIDs
    BY <1>1, NameTypes
  <1>3. {DatacenterFromKube(d) : d \in s.datacenters} \in SUBSET Datacenter
    BY <1>1, DatacenterFromKubeType
  <1>4. ExposeOf[s.name] \in Strategies \cup {NoName}
    BY <1>1, AgentAssumption
  <1>5. QED
    BY <1>2, <1>3, <1>4 DEF SeedFromKube, Seed

LEMMA ClusterFromKubeType ==
  ASSUME NEW c \in Clusters, NEW s \in KubeSeed
  PROVE  ClusterFromKube(c, s) \in Cluster
PROOF
  <1>1. UUID(c) \in UUIDs /\ UUID(s.name) \in UUIDs /\ UUID(ProjectOf[c]) \in UUIDs
    BY NameTypes, AgentAssumption DEF KubeSeed
  <1>2. UUID(NameOf[DatacenterOf[c]]) \in UUIDs
    BY NameTypes, AgentAssumption DEF Names
  <1>3. SettingOf[c] \in BOOLEAN \cup {NoName}
    BY AgentAssumption
  <1>4. Setting(c) \in BOOLEAN
    BY DEF Setting
  <1>5. QED
    BY <1>1, <1>2, <1>4, CloudProviderNameType DEF ClusterFromKube, Cluster

LEMMA SSHKeyFromKubeType ==
  ASSUME NEW k \in SSHKeys
  PROVE  SSHKeyFromKube(k) \in SSHKey
PROOF
  <1>1. OwnerProject(k) \in UUIDs \cup {NoName}
    <2>1. \A i \in DOMAIN OwnersOf[k] : OwnersOf[k][i].name \in Projects \cup Users
      <3> DEFINE Owner == [kind : {"Project", "User"}, name : Projects \cup Users]
      <3>1. OwnersOf[k] \in Seq(Owner)
        BY AgentAssumption
      <3>2. DOMAIN OwnersOf[k] = 1 .. Len(OwnersOf[k])
        BY <3>1
      <3> HIDE DEF Owner
      <3>3. \A i \in DOMAIN OwnersOf[k] : OwnersOf[k][i] \in Owner
        BY <3>1, <3>2, ElementOfSeq
      <3>4. QED
        BY <3>3 DEF Owner
    <2>2. \A i \in DOMAIN OwnersOf[k] : UUID(OwnersOf[k][i].name) \in UUIDs
      BY <2>1, NameTypes
    <2>3. QED
      BY <2>2 DEF OwnerProject
  <1>2. {UUID(c) : c \in AttachedTo[k]} \in SUBSET UUIDs
    BY AgentAssumption, NameTypes
  <1>3. UUID(k) \in UUIDs
    BY NameTypes
  <1>4. QED
    BY <1>1, <1>2, <1>3 DEF SSHKeyFromKube, SSHKey

-----------------------------------------------------------------------------
\* The invariant.  Each list of the master cluster, once taken, has all that
\* was there throughout and nothing that never was.

AfterSeeds == {"loop", "clusters", "seed", "stored"}
AfterKeys == {"seeds"} \cup AfterSeeds
AfterUsers == {"keys"} \cup AfterKeys
AfterProjects == {"users"} \cup AfterUsers
AfterConfig == {"projects"} \cup AfterProjects

MasterInv ==
  /\ pc \in AfterConfig => expose \in Strategies
  /\ pc \in AfterProjects =>
       /\ {UUID(p) : p \in Projects \cap steady} \subseteq record.projects
       /\ record.projects \subseteq {UUID(p) : p \in Projects \cap seen}
  /\ pc \in AfterUsers =>
       /\ {UUID(u) : u \in Users \cap steady} \subseteq record.users
       /\ record.users \subseteq {UUID(u) : u \in Users \cap seen}
  /\ pc \in AfterKeys =>
       /\ \A k \in SSHKeys \cap steady : SSHKeyFromKube(k) \in record.keys
       /\ \A r \in record.keys : \E k \in SSHKeys \cap seen : r = SSHKeyFromKube(k)

\* The seeds of the loop are those of one list, with their datacenters.
ListedInv(listed) ==
  /\ \A s \in listed :
       /\ s.name \in seen
       /\ \A d \in s.datacenters : d \in seen /\ SeedOf[d] = s.name
       /\ \A d \in Datacenters \cap steady :
            SeedOf[d] = s.name => d \in s.datacenters
  /\ \A n \in Seeds \cap steady : \E s \in listed : s.name = n
  /\ \A s, t \in listed : \A d \in s.datacenters, e \in t.datacenters :
       NameOf[d] = NameOf[e] => d = e
  /\ \A s, t \in listed : s.name = t.name => s = t

\* Those that are not to come are recorded, or the one of the loop body; of a
\* seed that is recorded, or about to be, the clusters are.
Unrecorded == todo \cup (IF seed = NoSeed THEN {} ELSE {seed})

LoopInv(listed) ==
  /\ Unrecorded \subseteq listed
  /\ seed \notin todo
  /\ pc \in {"loop", "stored"} => seed = NoSeed
  /\ pc \in {"clusters", "seed"} => seed \in listed
  /\ pc = "stored" => todo = {}
  /\ record.seeds = {SeedFromKube(s) : s \in listed \ Unrecorded}
  /\ \A c \in record.clusters :
       \E s \in listed \ todo : \E x \in Clusters \cap seen :
         SeedOf[x] = s.name /\ c = ClusterFromKube(x, s)
  /\ \A s \in listed \ todo : s # seed \/ pc = "seed" =>
       \A x \in Clusters \cap steady :
         SeedOf[x] = s.name => ClusterFromKube(x, s) \in record.clusters

SeedsInv ==
  /\ pc \in AfterSeeds =>
       \E listed \in SUBSET KubeSeed : ListedInv(listed) /\ LoopInv(listed)
  /\ pc \notin AfterSeeds \cup {"failed"} =>
       todo = {} /\ seed = NoSeed /\ record.seeds = {} /\ record.clusters = {}

AgentInv == TypeOK /\ Consistent(live) /\ MasterInv /\ SeedsInv

-----------------------------------------------------------------------------
\* The types.

LEMMA InitInv == Init => AgentInv
PROOF
  <1> SUFFICES ASSUME Init PROVE AgentInv
    OBVIOUS
  <1>1. TypeOK
    BY NameTypes DEF Init, TypeOK
  <1>2. MasterInv /\ SeedsInv
    BY DEF Init, MasterInv, SeedsInv, AfterConfig, AfterProjects, AfterUsers,
           AfterKeys, AfterSeeds, NoRecord
  <1>3. QED
    BY <1>1, <1>2 DEF Init, AgentInv

LEMMA CurrentSeed == SeedsInv /\ pc \in {"clusters", "seed"} => seed \in KubeSeed
BY DEF SeedsInv, AfterSeeds, ListedInv, LoopInv

LEMMA NextType ==
  ASSUME AgentInv, [Next]_vars
  PROVE  TypeOK'
PROOF
  <1> USE DEF AgentInv, TypeOK, Step
  <1>1. CASE ServerVersion
    BY <1>1 DEF ServerVersion
  <1>2. CASE GetConfig
    <2>1. expose' \in Strategies
      BY <1>2, AgentAssumption DEF GetConfig
    <2>2. QED
      BY <1>2, <2>1 DEF GetConfig
  <1>3. CASE ListProjects
    <2>1. {UUID(p) : p \in Projects \cap live} \in SUBSET UUIDs
      BY NameTypes
    <2>2. record' \in Record
      BY <1>3, <2>1 DEF ListProjects, Record
    <2>3. QED
      BY <1>3, <2>2 DEF ListProjects
  <1>4. CASE ListUsers
    <2>1. {UUID(u) : u \in Users \cap live} \in SUBSET UUIDs
      BY NameTypes
    <2>2. record' \in Record
      BY <1>4, <2>1 DEF ListUsers, Record
    <2>3. QED
      BY <1>4, <2>2 DEF ListUsers
  <1>5. CASE ListSSHKeys
    <2>1. {SSHKeyFromKube(k) : k \in SSHKeys \cap live} \in SUBSET SSHKey
      BY SSHKeyFromKubeType
    <2>2. record' \in Record
      BY <1>5, <2>1 DEF ListSSHKeys, Record
    <2>3. QED
      BY <1>5, <2>2 DEF ListSSHKeys
  <1>6. CASE ListSeeds
    <2>1. todo' \subseteq KubeSeed
      BY <1>6 DEF ListSeeds, KubeSeed
    <2>2. QED
      BY <1>6, <2>1 DEF ListSeeds
  <1>7. CASE SeedClient
    BY <1>7 DEF SeedClient
  <1>8. CASE ListClusters
    <2> DEFINE items == {c \in Clusters \cap live : SeedOf[c] = seed.name}
    <2>1. seed \in KubeSeed
      BY <1>8, CurrentSeed DEF ListClusters
    <2>2. {ClusterFromKube(c, seed) : c \in items} \in SUBSET Cluster
      BY <2>1, ClusterFromKubeType
    <2>3. record' \in Record
      BY <1>8, <2>2 DEF ListClusters, Record
    <2>4. QED
      BY <1>8, <2>3 DEF ListClusters
  <1>9. CASE AddSeed
    <2>1. seed \in KubeSeed
      BY <1>9, CurrentSeed DEF AddSeed
    <2>2. expose \in Strategies
      BY <1>9 DEF AddSeed, MasterInv, AfterConfig, AfterProjects, AfterUsers,
                  AfterKeys, AfterSeeds
    <2>3. record' \in Record
      BY <1>9, <2>1, <2>2, SeedFromKubeType DEF AddSeed, Record
    <2>4. QED
      BY <1>9, <2>3 DEF AddSeed
  <1>10. CASE Store
    BY <1>10 DEF Store
  <1>11. CASE Fail
    BY <1>11 DEF Fail
  <1>12. ASSUME NEW o \in Objects, Create(o) \/ Delete(o) PROVE TypeOK'
    BY <1>12 DEF Create, Delete
  <1>13. CASE UNCHANGED vars
    BY <1>13 DEF vars
  <1>14. QED
    BY <1>1, <1>2, <1>3, <1>4, <1>5, <1>6, <1>7, <1>8, <1>9, <1>10, <1>11,
       <1>12, <1>13 DEF Next, Collect, APIServers

-----------------------------------------------------------------------------
\* The lists of the master cluster.

\* Objects coming and going weaken what the invariants ask.
LEMMA APIServersStep ==
  ASSUME AgentInv, NEW o \in Objects, Create(o) \/ Delete(o)
  PROVE  /\ steady' \subseteq steady /\ seen \subseteq seen'
         /\ Consistent(live)'
         /\ UNCHANGED <<pc, expose, todo, seed, record>>
BY DEF Create, Delete, Consistent

LEMMA NextMaster ==
  ASSUME AgentInv, [Next]_vars
  PROVE  MasterInv'
PROOF
  <1> USE DEF AgentInv, TypeOK, MasterInv, Step, AfterConfig, AfterProjects,
              AfterUsers, AfterKeys, AfterSeeds
  <1>1. CASE ServerVersion
    BY <1>1 DEF ServerVersion
  <1>2. CASE GetConfig
    <2>1. expose' \in Strategies
      BY <1>2, AgentAssumption DEF GetConfig
    <2>2. QED
      BY <1>2, <2>1 DEF GetConfig
  <1>3. CASE ListProjects
    <2>1. record'.projects = {UUID(p) : p \in Projects \cap live}
      BY <1>3 DEF ListProjects, Record
    <2>2. QED
      BY <1>3, <2>1 DEF ListProjects
  <1>4. CASE ListUsers
    <2>1. /\ record'.users = {UUID(u) : u \in Users \cap live}
          /\ record'.projects = record.projects
      BY <1>4 DEF ListUsers, Record
    <2>2. QED
      BY <1>4, <2>1 DEF ListUsers
  <1>5. CASE ListSSHKeys
    <2>1. /\ record'.keys = {SSHKeyFromKube(k) : k \in SSHKeys \cap live}
          /\ record'.projects = record.projects /\ record'.users = record.users
      BY <1>5 DEF ListSSHKeys, Record
    <2>2. QED
      BY <1>5, <2>1 DEF ListSSHKeys
  <1>6. CASE ListSeeds \/ SeedClient \/ Store
    BY <1>6 DEF ListSeeds, SeedClient, Store
  <1>7. CASE ListClusters \/ AddSeed
    <2>1. /\ record'.projects = record.projects /\ record'.users = record.users
          /\ record'.keys = record.keys
      BY <1>7 DEF ListClusters, AddSeed, Record
    <2>2. QED
      BY <1>7, <2>1 DEF ListClusters, AddSeed
  <1>8. CASE Fail
    BY <1>8 DEF Fail
  <1>9. ASSUME NEW o \in Objects, Create(o) \/ Delete(o) PROVE MasterInv'
    <2>1. SSHKeys \cap steady' \subseteq SSHKeys \cap steady
      BY <1>9, APIServersStep
    <2>2. QED
      BY <1>9, <2>1, APIServersStep
  <1>10. CASE UNCHANGED vars
    BY <1>10 DEF vars
  <1>11. QED
    BY <1>1, <1>2, <1>3, <1>4, <1>5, <1>6, <1>7, <1>8, <1>9, <1>10
       DEF Next, Collect, APIServers

-----------------------------------------------------------------------------
\* The seeds and their clusters.

LEMMA ListSeedsInv ==
  ASSUME AgentInv, ListSeeds, NEW listed, listed = todo'
  PROVE  ListedInv(listed)' /\ LoopInv(listed)'
PROOF
  <1> DEFINE Of(n) == [name |-> n,
                       datacenters |-> {d \in Datacenters \cap live : SeedOf[d] = n}]
  <1>1. listed = {Of(n) : n \in Seeds \cap live}
    BY DEF ListSeeds
  <1>2. /\ steady' \subseteq live /\ live \subseteq seen'
        /\ seed' = NoSeed /\ record'.seeds = {} /\ record'.clusters = {}
        /\ pc' = "loop"
    BY DEF ListSeeds, Step, AgentInv, TypeOK, SeedsInv, AfterSeeds
  <1>3. \A s \in listed :
          /\ s.name \in Seeds \cap live
          /\ s.datacenters = {d \in Datacenters \cap live : SeedOf[d] = s.name}
    BY <1>1
  <1>4. \A n \in Seeds \cap live : \E s \in listed : s.name = n
    <2> TAKE n \in Seeds \cap live
    <2>1. Of(n) \in listed /\ Of(n).name = n
      BY <1>1
    <2>2. QED
      BY <2>1
  <1>5. \A s, t \in listed : s.name = t.name => s = t
    <2>1. \A s \in listed : s = Of(s.name)
      BY <1>1
    <2> HIDE DEF Of
    <2>2. QED
      BY <2>1
  <1>6. \A d, e \in live \cap Datacenters : NameOf[d] = NameOf[e] => d = e
    BY DEF AgentInv, Consistent
  <1>7. ListedInv(listed)'
    BY <1>2, <1>3, <1>4, <1>5, <1>6 DEF ListedInv
  <1>8. NoSeed \notin listed
    BY <1>3, NameTypes, AgentAssumption DEF NoSeed
  <1>9. LoopInv(listed)'
    BY <1>2, <1>8 DEF LoopInv, Unrecorded
  <1>10. QED
    BY <1>7, <1>9

\* What has been listed stays as it is while objects come and go.
LEMMA ListedStays ==
  ASSUME NEW listed, ListedInv(listed), steady' \subseteq steady, seen \subseteq seen'
  PROVE  ListedInv(listed)'
BY DEF ListedInv

LEMMA LoopStays ==
  ASSUME NEW listed, LoopInv(listed), steady' \subseteq steady, seen \subseteq seen',
         UNCHANGED <<pc, expose, todo, seed, record>>
  PROVE  LoopInv(listed)'
PROOF
  <1> USE DEF LoopInv
  <1>1. UNCHANGED Unrecorded /\ \A s : UNCHANGED SeedFromKube(s)
    BY DEF Unrecorded, SeedFromKube
  <1>2. \A s : \A c : UNCHANGED ClusterFromKube(c, s)
    BY DEF ClusterFromKube
  <1>3. Clusters \cap steady' \subseteq Clusters \cap steady
    OBVIOUS
  <1>4. Clusters \cap seen \subseteq Clusters \cap seen'
    OBVIOUS
  <1>5. QED
    BY <1>1, <1>3, <1>4

LEMMA SeedClientInv ==
  ASSUME NEW listed \in SUBSET KubeSeed, LoopInv(listed), SeedClient
  PROVE  LoopInv(listed)'
PROOF
  <1> USE DEF SeedClient, Step
  <1>1. seed = NoSeed /\ pc' = "clusters" /\ NoSeed \notin listed
    BY NameTypes DEF LoopInv
  <1>2. PICK s \in todo : seed' = s /\ todo' = todo \ {s}
    OBVIOUS
  <1>3. s \in listed /\ s # NoSeed
    BY <1>1 DEF LoopInv, Unrecorded
  <1>4. Unrecorded' = Unrecorded
    BY <1>1, <1>2, <1>3 DEF Unrecorded
  <1>5. record'.seeds = {SeedFromKube(t)' : t \in listed \ Unrecorded'}
    BY <1>4 DEF LoopInv, SeedFromKube
  <1>6. \A c \in record'.clusters :
          \E t \in listed \ todo' : \E x \in Clusters \cap seen' :
            SeedOf[x] = t.name /\ c = ClusterFromKube(x, t)
    BY <1>2 DEF LoopInv
  <1>7. \A t \in listed \ todo' : t # seed' =>
          \A x \in Clusters \cap steady' :
            SeedOf[x] = t.name => ClusterFromKube(x, t) \in record'.clusters
    BY <1>1, <1>2 DEF LoopInv
  <1>8. QED
    BY <1>1, <1>2, <1>3, <1>4, <1>5, <1>6, <1>7 DEF LoopInv

LEMMA ListClustersInv ==
  ASSUME TypeOK, NEW listed \in SUBSET KubeSeed, LoopInv(listed), ListClusters
  PROVE  LoopInv(listed)'
PROOF
  <1> DEFINE items == {c \in Clusters \cap live : SeedOf[c] = seed.name}
  <1> USE DEF ListClusters, Step
  <1>1. pc' = "seed" /\ seed \in listed /\ seed \notin todo
    BY DEF LoopInv
  <1>2. /\ record'.seeds = record.seeds
        /\ record'.clusters =
             record.clusters \cup {ClusterFromKube(c, seed) : c \in items}
    BY DEF TypeOK, Record
  <1>3. UNCHANGED <<Unrecorded, todo, seed, steady, seen>>
    BY DEF Unrecorded
  <1>4. record'.seeds = {SeedFromKube(t)' : t \in listed \ Unrecorded'}
    BY <1>2, <1>3 DEF LoopInv, SeedFromKube
  <1>5. ASSUME NEW c \in record'.clusters
        PROVE  \E t \in listed \ todo : \E x \in Clusters \cap seen :
                 SeedOf[x] = t.name /\ c = ClusterFromKube(x, t)
    <2>1. CASE c \in record.clusters
      BY <2>1 DEF LoopInv
    <2>2. CASE \E x \in items : c = ClusterFromKube(x, seed)
      BY <1>1, <2>2 DEF TypeOK
    <2>3. QED
      BY <1>2, <1>5, <2>1, <2>2
  <1>6. ASSUME NEW t \in listed \ todo, NEW x \in Clusters \cap steady,
               SeedOf[x] = t.name
        PROVE  ClusterFromKube(x, t) \in record'.clusters
    <2>1. CASE t = seed
      BY <1>2, <1>6, <2>1 DEF TypeOK
    <2>2. CASE t # seed
      BY <1>2, <1>6, <2>2 DEF LoopInv
    <2>3. QED
      BY <2>1, <2>2
  <1>7. QED
    BY <1>1, <1>3, <1>4, <1>5, <1>6 DEF LoopInv

LEMMA AddSeedInv ==
  ASSUME TypeOK, NEW listed \in SUBSET KubeSeed, LoopInv(listed), AddSeed
  PROVE  LoopInv(listed)'
PROOF
  <1> USE DEF AddSeed, Step
  <1>1. /\ pc = "seed" /\ pc' = "loop" /\ seed' = NoSeed /\ todo' = todo
        /\ seed \in listed /\ seed \notin todo
        /\ NoSeed \notin listed
    BY NameTypes DEF LoopInv
  <1>2. /\ record'.seeds = record.seeds \cup {SeedFromKube(seed)}
        /\ record'.clusters = record.clusters
    BY DEF TypeOK, Record
  <1>3. Unrecorded = todo \cup {seed} /\ Unrecorded' = todo
    BY <1>1 DEF Unrecorded
  <1>4. \A t \in listed : SeedFromKube(t)' = SeedFromKube(t)
    BY DEF SeedFromKube
  <1>5. record'.seeds = {SeedFromKube(t)' : t \in listed \ Unrecorded'}
    BY <1>1, <1>2, <1>3, <1>4 DEF LoopInv
  <1>6. QED
    BY <1>1, <1>2, <1>3, <1>5 DEF LoopInv

LEMMA StoreInv ==
  ASSUME NEW listed \in SUBSET KubeSeed, LoopInv(listed), Store
  PROVE  LoopInv(listed)'
PROOF
  <1> USE DEF Store, Step
  <1>1. UNCHANGED Unrecorded /\ \A t \in listed : SeedFromKube(t)' = SeedFromKube(t)
    BY DEF Unrecorded, SeedFromKube
  <1>2. QED
    BY <1>1 DEF LoopInv

LEMMA NextSeeds ==
  ASSUME AgentInv, [Next]_vars
  PROVE  SeedsInv'
PROOF
  <1> USE DEF AgentInv, Step
  <1> DEFINE Loops(listed) == ListedInv(listed) /\ LoopInv(listed)
  <1>1. CASE ServerVersion \/ GetConfig \/ ListProjects \/ ListUsers \/ ListSSHKeys
    BY <1>1 DEF ServerVersion, GetConfig, ListProjects, ListUsers, ListSSHKeys,
                SeedsInv, AfterSeeds, TypeOK, Record
  <1>2. CASE ListSeeds
    <2>1. todo' \in SUBSET KubeSeed /\ pc' = "loop"
      BY <1>2, NextType DEF ListSeeds, TypeOK
    <2>2. PICK listed \in SUBSET KubeSeed : listed = todo'
      BY <2>1
    <2>3. Loops(listed)'
      BY <1>2, <2>2, ListSeedsInv
    <2>4. QED
      BY <2>1, <2>3 DEF SeedsInv, AfterSeeds
  <1>3. ASSUME SeedClient \/ ListClusters \/ AddSeed \/ Store
        PROVE  SeedsInv'
    <2>1. /\ pc \in AfterSeeds /\ pc' \in AfterSeeds
          /\ steady' = steady /\ seen' = seen
      BY <1>3 DEF SeedClient, ListClusters, AddSeed, Store, AfterSeeds
    <2>2. PICK listed \in SUBSET KubeSeed : Loops(listed)
      BY <2>1 DEF SeedsInv
    <2>3. ListedInv(listed)'
      BY <2>1, <2>2, ListedStays
    <2>4. LoopInv(listed)'
      BY <1>3, <2>2, SeedClientInv, ListClustersInv, AddSeedInv, StoreInv
    <2>5. QED
      BY <2>1, <2>3, <2>4 DEF SeedsInv
  <1>4. CASE Fail
    BY <1>4 DEF Fail, SeedsInv, AfterSeeds
  <1>5. ASSUME steady' \subseteq steady, seen \subseteq seen',
               UNCHANGED <<pc, expose, todo, seed, record>>
        PROVE  SeedsInv'
    <2>1. CASE pc \in AfterSeeds
      <3>1. PICK listed \in SUBSET KubeSeed : Loops(listed)
        BY <2>1 DEF SeedsInv
      <3>2. ListedInv(listed)' /\ LoopInv(listed)'
        BY <1>5, <3>1, ListedStays, LoopStays
      <3>3. QED
        BY <1>5, <2>1, <3>2 DEF SeedsInv
    <2>2. CASE pc \notin AfterSeeds
      BY <1>5, <2>2 DEF SeedsInv
    <2>3. QED
      BY <2>1, <2>2
  <1>6. ASSUME NEW o \in Objects, Create(o) \/ Delete(o) PROVE SeedsInv'
    BY <1>5, <1>6, APIServersStep
  <1>7. CASE UNCHANGED vars
    BY <1>5, <1>7 DEF vars
  <1>8. QED
    BY <1>1, <1>2, <1>3, <1>4, <1>6, <1>7 DEF Next, Collect, APIServers

LEMMA AgentInvariant == Spec => []AgentInv
PROOF
  <1>1. ASSUME AgentInv, [Next]_vars
        PROVE  Consistent(live)'
    <2>1. ASSUME NEW o \in Objects, Create(o) \/ Delete(o) PROVE Consistent(live)'
      BY <1>1, <2>1, APIServersStep
    <2>2. CASE Collect \/ UNCHANGED vars
      <3>1. UNCHANGED live
        BY <2>2 DEF Collect, vars, Step, ServerVersion, GetConfig, ListProjects,
                    ListUsers, ListSSHKeys, ListSeeds, SeedClient, ListClusters,
                    AddSeed, Store, Fail
      <3>2. QED
        BY <1>1, <3>1 DEF AgentInv, Consistent
    <2>3. QED
      BY <1>1, <2>1, <2>2 DEF Next, APIServers
  <1>2. AgentInv /\ [Next]_vars => AgentInv'
    BY <1>1, NextType, NextMaster, NextSeeds DEF AgentInv
  <1>3. QED
    BY <1>2, InitInv, PTL DEF Spec

-----------------------------------------------------------------------------
\* What is stored.

\* All seeds of the list are recorded, each with its clusters.
StoredFrom(listed) ==
  /\ ListedInv(listed)
  /\ record.seeds = {SeedFromKube(s) : s \in listed}
  /\ \A c \in record.clusters :
       \E s \in listed : \E x \in Clusters \cap seen :
         SeedOf[x] = s.name /\ c = ClusterFromKube(x, s)
  /\ \A s \in listed : \A x \in Clusters \cap steady :
       SeedOf[x] = s.name => ClusterFromKube(x, s) \in record.clusters

LEMMA StoredIsListed ==
  ASSUME AgentInv, pc = "stored"
  PROVE  \E listed \in SUBSET KubeSeed : StoredFrom(listed)
PROOF
  <1>1. PICK listed \in SUBSET KubeSeed : ListedInv(listed) /\ LoopInv(listed)
    BY DEF AgentInv, SeedsInv, AfterSeeds
  <1>2. todo = {} /\ seed = NoSeed /\ NoSeed \notin listed
    BY <1>1, NameTypes DEF LoopInv
  <1>3. Unrecorded = {}
    BY <1>2 DEF Unrecorded
  <1>4. StoredFrom(listed)
    BY <1>1, <1>2, <1>3 DEF LoopInv, StoredFrom
  <1>5. QED
    BY <1>4

\* A steady cluster of a steady seed, or the UUID of one, is recorded.
LEMMA SteadyClusterStored ==
  ASSUME NEW listed, StoredFrom(listed),
         NEW x \in Clusters \cap steady, SeedOf[x] \in steady
  PROVE  UUID(x) \in UUIDsIn(record.clusters)
PROOF
  <1>1. PICK s \in listed : s.name = SeedOf[x]
    BY AgentAssumption DEF StoredFrom, ListedInv
  <1>2. ClusterFromKube(x, s) \in record.clusters
    BY <1>1 DEF StoredFrom
  <1>3. ClusterFromKube(x, s).uuid = UUID(x)
    BY DEF ClusterFromKube
  <1>4. QED
    BY <1>2, <1>3 DEF UUIDsIn

LEMMA StoredSeeds ==
  ASSUME NEW listed, StoredFrom(listed)
  PROVE  /\ \A r \in record.seeds : \E s \in listed :
              /\ r.uuid = UUID(s.name)
              /\ r.datacenters = {DatacenterFromKube(d) : d \in s.datacenters}
              /\ r = SeedFromKube(s)
         /\ \A s \in listed :
              /\ SeedFromKube(s) \in record.seeds
              /\ SeedFromKube(s).uuid = UUID(s.name)
              /\ SeedFromKube(s).datacenters = {DatacenterFromKube(d) : d \in s.datacenters}
PROOF
  <1>1. \A s :
          /\ SeedFromKube(s).uuid = UUID(s.name)
          /\ SeedFromKube(s).datacenters = {DatacenterFromKube(d) : d \in s.datacenters}
    BY DEF SeedFromKube
  <1>2. QED
    BY <1>1 DEF StoredFrom

LEMMA WithinInterval == AgentInv => StoredWithinInterval
PROOF
  <1> SUFFICES ASSUME AgentInv, pc = "stored" PROVE StoredWithinInterval
    BY DEF StoredWithinInterval
  <1>1. PICK listed \in SUBSET KubeSeed : StoredFrom(listed)
    BY StoredIsListed
  <1> DEFINE datacenters == UNION {s.datacenters : s \in record.seeds}
  <1>2. /\ {UUID(p) : p \in Projects \cap steady} \subseteq record.projects
        /\ record.projects \subseteq {UUID(p) : p \in Projects \cap seen}
        /\ {UUID(u) : u \in Users \cap steady} \subseteq record.users
        /\ record.users \subseteq {UUID(u) : u \in Users \cap seen}
    BY DEF AgentInv, MasterInv, AfterProjects, AfterUsers, AfterKeys, AfterSeeds
  <1>3. /\ {UUID(k) : k \in SSHKeys \cap steady} \subseteq UUIDsIn(record.keys)
        /\ UUIDsIn(record.keys) \subseteq {UUID(k) : k \in SSHKeys \cap seen}
    <2>1. /\ \A k \in SSHKeys \cap steady : SSHKeyFromKube(k) \in record.keys
          /\ \A r \in record.keys : \E k \in SSHKeys \cap seen : r = SSHKeyFromKube(k)
      BY DEF AgentInv, MasterInv, AfterKeys, AfterSeeds
    <2>2. \A k : SSHKeyFromKube(k).uuid = UUID(k)
      BY DEF SSHKeyFromKube
    <2>3. QED
      BY <2>1, <2>2 DEF UUIDsIn
  <1>4. /\ {UUID(s) : s \in Seeds \cap steady} \subseteq UUIDsIn(record.seeds)
        /\ UUIDsIn(record.seeds) \subseteq {UUID(s) : s \in Seeds \cap seen}
    <2>1. ASSUME NEW n \in Seeds \cap steady
          PROVE  UUID(n) \in UUIDsIn(record.seeds)
      <3>1. PICK s \in listed : s.name = n
        BY <1>1 DEF StoredFrom, ListedInv
      <3>2. SeedFromKube(s) \in record.seeds /\ SeedFromKube(s).uuid = UUID(n)
        BY <1>1, <3>1, StoredSeeds
      <3>3. QED
        BY <3>2 DEF UUIDsIn
    <2>2. ASSUME NEW r \in record.seeds
          PROVE  \E n \in Seeds \cap seen : r.uuid = UUID(n)
      <3>1. PICK s \in listed : r.uuid = UUID(s.name)
        BY <1>1, StoredSeeds
      <3>2. s.name \in Seeds \cap seen
        BY <1>1 DEF StoredFrom, ListedInv, KubeSeed
      <3>3. QED
        BY <3>1, <3>2
    <2>3. QED
      BY <2>1, <2>2 DEF UUIDsIn
  <1>5. /\ {UUID(c) : c \in OfSteadySeed(Clusters) \cap steady}
             \subseteq UUIDsIn(record.clusters)
        /\ UUIDsIn(record.clusters) \subseteq {UUID(c) : c \in Clusters \cap seen}
    <2>1. \A c \in OfSteadySeed(Clusters) \cap steady :
            UUID(c) \in UUIDsIn(record.clusters)
      BY <1>1, SteadyClusterStored DEF OfSteadySeed
    <2>2. \A r \in record.clusters : \E c \in Clusters \cap seen : r.uuid = UUID(c)
      BY <1>1 DEF StoredFrom, ClusterFromKube
    <2>3. QED
      BY <2>1, <2>2 DEF UUIDsIn
  <1>6. \A d \in OfSteadySeed(Datacenters \cap steady) :
          DatacenterFromKube(d) \in datacenters
    <2> TAKE d \in OfSteadySeed(Datacenters \cap steady)
    <2>1. d \in Datacenters \cap steady /\ SeedOf[d] \in Seeds \cap steady
      BY AgentAssumption DEF OfSteadySeed
    <2>2. PICK s \in listed : s.name = SeedOf[d]
      BY <1>1, <2>1 DEF StoredFrom, ListedInv
    <2>3. d \in s.datacenters
      BY <1>1, <2>1, <2>2 DEF StoredFrom, ListedInv
    <2>4. QED
      BY <1>1, <2>3, StoredSeeds
  <1>7. \A r \in datacenters : \E d \in Datacenters \cap seen : r = DatacenterFromKube(d)
    <2> TAKE r \in datacenters
    <2>1. PICK s \in listed : \E d \in s.datacenters : r = DatacenterFromKube(d)
      BY <1>1, StoredSeeds
    <2>2. \A d \in s.datacenters : d \in Datacenters \cap seen
      BY <1>1 DEF StoredFrom, ListedInv, KubeSeed
    <2>3. QED
      BY <2>1, <2>2
  <1>8. {DatacenterFromKube(d) : d \in Datacenters \cap OfSteadySeed(Datacenters \cap steady)}
          \subseteq datacenters
    BY <1>6
  <1>9. datacenters \subseteq {DatacenterFromKube(d) : d \in Datacenters \cap seen}
    BY <1>7
  <1>10. QED
    BY <1>2, <1>3, <1>4, <1>5, <1>8, <1>9, Zenon DEF StoredWithinInterval

LEMMA Links == AgentInv => LinksResolve
PROOF
  <1> SUFFICES ASSUME AgentInv, pc = "stored" PROVE LinksResolve
    BY DEF LinksResolve
  <1>1. PICK listed \in SUBSET KubeSeed : StoredFrom(listed)
    BY StoredIsListed
  <1>2. \A p \in Projects \cap steady : UUID(p) \in record.projects
    BY DEF AgentInv, MasterInv, AfterProjects, AfterUsers, AfterKeys, AfterSeeds
  <1>3. ASSUME NEW c \in record.clusters
        PROVE  /\ c.seed \in UUIDsIn(record.seeds)
               /\ \E s \in record.seeds :
                    /\ s.uuid = c.seed
                    /\ \A d \in Datacenters \cap steady :
                         UUID(NameOf[d]) = c.datacenter /\ UUID(SeedOf[d]) = c.seed
                           => DatacenterFromKube(d) \in s.datacenters
    <2>1. PICK s \in listed : c.seed = UUID(s.name)
      BY <1>1 DEF StoredFrom, ClusterFromKube
    <2>2. /\ SeedFromKube(s) \in record.seeds
          /\ SeedFromKube(s).uuid = c.seed
          /\ SeedFromKube(s).datacenters = {DatacenterFromKube(d) : d \in s.datacenters}
      BY <1>1, <2>1, StoredSeeds
    <2>3. \A d \in Datacenters \cap steady :
            UUID(SeedOf[d]) = c.seed => d \in s.datacenters
      BY <1>1, <2>1, UUIDInjective DEF StoredFrom, ListedInv
    <2>4. QED
      BY <2>2, <2>3 DEF UUIDsIn
  <1>4. \A x \in OfSteadySeed(Clusters) \cap steady : UUID(x) \in UUIDsIn(record.clusters)
    BY <1>1, SteadyClusterStored DEF OfSteadySeed
  <1>5. QED
    BY <1>2, <1>3, <1>4 DEF LinksResolve

LEMMA Unique == AgentInv => DatacentersUnique
PROOF
  <1> SUFFICES ASSUME AgentInv, pc = "stored" PROVE DatacentersUnique
    BY DEF DatacentersUnique
  <1>1. PICK listed \in SUBSET KubeSeed : StoredFrom(listed)
    BY StoredIsListed
  <1> SUFFICES ASSUME NEW q \in record.seeds, NEW r \in record.seeds,
                      UUIDsIn(q.datacenters) \cap UUIDsIn(r.datacenters) # {}
               PROVE  q = r
    BY DEF DatacentersUnique
  <1>2. PICK s \in listed : q = SeedFromKube(s)
                              /\ q.datacenters = {DatacenterFromKube(d) : d \in s.datacenters}
    BY <1>1, StoredSeeds
  <1>3. PICK t \in listed : r = SeedFromKube(t)
                              /\ r.datacenters = {DatacenterFromKube(d) : d \in t.datacenters}
    BY <1>1, StoredSeeds
  <1>4. PICK d \in s.datacenters, e \in t.datacenters : UUID(NameOf[d]) = UUID(NameOf[e])
    BY <1>2, <1>3 DEF UUIDsIn, DatacenterFromKube
  <1>5. d = e
    BY <1>1, <1>4, UUIDInjective DEF StoredFrom, ListedInv
  <1>6. s.name = t.name
    BY <1>1, <1>5 DEF StoredFrom, ListedInv
  <1>7. s = t
    BY <1>1, <1>6 DEF StoredFrom, ListedInv
  <1>8. QED
    BY <1>2, <1>3, <1>7

-----------------------------------------------------------------------------
\* Type correctness of Collect, whatever the API servers hold: an expose
\* strategy is always set, an optional setting always decided.
THEOREM AgentTypeCorrect == Spec => []TypeOK
PROOF
  <1>1. AgentInv => TypeOK
    BY DEF AgentInv
  <1>2. QED
    BY <1>1, AgentInvariant, PTL

\* What existed throughout a collection is stored, what never did is not (v2
\* agent.go:92-187), for any number of objects and lists that see different
\* moments.
THEOREM CollectWithinInterval == Spec => []StoredWithinInterval
BY WithinInterval, AgentInvariant, PTL

\* The references of a stored record lead to what they name unless that came
\* or went during the collection (v2 agent.go:157-177).
THEOREM CollectLinks == Spec => []LinksResolve
BY Links, AgentInvariant, PTL

\* No datacenter is stored of two seeds (v2/types/record.go:60-61), however
\* often it moves while the seeds are worked on.
THEOREM CollectDatacentersUnique == Spec => []DatacentersUnique
BY Unique, AgentInvariant, PTL

=============================================================================
