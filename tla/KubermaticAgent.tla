--------------------------- MODULE KubermaticAgent ---------------------------
(***************************************************************************)
(* kubermaticAgent.Collect, v1 and v2: one record is gathered with a list  *)
(* call per kind of object, and one list of clusters per seed.  Each list  *)
(* sees an API server as it is at that moment; between two of them objects *)
(* come and go.  The first error ends the collection: nothing is stored.   *)
(*                                                                         *)
(* The API servers are external.  They answer a list with the objects they *)
(* hold or with an error, and objects are made, deleted and made again at  *)
(* any time.  Of an object the model keeps its name, the names it refers   *)
(* to, which Collect turns into UUIDs, and the fields the conversions look *)
(* at; fields that are copied are left out.                                *)
(***************************************************************************)
EXTENDS Naturals, Sequences, FiniteSets

CONSTANTS
  Projects, Users, SSHKeys,     \* names of objects of the master cluster,
  Seeds, Datacenters, Clusters, \* with the seeds, their datacenters and the
                                \* clusters on them
  SeedOf,                       \* the seed of a datacenter or cluster
  NameOf,                       \* the name of a datacenter: one that moves
                                \* to another seed is two of Datacenters
  DatacenterOf,                 \* the datacenter of a cluster
  ProjectOf,                    \* its project label, NoName if it has none
  OwnersOf,                     \* the owner references of a key
  AttachedTo,                   \* the clusters a key names
  Providers, CloudsOf,          \* the cloud providers, and those the spec of
                                \* a datacenter or cluster has set
  Regional, RegionOf,           \* the providers with a region the agents know,
                                \* and that of a datacenter
  SettingOf,                    \* an optional setting of a cluster
  Strategies,                   \* the expose strategies
  ExposeOf,                     \* that of a seed, NoName if it is not set
  DefaultExposeStrategy,        \* of the defaulting package
  NoName,                       \* the empty string, or the nil pointer
  Referential                   \* whether the API servers keep an object as
                                \* long as another one needs it

Objects == UNION {Projects, Users, SSHKeys, Seeds, Datacenters, Clusters}
Names == Objects \cup {NameOf[d] : d \in Datacenters}

ASSUME AgentAssumption ==
  /\ SeedOf \in [Datacenters \cup Clusters -> Seeds]
  /\ DOMAIN NameOf = Datacenters
  /\ DatacenterOf \in [Clusters -> Datacenters]
  /\ \A c \in Clusters : SeedOf[DatacenterOf[c]] = SeedOf[c]
  /\ ProjectOf \in [Clusters -> Projects \cup {NoName}]
  /\ OwnersOf \in [SSHKeys -> Seq([kind : {"Project", "User"},
                                  name : Projects \cup Users])]
  /\ AttachedTo \in [SSHKeys -> SUBSET Clusters]
  /\ CloudsOf \in [Datacenters \cup Clusters -> SUBSET Providers]
  /\ Regional \subseteq Providers
  /\ DOMAIN RegionOf = Datacenters
  /\ SettingOf \in [Clusters -> BOOLEAN \cup {NoName}]
  /\ ExposeOf \in [Seeds -> Strategies \cup {NoName}]
  /\ DefaultExposeStrategy \in Strategies
  /\ NoName \notin UNION {Names, Strategies, Providers}
  /\ Referential \in BOOLEAN

VARIABLES
  live,    \* the objects the API servers hold
  pc,      \* where Collect is
  expose,  \* the default expose strategy it has found
  todo,    \* the seeds, as they were listed, that the loop has not come to
  seed,    \* the seed of the loop body
  record,  \* the record Collect is building
  steady,  \* history: the objects that have existed ever since its start
  seen     \* history: the objects that have existed at some time since

vars == <<live, pc, expose, todo, seed, record, steady, seen>>

\* generateUUID hashes any name, the empty one included.
UUID(x) == [uuid |-> x]
UUIDs == {UUID(x) : x \in Names \cup {NoName}}

\* The first owner reference that is a project.
OwnerProject(k) ==
  LET owners == OwnersOf[k]
      First(i) == /\ owners[i].kind = "Project"
                  /\ \A j \in 1 .. i - 1 : owners[j].kind # "Project"
  IN IF \E i \in DOMAIN owners : First(i)
       THEN UUID(owners[CHOOSE i \in DOMAIN owners : First(i)].name)
       ELSE NoName

SSHKeyFromKube(k) ==
  [uuid |-> UUID(k), owner |-> OwnerProject(k),
   clusters |-> {UUID(c) : c \in AttachedTo[k]}]

\* A spec of more than one provider cannot be converted; one of none has the
\* provider "".
Malformed(o) == \E p, q \in CloudsOf[o] : p # q

CloudProviderName(o) ==
  IF CloudsOf[o] = {} THEN NoName ELSE CHOOSE p \in Providers : p \in CloudsOf[o]

DatacenterCloudRegionName(d, provider) ==
  IF provider \in Regional THEN RegionOf[d] ELSE NoName

DatacenterFromKube(d) ==
  [uuid |-> UUID(NameOf[d]), provider |-> CloudProviderName(d),
   region |-> DatacenterCloudRegionName(d, CloudProviderName(d))]

\* Mutant of SeedFromKube: an expose strategy that is not set stays so.
SeedFromKubeUnset(s) ==
  [uuid |-> UUID(s.name),
   expose |-> ExposeOf[s.name],
   datacenters |-> {DatacenterFromKube(d) : d \in s.datacenters}]

SeedFromKube(s) ==
  [uuid |-> UUID(s.name),
   expose |-> IF ExposeOf[s.name] = NoName THEN expose ELSE ExposeOf[s.name],
   datacenters |-> {DatacenterFromKube(d) : d \in s.datacenters}]

\* A setting that is not set is recorded as off.
Setting(c) == SettingOf[c] # NoName /\ SettingOf[c]

ClusterFromKube(c, s) ==
  [uuid |-> UUID(c), seed |-> UUID(s.name), project |-> UUID(ProjectOf[c]),
   datacenter |-> UUID(NameOf[DatacenterOf[c]]),
   provider |-> CloudProviderName(c), setting |-> Setting(c)]

Provider == Providers \cup {NoName}

SSHKey == [uuid : UUIDs, owner : UUIDs \cup {NoName}, clusters : SUBSET UUIDs]

Datacenter ==
  [uuid : UUIDs, provider : Provider,
   region : {RegionOf[d] : d \in Datacenters} \cup {NoName}]

Seed == [uuid : UUIDs, expose : Strategies, datacenters : SUBSET Datacenter]

Cluster ==
  [uuid : UUIDs, seed : UUIDs, project : UUIDs, datacenter : UUIDs,
   provider : Provider, setting : BOOLEAN]

Record ==
  [projects : SUBSET UUIDs, users : SUBSET UUIDs, keys : SUBSET SSHKey,
   seeds : SUBSET Seed, clusters : SUBSET Cluster]

NoRecord ==
  [projects |-> {}, users |-> {}, keys |-> {}, seeds |-> {}, clusters |-> {}]

KubeSeed == [name : Seeds, datacenters : SUBSET Datacenters]
NoSeed == [name |-> NoName, datacenters |-> {}]

\* The objects an object names, and does not exist without.
Needs(o) ==
  (IF o \in Datacenters \cup Clusters THEN {SeedOf[o]} ELSE {})
    \cup (IF o \in Clusters THEN {DatacenterOf[o], ProjectOf[o]} ELSE {})

\* A name is that of one datacenter, in all seeds.
Consistent(objects) ==
  /\ \A d, e \in objects \cap Datacenters : NameOf[d] = NameOf[e] => d = e
  /\ Referential => \A o \in objects : Needs(o) \subseteq objects \cup {NoName}

Init ==
  /\ live \in SUBSET Objects
  /\ Consistent(live)
  /\ pc \in {"version", "config"}
  /\ expose = NoName
  /\ todo = {}
  /\ seed = NoSeed
  /\ record = NoRecord
  /\ steady = live
  /\ seen = live

-----------------------------------------------------------------------------
\* The API servers.
Create(o) ==
  /\ o \notin live
  /\ live' = live \cup {o}
  /\ Consistent(live')
  /\ seen' = seen \cup {o}
  /\ UNCHANGED <<pc, expose, todo, seed, record, steady>>

Delete(o) ==
  /\ o \in live
  /\ live' = live \ {o}
  /\ Consistent(live')
  /\ steady' = steady \ {o}
  /\ UNCHANGED <<pc, expose, todo, seed, record, seen>>

-----------------------------------------------------------------------------
\* A step of Collect from p to q.
Step(p, q) == pc = p /\ pc' = q /\ UNCHANGED <<live, steady, seen>>

\* v1 asks for the version of the API server first.
ServerVersion ==
  /\ Step("version", "config")
  /\ UNCHANGED <<expose, todo, seed, record>>

\* The KubermaticConfiguration (v1 lists them in all namespaces, v2 in that
\* of Kubermatic): there must be one, and one only.
GetConfig ==
  /\ Step("config", "projects")
  /\ \E configs \in SUBSET (Strategies \cup {NoName}) :
       /\ Cardinality(configs) = 1
       /\ \E c \in configs :
            expose' = IF c = NoName THEN DefaultExposeStrategy ELSE c
  /\ UNCHANGED <<todo, seed, record>>

ListProjects ==
  /\ Step("projects", "users")
  /\ record' = [record EXCEPT !.projects = {UUID(p) : p \in Projects \cap live}]
  /\ UNCHANGED <<expose, todo, seed>>

ListUsers ==
  /\ Step("users", "keys")
  /\ record' = [record EXCEPT !.users = {UUID(u) : u \in Users \cap live}]
  /\ UNCHANGED <<expose, todo, seed>>

ListSSHKeys ==
  /\ Step("keys", "seeds")
  /\ record' = [record EXCEPT
       !.keys = {SSHKeyFromKube(k) : k \in SSHKeys \cap live}]
  /\ UNCHANGED <<expose, todo, seed>>

\* The datacenters of a seed are part of it, and are not read again.
ListSeeds ==
  /\ Step("seeds", "loop")
  /\ todo' = {[name |-> s,
               datacenters |-> {d \in Datacenters \cap live : SeedOf[d] = s}] :
                 s \in Seeds \cap live}
  /\ UNCHANGED <<expose, seed, record>>

\* The loop body for one seed: its client, ...
SeedClient ==
  /\ Step("loop", "clusters")
  /\ \E s \in todo :
       /\ seed' = s
       /\ todo' = todo \ {s}
  /\ UNCHANGED <<expose, record>>

\* Mutant of ListClusters: a cluster that cannot be converted is skipped.
ListClustersSkipping ==
  /\ Step("clusters", "seed")
  /\ LET items == {c \in Clusters \cap live : SeedOf[c] = seed.name} IN
       record' = [record EXCEPT
         !.clusters = @ \cup {ClusterFromKube(c, seed) : c \in {i \in items : ~Malformed(i)}}]
  /\ UNCHANGED <<expose, todo, seed>>

\* ... the clusters it has, ...
ListClusters ==
  /\ Step("clusters", "seed")
  /\ LET items == {c \in Clusters \cap live : SeedOf[c] = seed.name} IN
       /\ \A c \in items : ~Malformed(c)
       /\ record' = [record EXCEPT
            !.clusters = @ \cup {ClusterFromKube(c, seed) : c \in items}]
  /\ UNCHANGED <<expose, todo, seed>>

\* Mutant of AddSeed: the seed is read again, after its clusters.
AddSeedFresh ==
  /\ Step("seed", "loop")
  /\ LET fresh == {d \in Datacenters \cap live : SeedOf[d] = seed.name} IN
       record' = [record EXCEPT
         !.seeds = @ \cup {SeedFromKube([seed EXCEPT !.datacenters = fresh])}]
  /\ seed' = NoSeed
  /\ UNCHANGED <<expose, todo>>

\* ... and the seed itself.
AddSeed ==
  /\ Step("seed", "loop")
  /\ \A d \in seed.datacenters : ~Malformed(d)
  /\ record' = [record EXCEPT !.seeds = @ \cup {SeedFromKube(seed)}]
  /\ seed' = NoSeed
  /\ UNCHANGED <<expose, todo>>

\* Mutant of Store: the loop ends with a seed to come.
StoreEarly ==
  /\ Step("loop", "stored")
  /\ Cardinality(todo) <= 1
  /\ UNCHANGED <<expose, todo, seed, record>>

\* The record is complete and is handed to the data store.
Store ==
  /\ Step("loop", "stored")
  /\ todo = {}
  /\ UNCHANGED <<expose, todo, seed, record>>

\* Any call may fail, and Collect returns its error; so it does that of a
\* spec it cannot convert and of a missing or ambiguous configuration.
Fail ==
  /\ pc \notin {"stored", "failed"}
  /\ pc' = "failed"
  /\ UNCHANGED <<live, expose, todo, seed, record, steady, seen>>

Collect ==
  \/ ServerVersion
  \/ GetConfig
  \/ ListProjects
  \/ ListUsers
  \/ ListSSHKeys
  \/ ListSeeds
  \/ SeedClient
  \/ ListClusters
  \/ AddSeed
  \/ Store
  \/ Fail

\* After its end a collection does not see the API servers any more.
APIServers ==
  /\ pc \notin {"stored", "failed"}
  /\ \E o \in Objects : Create(o) \/ Delete(o)

Next == Collect \/ APIServers

Spec == Init /\ [][Next]_vars

-----------------------------------------------------------------------------
TypeOK ==
  /\ live \subseteq Objects
  /\ steady \subseteq live
  /\ live \subseteq seen
  /\ seen \subseteq Objects
  /\ pc \in {"version", "config", "projects", "users", "keys", "seeds", "loop",
             "clusters", "seed", "stored", "failed"}
  /\ expose \in Strategies \cup {NoName}
  /\ todo \subseteq KubeSeed
  /\ seed \in KubeSeed \cup {NoSeed}
  /\ record \in Record

UUIDsIn(items) == {i.uuid : i \in items}

OfSteadySeed(objects) == {o \in objects : SeedOf[o] \in steady}

\* Everything that existed from the start of the collection to its end is in
\* the stored record, and nothing is that did not exist in between, although
\* the lists of one collection are taken at different times (v2 agent.go:92-187,
\* v1 agent.go:82-175).  A cluster, or datacenter, whose seed was away for a
\* while may be missed with it.
StoredWithinInterval ==
  pc = "stored" =>
    LET Within(must, may, uuids) ==
          /\ {UUID(o) : o \in must \cap steady} \subseteq uuids
          /\ uuids \subseteq {UUID(o) : o \in may \cap seen}
        OfDatacenters(objects) ==
          {DatacenterFromKube(d) : d \in Datacenters \cap objects}
        datacenters == UNION {s.datacenters : s \in record.seeds}
    IN /\ Within(Projects, Projects, record.projects)
       /\ Within(Users, Users, record.users)
       /\ Within(SSHKeys, SSHKeys, UUIDsIn(record.keys))
       /\ Within(Seeds, Seeds, UUIDsIn(record.seeds))
       /\ Within(OfSteadySeed(Clusters), Clusters, UUIDsIn(record.clusters))
       /\ OfDatacenters(OfSteadySeed(Datacenters \cap steady)) \subseteq datacenters
       /\ datacenters \subseteq OfDatacenters(seen)

\* In the stored record a cluster leads to its seed, always, and to its
\* datacenter and project, a key to its owner and its clusters, unless these
\* came or went during the collection (v2 agent.go:157-177 and 269-280,
\* types/record.go:82-86).
LinksResolve ==
  pc = "stored" =>
    /\ \A c \in record.clusters :
         /\ c.seed \in UUIDsIn(record.seeds)
         /\ c.project \in record.projects
              \/ c.project \notin {UUID(p) : p \in Projects \cap steady}
         /\ \E s \in record.seeds :
              /\ s.uuid = c.seed
              /\ \A d \in Datacenters \cap steady :
                   UUID(NameOf[d]) = c.datacenter /\ UUID(SeedOf[d]) = c.seed
                     => DatacenterFromKube(d) \in s.datacenters
    /\ \A k \in record.keys :
         /\ k.owner \in record.projects
              \/ k.owner \notin {UUID(p) : p \in Projects \cap steady}
         /\ \A c \in k.clusters :
              c \in UUIDsIn(record.clusters)
                \/ c \notin {UUID(d) : d \in OfSteadySeed(Clusters) \cap steady}

\* "Each DC must have a globally unique identifier (i.e. names must be unique
\* across all seeds)" (v2/types/record.go:60-61): in a stored record no
\* datacenter is one of two seeds, although datacenters move between seeds
\* while the seeds are worked on one after the other (v2 agent.go:140-178).
DatacentersUnique ==
  pc = "stored" =>
    \A s, t \in record.seeds :
      UUIDsIn(s.datacenters) \cap UUIDsIn(t.datacenters) # {} => s = t

\* "ProjectUUID helps to uniquely relate this cluster with the owned project"
\* (v2/types/record.go:85): the project of a recorded cluster is recorded.
\* Checked with API servers that never hold a cluster without its project.
ProjectsResolve ==
  pc = "stored" =>
    \A c \in record.clusters :
      c.project = UUID(NoName) \/ c.project \in record.projects

=============================================================================
