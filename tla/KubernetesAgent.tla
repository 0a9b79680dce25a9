--------------------------- MODULE KubernetesAgent ---------------------------
(***************************************************************************)
(* kubernetesAgent.Collect, v1 and v2, in consecutive runs against one API *)
(* server: the version, one list of all nodes, the conversion of each, and *)
(* a record stored.  Nodes come, go and change between any two steps.      *)
(*                                                                         *)
(* The API server is external.  A string is a sequence of characters where *)
(* the code concatenates it or compares it with ""; the name of a resource *)
(* is a number, in the order of strings.  ExternalIP is in v2 only.        *)
(***************************************************************************)
EXTENDS Naturals, Sequences, FiniteSets, SequencesExt

CONSTANTS
  Names,        \* of nodes
  MachineIDs,   \* "" if not populated
  SystemUUIDs,  \* of no given form
  Details,      \* the other fields of a node: operating system, provider ID
                \* (split at "://"), addresses, and capacity by resource
  Nil,          \* the nil pointer
  MaxChanges,   \* bound: changes at the API server
  MaxRecords    \* bound: records stored

Chars == UNION {UNION {ToSet(s) : s \in S} : S \in {Names, MachineIDs, SystemUUIDs}}

ASSUME NodesAssumption ==
  /\ \A s \in Names \cup MachineIDs \cup SystemUUIDs : s \in Seq(Chars)
  /\ <<>> \notin Names
  /\ \A d \in Details :
       /\ DOMAIN d.capacity \subseteq Nat /\ IsFiniteSet(DOMAIN d.capacity)
       /\ d.providerID # <<>>
       /\ DOMAIN d.addresses \subseteq Nat
       /\ \A i \in DOMAIN d.addresses : d.addresses[i].address # Nil
  /\ Nil # <<>>
  /\ MaxChanges \in Nat
  /\ MaxRecords \in Nat

VARIABLES
  kube,     \* the nodes the API server holds
  changes,  \* how often they have changed; the next UID
  pc,       \* where Collect is
  items,    \* the nodes listed, those not converted yet
  nodes,    \* record.Nodes
  list,     \* history: all nodes listed, of this run
  moments,  \* history: what the API server has held during this run
  records   \* the nodes of each record stored, with what was listed for it

vars == <<kube, changes, pc, items, nodes, list, moments, records>>

KubeNode ==
  [uid : 0..MaxChanges, name : Names, machineID : MachineIDs,
   systemUUID : SystemUUIDs, detail : Details]

-----------------------------------------------------------------------------
HashOf(str) == [md5 |-> str]

StrPtr(str) == IF str = <<>> THEN Nil ELSE str

Unknown == <<"u", "n", "k", "n", "o", "w", "n">>

ProviderName(parts) == IF Len(parts) = 2 THEN parts[1] ELSE Unknown

\* Mutant of GetID: without the name, clones of one machine look the same.
GetIDNameless(kn) == HashOf(kn.machineID \o kn.systemUUID)

GetID(kn) == HashOf(kn.name \o kn.machineID \o kn.systemUUID)

External(kn) ==
  {i \in DOMAIN kn.detail.addresses : kn.detail.addresses[i].type = "ExternalIP"}

\* Mutant of GetNodeExternalIP: a pointer, as all other strings.
GetNodeExternalIPPointer(kn) ==
  IF External(kn) = {} THEN Nil
  ELSE kn.detail.addresses[Min(External(kn))].address

\* The first of its external addresses.
GetNodeExternalIP(kn) ==
  IF External(kn) = {} THEN <<>>
  ELSE kn.detail.addresses[Min(External(kn))].address

\* Mutant of SortStrings: the keys stay in the order of the map's iteration.
SortStringsNot(keys) == keys

\* The keys of a map are different from each other.
SortStrings(keys) ==
  CHOOSE s \in SetToSeqs(ToSet(keys)) : \A i, j \in DOMAIN s : i < j => s[i] < s[j]

\* "range" comes upon the keys of a map in any order.
Iterations(map) == SetToSeqs(DOMAIN map)

\* keys: the order of the iteration over the capacity.
Capacity(kn, keys) ==
  [i \in DOMAIN keys |->
     LET k == SortStrings(keys)[i] IN <<k, kn.detail.capacity[k]>>]

NodeFromKubeNode(kn, keys) ==
  [id            |-> GetID(kn),
   os            |-> StrPtr(kn.detail.os),
   cloudProvider |-> StrPtr(ProviderName(kn.detail.providerID)),
   externalIP    |-> GetNodeExternalIP(kn),
   capacity      |-> Capacity(kn, keys)]

-----------------------------------------------------------------------------
Init ==
  /\ kube = {}
  /\ changes = 0
  /\ pc = "version"
  /\ items = <<>>
  /\ nodes = <<>>
  /\ list = <<>>
  /\ moments = {}
  /\ records = <<>>

\* The API server goes from kube to next.
Change(next) ==
  /\ changes < MaxChanges
  /\ changes' = changes + 1
  /\ kube' = next
  /\ moments' = IF pc = "version" THEN {} ELSE moments \cup {next}
  /\ UNCHANGED <<pc, items, nodes, list, records>>

\* A kubelet registers its node.  Machines are cloned: two nodes may have the
\* machine ID and the system UUID of one.
Register ==
  \E kn \in KubeNode :
    /\ kn.uid = changes
    /\ kn.name \notin {k.name : k \in kube}
    /\ Change(kube \cup {kn})

Delete == \E kn \in kube : Change(kube \ {kn})

\* The status, and the provider ID, are updated; the provider ID and what
\* identifies the machine do not change once they are populated.
Update ==
  \E kn \in kube, upd \in KubeNode :
    /\ upd # kn
    /\ upd.uid = kn.uid
    /\ upd.name = kn.name
    /\ kn.machineID \in {<<>>, upd.machineID}
    /\ kn.systemUUID \in {<<>>, upd.systemUUID}
    /\ kn.detail.providerID \in {<< <<>> >>, upd.detail.providerID}
    /\ Change((kube \ {kn}) \cup {upd})

-----------------------------------------------------------------------------
\* The first call of a run.
ServerVersion ==
  /\ pc = "version"
  /\ Len(records) < MaxRecords
  /\ pc' = "list"
  /\ moments' = {kube}
  /\ UNCHANGED <<kube, changes, items, nodes, list, records>>

List ==
  /\ pc = "list"
  /\ pc' = "convert"
  /\ items' \in SetToSeqs(kube)
  /\ list' = items'
  /\ UNCHANGED <<kube, changes, nodes, moments, records>>

\* Mutant of Convert: each node is read again before it is converted.
ConvertFresh ==
  /\ items # <<>>
  /\ \E kn \in kube \cup {Head(items)} :
       /\ kn.name = Head(items).name
       /\ \E keys \in Iterations(kn.detail.capacity) :
            nodes' = Append(nodes, NodeFromKubeNode(kn, keys))
  /\ items' = Tail(items)
  /\ UNCHANGED <<kube, changes, pc, list, moments, records>>

\* One turn of the loop over the items.
Convert ==
  /\ items # <<>>
  /\ LET kn == Head(items) IN
       \E keys \in Iterations(kn.detail.capacity) :
         nodes' = Append(nodes, NodeFromKubeNode(kn, keys))
  /\ items' = Tail(items)
  /\ UNCHANGED <<kube, changes, pc, list, moments, records>>

\* The process of this run is gone, and its locals with it.
End ==
  /\ pc' = "version"
  /\ items' = <<>>
  /\ nodes' = <<>>
  /\ list' = <<>>
  /\ moments' = {}
  /\ UNCHANGED <<kube, changes>>

\* The record is stored, the run over.
Store ==
  /\ pc = "convert"
  /\ items = <<>>
  /\ records' = Append(records, [nodes |-> nodes, list |-> list])
  /\ End

\* A call fails, that of the data store included: Collect returns its error.
Fail == pc # "version" /\ End /\ UNCHANGED records

Collect == ServerVersion \/ List \/ Convert \/ Store \/ Fail

APIServer == Register \/ Delete \/ Update

Next == Collect \/ APIServer

Spec == Init /\ [][Next]_vars

-----------------------------------------------------------------------------
\* What a node of a record can be.
IsNode(n) ==
  /\ n.id \in [md5 : Seq(Chars)]
  /\ n.os \in {StrPtr(d.os) : d \in Details}
  /\ n.cloudProvider # <<>>
  /\ n.externalIP # Nil
  /\ \A i, j \in DOMAIN n.capacity : i < j => n.capacity[i][1] < n.capacity[j][1]

TypeOK ==
  /\ kube \subseteq KubeNode
  /\ changes \in 0..MaxChanges
  /\ pc \in {"version", "list", "convert"}
  /\ ToSet(items) \subseteq ToSet(list)
  /\ ToSet(list) \subseteq KubeNode
  /\ moments \subseteq SUBSET KubeNode
  /\ \A n \in ToSet(nodes) : IsNode(n)
  /\ \A r \in ToSet(records) :
       /\ Len(r.nodes) = Len(r.list)
       /\ \A n \in ToSet(r.nodes) : IsNode(n)

\* An entry of a stored record, with the node it was made of.
Reported ==
  UNION {{[node |-> r.nodes[i], kube |-> r.list[i]] : i \in DOMAIN r.nodes} :
           r \in ToSet(records)}

Identity(kn) == <<kn.name, kn.machineID, kn.systemUUID>>

\* The parts of a node's identity that are longer or shorter than another's.
Shifted(k, l) == {i \in 1 .. 3 : Len(Identity(k)[i]) # Len(Identity(l)[i])}

\* Within a record and across records one name on one machine has one ID,
\* however else the node has changed; and all that is lost by concatenating
\* name, machine ID and system UUID without separators is where they end: two
\* names or machines that share an ID have at least two parts of different
\* lengths (getID, v2 agent.go:134-140).  So clones of a machine, whose names
\* differ and nothing else does, are told apart, as are a node before and
\* after its machine ID is populated, and machines of equally long IDs and
\* UUIDs that have one name after each other.  No form of any part is assumed.
IDsIdentify ==
  \A a, b \in Reported :
    /\ Identity(a.kube) = Identity(b.kube) => a.node.id = b.node.id
    /\ a.node.id = b.node.id /\ Identity(a.kube) # Identity(b.kube) =>
         \E i, j \in Shifted(a.kube, b.kube) : i # j

\* Of a node that has not changed all records say the same, its resources in
\* the same order ("We want to iterate the resources in a deterministic
\* order", v2 agent.go:115), although maps are iterated in any.
EntriesRepeat ==
  \A a, b \in Reported : a.kube = b.kube => a.node = b.node

\* What is about to be stored are the nodes of the cluster at one moment
\* since the run began: nodes that follow each other under one name, or a
\* node before and after a change, are never in one record (v2 agent.go:74-85).
NodesOfOneMoment ==
  pc = "convert" /\ items = <<>> =>
    \E m \in moments :
      ToSet(nodes) = {NodeFromKubeNode(kn, SetToSeq(DOMAIN kn.detail.capacity)) :
                        kn \in m}

\* "This should be a stable value for the lifetime of the node, or else it
\* will be assumed to be a different node" (v2/types/record.go:43-44), of the
\* ID: two records have the same ID for the node of one UID.
StableID ==
  \A a, b \in Reported : a.kube.uid = b.kube.uid => a.node.id = b.node.id

=============================================================================
