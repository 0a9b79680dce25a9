------------------------ MODULE KubernetesAgent_proofs ------------------------
(***************************************************************************)
(* What the records of the kubernetes agent say of nodes, proved for all   *)
(* names, machines and details of nodes, any number of changes and of      *)
(* records.                                                                *)
(***************************************************************************)
EXTENDS KubernetesAgent, FiniteSetTheorems, SequenceTheorems, TLAPS

-----------------------------------------------------------------------------
\* Sequences of the elements of a finite set.

LEMMA InjectiveSeqOfSet ==
  ASSUME NEW S, IsFiniteSet(S), NEW s \in [1 .. Cardinality(S) -> S], IsInjective(s)
  PROVE  /\ s \in Seq(S) /\ ToSet(s) = S
         /\ DOMAIN s = 1 .. Cardinality(S)
PROOF
  <1>1. Cardinality(S) \in Nat
    BY FS_CardinalityType
  <1>2. IsFiniteSet(1 .. Cardinality(S))
          /\ Cardinality(1 .. Cardinality(S)) = Cardinality(S)
    BY <1>1, FS_Interval
  <1>3. s \in Injection(1 .. Cardinality(S), S)
    BY DEF Injection
  <1>4. s \in Surjection(1 .. Cardinality(S), S)
    BY <1>2, <1>3, FS_Injection
  <1>5. \A x \in S : \E i \in 1 .. Cardinality(S) : s[i] = x
    BY <1>4 DEF Surjection
  <1>6. s \in Seq(S)
    BY <1>1
  <1>7. QED
    BY <1>5, <1>6 DEF ToSet

LEMMA SeqsOfSet ==
  ASSUME NEW S, IsFiniteSet(S), NEW s \in SetToSeqs(S)
  PROVE  /\ s \in Seq(S) /\ ToSet(s) = S
         /\ DOMAIN s = 1 .. Cardinality(S)
PROOF
  <1>1. s \in [1 .. Cardinality(S) -> S] /\ IsInjective(s)
    BY DEF SetToSeqs, IsInjective
  <1>2. QED
    BY <1>1, InjectiveSeqOfSet

LEMMA SeqOfSet ==
  ASSUME NEW S, IsFiniteSet(S)
  PROVE  /\ SetToSeq(S) \in Seq(S) /\ ToSet(SetToSeq(S)) = S
         /\ DOMAIN SetToSeq(S) = 1 .. Cardinality(S)
PROOF
  <1>1. \E s \in [1 .. Cardinality(S) -> S] : IsInjective(s)
    BY FS_CardinalityType DEF ExistsBijection, Bijection, Injection
  <1>2. SetToSeq(S) \in [1 .. Cardinality(S) -> S] /\ IsInjective(SetToSeq(S))
    BY <1>1 DEF SetToSeq
  <1>3. QED
    BY <1>2, InjectiveSeqOfSet

\* A finite set of numbers has one sequence in ascending order: an element is
\* at the place that is the number of elements up to it.
Ascending(s) == \A i, j \in DOMAIN s : i < j => s[i] < s[j]

LEMMA AscendingSeqExists ==
  ASSUME NEW S \in SUBSET Nat, IsFiniteSet(S)
  PROVE  \E s \in SetToSeqs(S) : Ascending(s)
PROOF
  <1> DEFINE n == Cardinality(S)
             upto(x) == {y \in S : y <= x}
             rank == [x \in S |-> Cardinality(upto(x))]
  <1>1. n \in Nat /\ IsFiniteSet(1 .. n) /\ Cardinality(1 .. n) = n
    BY FS_CardinalityType, FS_Interval
  <1>2. \A x \in S : IsFiniteSet(upto(x)) /\ Cardinality(upto(x)) \in 0 .. n
    BY <1>1, FS_Subset, FS_CardinalityType
  <1>3. \A x, y \in S : x < y => rank[x] < rank[y]
    <2> TAKE x, y \in S
    <2> HAVE x < y
    <2>0. x \in Nat /\ y \in Nat
      OBVIOUS
    <2>1. upto(x) \in SUBSET upto(y) /\ y \in upto(y) /\ y \notin upto(x)
      <3>1. \A z \in S : z <= x => z <= y
        BY <2>0
      <3>2. y <= y /\ ~ (y <= x)
        BY <2>0
      <3>3. QED
        BY <3>1, <3>2
    <2>2. upto(x) # upto(y)
      BY <2>1
    <2>3. Cardinality(upto(x)) <= Cardinality(upto(y))
            /\ Cardinality(upto(x)) # Cardinality(upto(y))
      BY <1>2, <2>1, <2>2, FS_Subset
    <2>4. QED
      BY <1>2, <2>3
  <1>4. \A x \in S : rank[x] \in 1 .. n
    <2> TAKE x \in S
    <2>1. x \in upto(x)
      OBVIOUS
    <2>2. Cardinality(upto(x)) # 0
      BY <1>2, <2>1, FS_EmptySet
    <2>3. QED
      BY <1>2, <2>2
  <1>5. rank \in Injection(S, 1 .. n)
    <2>1. \A x, y \in S : rank[x] = rank[y] => x = y
      <3> TAKE x, y \in S
      <3>1. x < y \/ y < x \/ x = y
        OBVIOUS
      <3>2. rank[x] \in Int /\ rank[y] \in Int
        BY <1>4
      <3> HIDE DEF rank
      <3>3. QED
        BY <1>3, <3>1, <3>2
    <2>2. rank \in [S -> 1 .. n]
      BY <1>4
    <2>3. QED
      BY <2>1, <2>2 DEF Injection, IsInjective
  <1> HIDE DEF rank, upto
  <1>6. rank \in Surjection(S, 1 .. n)
    BY <1>1, <1>5, FS_Injection
  <1> DEFINE s == [i \in 1 .. n |-> CHOOSE x \in S : rank[x] = i]
  <1>7. \A i \in 1 .. n : s[i] \in S /\ rank[s[i]] = i
    BY <1>6 DEF Surjection
  <1>8. \A i, j \in 1 .. n : i < j => s[i] < s[j]
    <2> TAKE i, j \in 1 .. n
    <2> HAVE i < j
    <2>1. s[i] \in Nat /\ s[j] \in Nat /\ s[i] \in S /\ s[j] \in S
      BY <1>7
    <2>2. s[i] < s[j] \/ s[j] < s[i] \/ s[i] = s[j]
      BY <2>1
    <2>3. CASE s[j] < s[i]
      <3>1. rank[s[j]] < rank[s[i]]
        BY <1>3, <2>1, <2>3
      <3>2. j < i
        BY <1>7, <3>1
      <3>3. QED
        BY <3>2
    <2>4. CASE s[i] = s[j]
      BY <1>7, <2>4
    <2>5. QED
      BY <2>2, <2>3, <2>4
  <1>9. s \in [1 .. n -> S] /\ DOMAIN s = 1 .. n
    BY <1>7
  <1> HIDE DEF s
  <1>10. s \in SetToSeqs(S)
    BY <1>7, <1>9 DEF SetToSeqs, n
  <1>11. QED
    BY <1>8, <1>9, <1>10 DEF Ascending

LEMMA FirstExists ==
  ASSUME NEW S \in SUBSET Nat, S # {}
  PROVE  Min(S) \in S
PROOF
  <1>1. PICK z \in S : z \in Nat
    OBVIOUS
  <1> DEFINE T == {y \in S : y <= z}
  <1>2. T \in SUBSET Nat /\ IsFiniteSet(T) /\ z \in T
    <2>1. T \in SUBSET Nat /\ (\A y \in T : y <= z) /\ z <= z
      <3>1. T \subseteq S
        OBVIOUS
      <3>2. \A y \in T : y <= z
        OBVIOUS
      <3>3. z <= z
        BY <1>1
      <3> HIDE DEF T
      <3>4. QED
        BY <3>1, <3>2, <3>3
    <2>2. z \in T
      BY <2>1
    <2> HIDE DEF T
    <2>3. IsFiniteSet(T)
      BY <1>1, <2>1, FS_BoundedSetOfNaturals
    <2>4. QED
      BY <2>1, <2>2, <2>3
  <1>3. PICK s \in SetToSeqs(T) : Ascending(s)
    BY <1>2, AscendingSeqExists
  <1>4. ToSet(s) = T /\ DOMAIN s = 1 .. Cardinality(T) /\ Cardinality(T) \in Nat
    BY <1>2, SeqsOfSet, FS_CardinalityType
  <1>5. \A y \in T : \E i \in 1 .. Cardinality(T) : s[i] = y
    BY <1>4 DEF ToSet
  <1>6. 1 \in 1 .. Cardinality(T)
    BY <1>2, <1>4, <1>5
  <1>7. s[1] \in T
    BY <1>4, <1>6 DEF ToSet
  <1>8. \A i \in 1 .. Cardinality(T) : s[1] <= s[i]
    <2> TAKE i \in 1 .. Cardinality(T)
    <2>1. s[i] \in Nat /\ s[1] \in Nat
      BY <1>2, <1>4, <1>7 DEF ToSet
    <2>2. CASE i = 1
      BY <2>1, <2>2
    <2>3. CASE i > 1
      <3>1. s[1] < s[i]
        BY <1>3, <1>4, <1>6, <2>3 DEF Ascending
      <3>2. QED
        BY <2>1, <3>1
    <2>4. QED
      BY <2>2, <2>3
  <1>9. \A y \in T : s[1] <= y
    BY <1>5, <1>8
  <1>10. \A y \in S : s[1] <= y
    <2> TAKE y \in S
    <2>1. s[1] \in Nat /\ y \in Nat /\ z \in Nat /\ s[1] <= z
      BY <1>1, <1>2, <1>7, <1>9
    <2>2. CASE y <= z
      BY <1>9, <2>2
    <2>3. CASE y > z
      BY <2>1, <2>3
    <2>4. QED
      BY <2>1, <2>2, <2>3
  <1>11. s[1] \in S
    BY <1>7
  <1> HIDE DEF T
  <1>12. QED
    BY <1>10, <1>11 DEF Min

\* Kept folded where ConcatSplits is cited.
Cat(s, t) == s \o t

LEMMA ConcatSplits ==
  ASSUME NEW C, NEW s \in Seq(C), NEW t \in Seq(C), NEW u \in Seq(C), NEW v \in Seq(C),
         Cat(s, t) = Cat(u, v), Len(t) = Len(v)
  PROVE  s = u /\ t = v
PROOF
  <1>0. s \o t = u \o v
    BY DEF Cat
  <1>1. Len(s) + Len(t) = Len(u) + Len(v)
    <2>1. Len(s \o t) = Len(s) + Len(t) /\ Len(u \o v) = Len(u) + Len(v)
      BY ConcatProperties
    <2>2. QED
      BY <1>0, <2>1
  <1>2. Len(s) = Len(u) /\ Len(s) \in Nat /\ Len(t) \in Nat
    BY <1>1
  <1>3. \A i \in 1 .. Len(s) : s[i] = u[i]
    <2>1. \A i \in 1 .. Len(s) : (s \o t)[i] = s[i] /\ (u \o v)[i] = u[i]
      BY <1>2
    <2>2. QED
      BY <1>0, <1>2, <2>1
  <1>4. \A i \in 1 .. Len(t) : t[i] = v[i]
    <2>1. \A i \in 1 .. Len(t) :
            (s \o t)[Len(s) + i] = t[i] /\ (u \o v)[Len(s) + i] = v[i]
      BY <1>2
    <2>2. QED
      BY <1>0, <1>2, <2>1
  <1>5. s = u
    BY <1>2, <1>3
  <1>6. t = v
    BY <1>4
  <1>7. QED
    BY <1>5, <1>6

LEMMA TripleSplits ==
  ASSUME NEW C, NEW s \in Seq(C), NEW t \in Seq(C), NEW w \in Seq(C),
         NEW u \in Seq(C), NEW v \in Seq(C), NEW x \in Seq(C),
         Cat(Cat(s, t), w) = Cat(Cat(u, v), x), Len(t) = Len(v), Len(w) = Len(x)
  PROVE  s = u /\ t = v /\ w = x
PROOF
  <1>1. Cat(s, t) \in Seq(C) /\ Cat(u, v) \in Seq(C)
    BY DEF Cat
  <1>2. Cat(s, t) = Cat(u, v) /\ w = x
    BY <1>1, ConcatSplits
  <1>3. QED
    BY <1>2, ConcatSplits

-----------------------------------------------------------------------------
\* The conversion of a node does not depend on the order in which the keys of
\* its capacity are come upon.
NodeOf(kn) == NodeFromKubeNode(kn, SetToSeq(DOMAIN kn.detail.capacity))

LEMMA ConvertedIsNodeOf ==
  ASSUME NEW kn \in KubeNode, NEW keys \in Iterations(kn.detail.capacity)
  PROVE  NodeFromKubeNode(kn, keys) = NodeOf(kn)
PROOF
  <1> DEFINE D == DOMAIN kn.detail.capacity
             other == SetToSeq(D)
  <1>1. IsFiniteSet(D)
    BY NodesAssumption DEF KubeNode
  <1>2. ToSet(keys) = D /\ DOMAIN keys = 1 .. Cardinality(D)
    BY <1>1, SeqsOfSet DEF Iterations
  <1>3. ToSet(other) = D /\ DOMAIN other = 1 .. Cardinality(D)
    BY <1>1, SeqOfSet
  <1> HIDE DEF D, other
  <1>4. SortStrings(keys) = SortStrings(other)
    BY <1>2, <1>3 DEF SortStrings
  <1>5. Capacity(kn, keys) = Capacity(kn, other)
    BY <1>2, <1>3, <1>4 DEF Capacity
  <1>6. QED
    BY <1>5 DEF NodeOf, NodeFromKubeNode, other, D

-----------------------------------------------------------------------------
\* The invariant.

Nodes == {NodeOf(kn) : kn \in KubeNode}

\* Of the nodes listed those before the rest have been converted, in order.
LoopInv ==
  /\ Len(list) = Len(nodes) + Len(items)
  /\ \A i \in 1 .. Len(items) : items[i] = list[Len(nodes) + i]
  /\ \A i \in 1 .. Len(nodes) : nodes[i] = NodeOf(list[i])

LEMMA PrimesOfLoopInv ==
  LoopInv' <=>
    /\ Len(list') = Len(nodes') + Len(items')
    /\ \A i \in 1 .. Len(items') : items'[i] = list'[Len(nodes') + i]
    /\ \A i \in 1 .. Len(nodes') : nodes'[i] = NodeOf(list'[i])
PROOF
  BY DEF LoopInv, NodeOf

RecordsInv ==
  \A r \in ToSet(records) :
    /\ Len(r.nodes) = Len(r.list)
    /\ \A i \in 1 .. Len(r.nodes) : r.nodes[i] = NodeOf(r.list[i])

\* What the API server holds is one of the moments of the run, and so is what
\* it has listed.
MomentsInv ==
  /\ pc # "version" => kube \in moments
  /\ pc = "convert" => ToSet(list) \in moments

NodesTypeOK ==
  /\ kube \subseteq KubeNode /\ IsFiniteSet(kube)
  /\ changes \in 0 .. MaxChanges
  /\ list \in Seq(KubeNode) /\ items \in Seq(KubeNode) /\ nodes \in Seq(Nodes)
  /\ records \in Seq([nodes : Seq(Nodes), list : Seq(KubeNode)])

NodesInv ==
  NodesTypeOK /\ LoopInv /\ RecordsInv /\ MomentsInv
    /\ (pc # "convert" => list = <<>> /\ items = <<>> /\ nodes = <<>>)

LEMMA InitNodesInv == Init => NodesInv
PROOF
  <1>1. IsFiniteSet({})
    BY FS_EmptySet
  <1>2. QED
    BY <1>1, NodesAssumption
    DEF Init, NodesInv, NodesTypeOK, LoopInv, RecordsInv, MomentsInv, ToSet

LEMMA ChangeInv ==
  ASSUME NodesInv, NEW next, Change(next), next \subseteq KubeNode, IsFiniteSet(next)
  PROVE  NodesInv'
PROOF
  <1>1. changes' \in 0 .. MaxChanges
    BY NodesAssumption DEF Change, NodesInv, NodesTypeOK
  <1>2. MomentsInv'
    BY DEF Change, NodesInv, MomentsInv, ToSet
  <1>3. QED
    BY <1>1, <1>2 DEF Change, NodesInv, NodesTypeOK, LoopInv, RecordsInv, ToSet, NodeOf

LEMMA APIServerInv ==
  ASSUME NodesInv, APIServer
  PROVE  NodesInv'
PROOF
  <1>0. kube \subseteq KubeNode /\ IsFiniteSet(kube)
    BY DEF NodesInv, NodesTypeOK
  <1>1. CASE Register
    <2>1. PICK kn \in KubeNode : Change(kube \cup {kn})
      BY <1>1 DEF Register
    <2>2. IsFiniteSet(kube \cup {kn})
      BY <1>0, FS_AddElement
    <2>3. QED
      BY <1>0, <2>1, <2>2, ChangeInv
  <1>2. CASE Delete
    <2>1. PICK kn \in kube : Change(kube \ {kn})
      BY <1>2 DEF Delete
    <2>2. IsFiniteSet(kube \ {kn})
      BY <1>0, FS_RemoveElement
    <2>3. QED
      BY <1>0, <2>1, <2>2, ChangeInv
  <1>3. CASE Update
    <2>1. PICK kn \in kube, upd \in KubeNode : Change((kube \ {kn}) \cup {upd})
      BY <1>3 DEF Update
    <2>2. IsFiniteSet(kube \ {kn})
      BY <1>0, FS_RemoveElement
    <2>3. IsFiniteSet((kube \ {kn}) \cup {upd})
      BY <2>2, FS_AddElement
    <2>4. QED
      BY <1>0, <2>1, <2>3, ChangeInv
  <1>4. QED
    BY <1>1, <1>2, <1>3 DEF APIServer

LEMMA ListInv ==
  ASSUME NodesInv, List
  PROVE  NodesInv'
PROOF
  <1> USE DEF NodesInv, NodesTypeOK
  <1>1. items' \in Seq(kube) /\ ToSet(items') = kube /\ list' = items'
    BY SeqsOfSet DEF List
  <1>2. items' \in Seq(KubeNode)
    BY <1>1
  <1>3. nodes' = <<>>
    BY DEF List
  <1>4. LoopInv'
    BY <1>1, <1>2, <1>3 DEF LoopInv
  <1>5. MomentsInv'
    BY <1>1 DEF List, MomentsInv, ToSet
  <1>6. QED
    BY <1>1, <1>2, <1>3, <1>4, <1>5 DEF List, RecordsInv, NodeOf, ToSet

LEMMA ConvertInv ==
  ASSUME NodesInv, Convert
  PROVE  NodesInv'
PROOF
  <1> USE DEF NodesInv, NodesTypeOK
  <1>1. /\ items # <<>> /\ items' = Tail(items)
        /\ UNCHANGED <<kube, changes, pc, list, moments, records>>
    BY DEF Convert
  <1>2. Head(items) \in KubeNode /\ Head(items) = items[1] /\ Len(items) > 0
    BY <1>1
  <1>3. nodes' = Append(nodes, NodeOf(Head(items)))
    BY <1>2, ConvertedIsNodeOf DEF Convert
  <1>4. NodeOf(Head(items)) \in Nodes
    BY <1>2 DEF Nodes
  <1>5. nodes' \in Seq(Nodes) /\ items' \in Seq(KubeNode)
    BY <1>1, <1>3, <1>4
  <1>6. Len(nodes') = Len(nodes) + 1 /\ Len(items') = Len(items) - 1
    BY <1>1, <1>3, <1>4
  <1>7. LoopInv'
    <2>1. \A i \in 1 .. Len(items') : items'[i] = items[i + 1]
      BY <1>1
    <2>2. \A i \in 1 .. Len(items') : items'[i] = list[Len(nodes') + i]
      BY <1>6, <2>1 DEF LoopInv
    <2>3. \A i \in 1 .. Len(nodes') : nodes'[i] = NodeOf(list[i])
      <3>1. \A i \in 1 .. Len(nodes) : nodes'[i] = nodes[i]
        BY <1>3, <1>4
      <3>2. nodes'[Len(nodes) + 1] = NodeOf(list[Len(nodes) + 1])
        BY <1>2, <1>3, <1>4 DEF LoopInv
      <3>3. \A i \in 1 .. Len(nodes) : nodes[i] = NodeOf(list[i])
        BY DEF LoopInv
      <3>4. Len(nodes) \in Nat
        OBVIOUS
      <3>5. \A i \in 1 .. Len(nodes') : i \in 1 .. Len(nodes) \/ i = Len(nodes) + 1
        BY <1>6, <3>4
      <3>6. QED
        BY <3>1, <3>2, <3>3, <3>5
    <2>4. Len(list') = Len(nodes') + Len(items') /\ list' = list
      <3>1. /\ Len(list) = Len(nodes) + Len(items)
            /\ Len(nodes) \in Nat /\ Len(items) \in Nat
        BY DEF LoopInv
      <3>2. list' = list
        BY <1>1
      <3>3. \A m, n \in Nat : (m + 1) + (n - 1) = m + n
        OBVIOUS
      <3>4. (Len(nodes) + 1) + (Len(items) - 1) = Len(nodes) + Len(items)
        BY <3>1, <3>3
      <3> HIDE DEF NodesInv, NodesTypeOK
      <3>5. QED
        BY <1>6, <3>1, <3>2, <3>4, Zenon
    <2>5. QED
      BY <2>2, <2>3, <2>4, PrimesOfLoopInv
  <1>8. MomentsInv' /\ RecordsInv'
    BY <1>1 DEF MomentsInv, RecordsInv, ToSet, NodeOf
  <1>9. pc = "convert"
    BY <1>1
  <1>10. QED
    BY <1>1, <1>5, <1>7, <1>8, <1>9

LEMMA StoreInv ==
  ASSUME NodesInv, Store
  PROVE  NodesInv'
PROOF
  <1> USE DEF NodesInv, NodesTypeOK
  <1> DEFINE r == [nodes |-> nodes, list |-> list]
             R == [nodes : Seq(Nodes), list : Seq(KubeNode)]
  <1>1. r \in R /\ records' = Append(records, r) /\ records \in Seq(R)
    BY DEF Store
  <1>2. Len(r.nodes) = Len(r.list)
          /\ \A i \in 1 .. Len(r.nodes) : r.nodes[i] = NodeOf(r.list[i])
    <2>1. items = <<>>
      BY DEF Store
    <2>2. QED
      BY <2>1 DEF LoopInv
  <1> HIDE DEF r, R
  <1>3. records' \in Seq(R) /\ \A q \in ToSet(records') : q \in ToSet(records) \/ q = r
    <2>1. records' \in Seq(R)
      BY <1>1
    <2>2. \A i \in DOMAIN records' :
            \/ i \in DOMAIN records /\ records'[i] = records[i]
            \/ records'[i] = r
      BY <1>1
    <2>3. QED
      BY <2>1, <2>2 DEF ToSet
  <1>4. RecordsInv'
    <2>1. \A q \in ToSet(records') :
            /\ Len(q.nodes) = Len(q.list)
            /\ \A i \in 1 .. Len(q.nodes) : q.nodes[i] = NodeOf(q.list[i])
      BY <1>2, <1>3 DEF RecordsInv
    <2>2. QED
      BY <2>1 DEF RecordsInv, ToSet, NodeOf
  <1>5. QED
    BY <1>3, <1>4 DEF Store, End, LoopInv, MomentsInv, R

LEMMA NodesInvNext ==
  ASSUME NodesInv, [Next]_vars
  PROVE  NodesInv'
PROOF
  <1> USE DEF NodesInv, NodesTypeOK
  <1>1. CASE ServerVersion
    BY <1>1
    DEF ServerVersion, LoopInv, RecordsInv, MomentsInv, ToSet, NodeOf
  <1>2. CASE Fail
    BY <1>2 DEF Fail, End, LoopInv, RecordsInv, MomentsInv, ToSet, NodeOf
  <1>3. CASE UNCHANGED vars
    BY <1>3 DEF vars, LoopInv, RecordsInv, MomentsInv, ToSet, NodeOf
  <1>4. QED
    BY <1>1, <1>2, <1>3, ListInv, ConvertInv, StoreInv, APIServerInv
    DEF Next, Collect

LEMMA NodesInvariant == Spec => []NodesInv
PROOF
  BY InitNodesInv, NodesInvNext, PTL DEF Spec

-----------------------------------------------------------------------------
\* What is proved of the records.

LEMMA MemberOfSeq ==
  ASSUME NEW S, NEW s \in Seq(S), NEW x \in ToSet(s)
  PROVE  x \in S
PROOF
  <1>1. PICK i \in DOMAIN s : x = s[i]
    BY DEF ToSet
  <1>2. i \in 1 .. Len(s)
    BY LenProperties
  <1>3. QED
    BY <1>1, <1>2, ElementOfSeq

LEMMA ReportedIsNodeOf ==
  ASSUME NodesInv, NEW a \in Reported
  PROVE  a.kube \in KubeNode /\ a.node = NodeOf(a.kube)
PROOF
  <1> USE DEF NodesInv, NodesTypeOK
  <1>0. PICK r \in ToSet(records) :
          \E i \in DOMAIN r.nodes : a = [node |-> r.nodes[i], kube |-> r.list[i]]
    BY DEF Reported
  <1>1. PICK i \in DOMAIN r.nodes : a = [node |-> r.nodes[i], kube |-> r.list[i]]
    BY <1>0
  <1>2. r \in [nodes : Seq(Nodes), list : Seq(KubeNode)]
    BY <1>0, MemberOfSeq
  <1>3. r.nodes \in Seq(Nodes) /\ r.list \in Seq(KubeNode)
    BY <1>2
  <1>4. i \in 1 .. Len(r.nodes) /\ Len(r.nodes) = Len(r.list)
    BY <1>1, <1>3 DEF RecordsInv
  <1>5. r.nodes[i] = NodeOf(r.list[i]) /\ r.list[i] \in KubeNode
    BY <1>3, <1>4 DEF RecordsInv
  <1>6. a.node = r.nodes[i] /\ a.kube = r.list[i]
    BY <1>1
  <1>7. QED
    BY <1>5, <1>6

LEMMA RepeatOfInv == NodesInv => EntriesRepeat
PROOF
  BY ReportedIsNodeOf DEF EntriesRepeat

\* EntriesRepeat: of a node that has not changed all records say the same, in
\* whatever order the maps are iterated (v2 agent.go:115).
THEOREM EntriesRepeatAlways == Spec => []EntriesRepeat
PROOF
  BY NodesInvariant, RepeatOfInv, PTL

LEMMA MomentOfInv == NodesInv => NodesOfOneMoment
PROOF
  <1> SUFFICES ASSUME NodesInv, pc = "convert", items = <<>>
               PROVE  \E m \in moments : ToSet(nodes) = {NodeOf(kn) : kn \in m}
    BY DEF NodesOfOneMoment, NodeOf
  <1> USE DEF NodesInv, NodesTypeOK
  <1>1. ToSet(list) \in moments
    BY DEF MomentsInv
  <1>2. nodes \in Seq(Nodes) /\ list \in Seq(KubeNode) /\ Len(list) = Len(nodes)
    BY DEF LoopInv
  <1>3. DOMAIN nodes = DOMAIN list /\ DOMAIN nodes = 1 .. Len(nodes)
    BY <1>2
  <1>4. \A i \in DOMAIN list : nodes[i] = NodeOf(list[i])
    BY <1>3 DEF LoopInv
  <1>5. ToSet(nodes) = {NodeOf(kn) : kn \in ToSet(list)}
    BY <1>3, <1>4 DEF ToSet
  <1>6. QED
    BY <1>1, <1>5

\* NodesOfOneMoment: the nodes of a record are those of the cluster at one
\* moment of the run, with any number of changes in it (v2 agent.go:74-85).
THEOREM RecordsOfOneMoment == Spec => []NodesOfOneMoment
PROOF
  BY NodesInvariant, MomentOfInv, PTL

\* Where a part is shifted another one is: the lengths add up to the same.
LEMMA LengthOfTriple ==
  ASSUME NEW C, NEW s \in Seq(C), NEW t \in Seq(C), NEW w \in Seq(C)
  PROVE  Len(Cat(Cat(s, t), w)) = Len(s) + Len(t) + Len(w)
PROOF
  <1>1. Cat(s, t) \in Seq(C) /\ Len(Cat(s, t)) = Len(s) + Len(t)
    BY ConcatProperties DEF Cat
  <1>2. Len(Cat(Cat(s, t), w)) = Len(Cat(s, t)) + Len(w)
    <2> DEFINE y == Cat(s, t)
    <2>1. y \in Seq(C)
      BY <1>1
    <2> HIDE DEF y
    <2>2. Len(Cat(y, w)) = Len(y) + Len(w)
      BY <2>1, ConcatProperties DEF Cat
    <2>3. QED
      BY <2>2 DEF y
  <1>3. QED
    BY <1>1, <1>2

LEMMA IdentityOfID ==
  ASSUME NEW k \in KubeNode, NEW l \in KubeNode, GetID(k) = GetID(l),
         ~ \E i, j \in Shifted(k, l) : i # j
  PROVE  Identity(k) = Identity(l)
PROOF
  <1> DEFINE kn == k.name
             km == k.machineID
             ks == k.systemUUID
             ln == l.name
             lm == l.machineID
             ls == l.systemUUID
  <1>1. /\ kn \in Seq(Chars) /\ km \in Seq(Chars) /\ ks \in Seq(Chars)
        /\ ln \in Seq(Chars) /\ lm \in Seq(Chars) /\ ls \in Seq(Chars)
    BY NodesAssumption DEF KubeNode
  <1>2. /\ Identity(k)[1] = kn /\ Identity(k)[2] = km /\ Identity(k)[3] = ks
        /\ Identity(l)[1] = ln /\ Identity(l)[2] = lm /\ Identity(l)[3] = ls
    BY DEF Identity
  <1>3. Cat(Cat(kn, km), ks) = Cat(Cat(ln, lm), ls)
    BY DEF GetID, HashOf, Cat
  <1> HIDE DEF kn, km, ks, ln, lm, ls
  <1>4. Len(kn) + Len(km) + Len(ks) = Len(ln) + Len(lm) + Len(ls)
    <2>1. Len(Cat(Cat(kn, km), ks)) = Len(kn) + Len(km) + Len(ks)
      BY <1>1, LengthOfTriple
    <2>2. Len(Cat(Cat(ln, lm), ls)) = Len(ln) + Len(lm) + Len(ls)
      BY <1>1, LengthOfTriple
    <2>3. QED
      BY <1>3, <2>1, <2>2
  <1>5. /\ Len(kn) \in Nat /\ Len(km) \in Nat /\ Len(ks) \in Nat
        /\ Len(ln) \in Nat /\ Len(lm) \in Nat /\ Len(ls) \in Nat
    BY <1>1
  <1>6. Len(km) = Len(lm) /\ Len(ks) = Len(ls)
    <2>1. ~ (Len(kn) # Len(ln) /\ Len(km) # Len(lm))
      BY <1>2 DEF Shifted
    <2>2. ~ (Len(kn) # Len(ln) /\ Len(ks) # Len(ls))
      BY <1>2 DEF Shifted
    <2>3. ~ (Len(km) # Len(lm) /\ Len(ks) # Len(ls))
      BY <1>2 DEF Shifted
    <2>4. QED
      BY <1>4, <1>5, <2>1, <2>2, <2>3
  <1>7. kn = ln /\ km = lm /\ ks = ls
    BY <1>1, <1>3, <1>6, TripleSplits
  <1>8. QED
    BY <1>7 DEF Identity, kn, km, ks, ln, lm, ls

LEMMA IdentifyOfInv == NodesInv => IDsIdentify
PROOF
  <1> SUFFICES ASSUME NodesInv, NEW a \in Reported, NEW b \in Reported
               PROVE  /\ Identity(a.kube) = Identity(b.kube) => a.node.id = b.node.id
                      /\ a.node.id = b.node.id /\ Identity(a.kube) # Identity(b.kube) =>
                           \E i, j \in Shifted(a.kube, b.kube) : i # j
    BY DEF IDsIdentify
  <1>1. a.kube \in KubeNode /\ b.kube \in KubeNode
    BY ReportedIsNodeOf
  <1>2. a.node.id = GetID(a.kube) /\ b.node.id = GetID(b.kube)
    <2>1. \A kn : NodeOf(kn).id = GetID(kn)
      BY DEF NodeOf, NodeFromKubeNode
    <2>2. QED
      BY <2>1, ReportedIsNodeOf
  <1>3. Identity(a.kube) = Identity(b.kube) => GetID(a.kube) = GetID(b.kube)
    BY DEF Identity, GetID
  <1>4. QED
    BY <1>1, <1>2, <1>3, IdentityOfID

\* IDsIdentify: one name on one machine has one ID, and two that share an ID
\* differ in the lengths of two parts of it, for any names, machine IDs and
\* system UUIDs, populated or not (v2 agent.go:134-140).
THEOREM IDsIdentifyNodes == Spec => []IDsIdentify
PROOF
  BY NodesInvariant, IdentifyOfInv, PTL

-----------------------------------------------------------------------------
\* The types.

\* The conversion of a node gives what a node of a record can be: its resources
\* in ascending order, and a string where there is a pointer to none.
LEMMA NodeOfIsNode ==
  ASSUME NEW kn \in KubeNode
  PROVE  IsNode(NodeOf(kn))
PROOF
  <1> DEFINE n == NodeOf(kn)
             D == DOMAIN kn.detail.capacity
             keys == SetToSeq(D)
             sorted == SortStrings(keys)
  <1>0. kn.detail \in Details
    BY DEF KubeNode
  <1>1. n.id \in [md5 : Seq(Chars)]
    <2>1. /\ kn.name \in Seq(Chars) /\ kn.machineID \in Seq(Chars)
          /\ kn.systemUUID \in Seq(Chars)
      BY NodesAssumption DEF KubeNode
    <2>2. kn.name \o kn.machineID \o kn.systemUUID \in Seq(Chars)
      BY <2>1
    <2>3. n.id = [md5 |-> kn.name \o kn.machineID \o kn.systemUUID]
      BY DEF NodeOf, NodeFromKubeNode, GetID, HashOf
    <2>4. QED
      BY <2>2, <2>3
  <1>2. n.os \in {StrPtr(d.os) : d \in Details}
    BY <1>0 DEF NodeOf, NodeFromKubeNode
  <1>3. n.cloudProvider # <<>>
    BY NodesAssumption DEF NodeOf, NodeFromKubeNode, StrPtr
  <1>4. n.externalIP # Nil
    <2>1. n.externalIP = GetNodeExternalIP(kn)
      BY DEF NodeOf, NodeFromKubeNode
    <2>2. CASE External(kn) = {}
      BY <2>1, <2>2, NodesAssumption DEF GetNodeExternalIP
    <2>3. CASE External(kn) # {}
      <3>1. External(kn) \in SUBSET Nat /\ External(kn) \subseteq DOMAIN kn.detail.addresses
        BY <1>0, NodesAssumption DEF External
      <3>2. Min(External(kn)) \in DOMAIN kn.detail.addresses
        BY <2>3, <3>1, FirstExists
      <3>3. QED
        BY <1>0, <2>1, <2>3, <3>2, NodesAssumption DEF GetNodeExternalIP
    <2>4. QED
      BY <2>2, <2>3
  <1>5. \A i, j \in DOMAIN n.capacity : i < j => n.capacity[i][1] < n.capacity[j][1]
    <2>1. D \in SUBSET Nat /\ IsFiniteSet(D)
      BY <1>0, NodesAssumption
    <2>2. ToSet(keys) = D /\ DOMAIN keys = 1 .. Cardinality(D)
      BY <2>1, SeqOfSet
    <2>3. sorted \in SetToSeqs(D) /\ Ascending(sorted)
      BY <2>1, <2>2, AscendingSeqExists DEF SortStrings, Ascending
    <2>4. DOMAIN sorted = 1 .. Cardinality(D)
      BY <2>1, <2>3, SeqsOfSet
    <2>5. n.capacity = Capacity(kn, keys)
      BY DEF NodeOf, NodeFromKubeNode
    <2> HIDE DEF n, D, keys
    <2>6. n.capacity = [i \in DOMAIN keys |-> <<sorted[i], kn.detail.capacity[sorted[i]]>>]
      BY <2>5 DEF Capacity
    <2> HIDE DEF sorted
    <2>7. QED
      BY <2>2, <2>3, <2>4, <2>6 DEF Ascending
  <1> HIDE DEF n
  <1>6. IsNode(n)
    BY <1>1, <1>2, <1>3, <1>4, <1>5 DEF IsNode
  <1>7. QED
    BY <1>6 DEF n

\* What NodesInv does not say of the rest of the state.
RunTypeOK ==
  /\ pc \in {"version", "list", "convert"}
  /\ moments \subseteq SUBSET KubeNode

LEMMA RunTypeNext ==
  ASSUME NodesInv, RunTypeOK, [Next]_vars
  PROVE  RunTypeOK'
PROOF
  <1> USE DEF RunTypeOK
  <1>0. kube \subseteq KubeNode
    BY DEF NodesInv, NodesTypeOK
  <1>1. ASSUME NEW next, Change(next), next \subseteq KubeNode
        PROVE  RunTypeOK'
    BY <1>1 DEF Change
  <1>2. CASE APIServer
    <2>1. CASE Register
      <3>1. PICK kn \in KubeNode : Change(kube \cup {kn})
        BY <2>1 DEF Register
      <3>2. QED
        BY <1>0, <1>1, <3>1
    <2>2. CASE Delete
      <3>1. PICK kn \in kube : Change(kube \ {kn})
        BY <2>2 DEF Delete
      <3>2. QED
        BY <1>0, <1>1, <3>1
    <2>3. CASE Update
      <3>1. PICK kn \in kube, upd \in KubeNode : Change((kube \ {kn}) \cup {upd})
        BY <2>3 DEF Update
      <3>2. QED
        BY <1>0, <1>1, <3>1
    <2>4. QED
      BY <1>2, <2>1, <2>2, <2>3 DEF APIServer
  <1>3. CASE Collect
    <2>1. CASE ServerVersion
      BY <1>0, <2>1 DEF ServerVersion
    <2>2. CASE List \/ Convert
      BY <2>2 DEF List, Convert
    <2>3. CASE Store \/ Fail
      BY <2>3 DEF Store, Fail, End
    <2>4. QED
      BY <1>3, <2>1, <2>2, <2>3 DEF Collect
  <1>4. CASE UNCHANGED vars
    BY <1>4 DEF vars
  <1>5. QED
    BY <1>2, <1>3, <1>4 DEF Next

LEMMA TypeOfInv == NodesInv /\ RunTypeOK => TypeOK
PROOF
  <1> SUFFICES ASSUME NodesInv, RunTypeOK PROVE TypeOK
    OBVIOUS
  <1> USE DEF NodesInv, NodesTypeOK
  <1>1. ToSet(list) \subseteq KubeNode
    BY MemberOfSeq
  <1>2. ToSet(items) \subseteq ToSet(list)
    <2>1. DOMAIN items = 1 .. Len(items) /\ DOMAIN list = 1 .. Len(list)
            /\ Len(items) \in Nat /\ Len(nodes) \in Nat
      BY LenProperties
    <2>2. Len(list) = Len(nodes) + Len(items)
      BY DEF LoopInv
    <2>3. \A i \in 1 .. Len(items) : Len(nodes) + i \in 1 .. Len(list)
      <3> HIDE DEF NodesInv, NodesTypeOK
      <3>1. QED
        BY <2>1, <2>2
    <2>4. \A i \in DOMAIN items : \E j \in DOMAIN list : items[i] = list[j]
      BY <2>1, <2>3 DEF LoopInv
    <2>5. QED
      BY <2>4 DEF ToSet
  <1>3. \A n \in Nodes : IsNode(n)
    BY NodeOfIsNode DEF Nodes
  <1>4. \A n \in ToSet(nodes) : IsNode(n)
    BY <1>3, MemberOfSeq
  <1>5. \A r \in ToSet(records) : r.nodes \in Seq(Nodes)
    <2> TAKE r \in ToSet(records)
    <2>1. r \in [nodes : Seq(Nodes), list : Seq(KubeNode)]
      BY MemberOfSeq
    <2>2. QED
      BY <2>1
  <1>6. \A r \in ToSet(records) : \A n \in ToSet(r.nodes) : IsNode(n)
    BY <1>3, <1>5, MemberOfSeq
  <1>7. QED
    BY <1>1, <1>2, <1>4, <1>6 DEF TypeOK, RunTypeOK, RecordsInv

\* Type correctness, and with it what the conversion makes of any node: its
\* resources in ascending order, each once, a provider and an address that are
\* never "" and nil (v2 agent.go:93-150).
THEOREM NodesTypeCorrect == Spec => []TypeOK
PROOF
  <1>1. Init => RunTypeOK
    BY DEF Init, RunTypeOK
  <1>2. NodesInv /\ RunTypeOK /\ [Next]_vars => RunTypeOK'
    BY RunTypeNext
  <1>3. QED
    BY <1>1, <1>2, NodesInvariant, TypeOfInv, PTL DEF Spec

=============================================================================
