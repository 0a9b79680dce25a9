---------------------- MODULE TelemetryPodProgress_proofs ----------------------
(***************************************************************************)
(* That a job can only take so many steps, proved for every number of      *)
(* agents and restarts: each of them leaves less to do, by a measure of    *)
(* six numbers, compared from the first on.                                *)
(***************************************************************************)
EXTENDS TelemetryPod_proofs, FiniteSetTheorems

-----------------------------------------------------------------------------
\* The measure.
PhaseLeft == IF phase = "Running" THEN 1 ELSE 0

RestartsLeft == BackoffLimit - restarts

ContainersLeft == Reporter - cur

CallLeft == IF cur = Reporter THEN ReporterLeft ELSE StoreLeft(cur)

UnreadLeft == Cardinality(unread)

LEMMA LeftIs ==
  /\ Left = <<PhaseLeft, RestartsLeft, ContainersLeft, ProcLeft, CallLeft, UnreadLeft>>
  /\ Left' = <<PhaseLeft', RestartsLeft', ContainersLeft', ProcLeft', CallLeft',
               UnreadLeft'>>
PROOF
  BY DEF Left, PhaseLeft, RestartsLeft, ContainersLeft, CallLeft, UnreadLeft

-----------------------------------------------------------------------------
\* The directory is finite, and so is the list of what is still to be read.
LEMMA ImageFinite ==
  ASSUME NEW S, IsFiniteSet(S), NEW f
  PROVE  IsFiniteSet({f[x] : x \in S})
PROOF
  <1> DEFINE T == {f[x] : x \in S}
             g == [x \in S |-> f[x]]
  <1>1. g \in Surjection(S, T)
    BY DEF Surjection
  <1> HIDE DEF g, T
  <1>2. IsFiniteSet(T)
    BY <1>1, FS_Surjection
  <1>3. QED
    BY <1>2 DEF T

FiniteInv == IsFiniteSet(files) /\ IsFiniteSet(unread)

LEMMA FiniteInvNext ==
  ASSUME FiniteInv, [Next]_vars
  PROVE  FiniteInv'
PROOF
  <1> USE DEF FiniteInv
  <1>1. CASE UNCHANGED <<files, unread>>
    BY <1>1
  <1>2. ASSUME NEW a \in Agents, AgentNext(a)
        PROVE  FiniteInv'
    <2>1. unread' = unread
      BY <1>2
      DEF AgentNext, AgentStart, AgentCollected, AgentFail, AgentStore, AgentExit,
          reporterVars
    <2>2. \/ files' = files
          \/ \E n, f : files' = {g \in files : g.name # n} \cup {f}
      BY <1>2
      DEF AgentNext, AgentStart, AgentCollected, AgentFail, AgentStore, AgentExit,
          StoreBegin, StoreStep, StoreStat, StoreCreate, StoreWrite, StoreFail,
          storeVars, dirVars
    <2>3. ASSUME NEW n, NEW f, files' = {g \in files : g.name # n} \cup {f}
          PROVE  IsFiniteSet(files')
      <3>1. IsFiniteSet({g \in files : g.name # n})
        BY FS_Subset
      <3>2. QED
        BY <2>3, <3>1, FS_AddElement
    <2>4. QED
      BY <2>1, <2>2, <2>3
  <1>3. CASE ReporterNext
    <2>1. files' = files
      BY <1>3
      DEF ReporterNext, ReporterStart, ReporterWork, ReporterAnswer,
          ReporterNoAnswer, ReporterExit, storeVars, dirVars
    <2>2. \/ unread' \subseteq unread
          \/ unread' = Names
      BY <1>3
      DEF ReporterNext, ReporterStart, ReporterNew, ReporterWork, ReporterStep,
          ReporterOpen, ReporterOpenFail, ReporterRead, ReporterReadFail,
          ReporterMarshal, Post, PostFail, PrintReport, ReporterAnswer, Response,
          ReporterNoAnswer, ResponseFail, ReporterExit, ReporterGone
    <2>3. IsFiniteSet(Names)
      <3> DEFINE name == [f \in files |-> f.name]
      <3>1. Names = {name[f] : f \in files}
        BY DEF Names
      <3> HIDE DEF name
      <3>2. QED
        BY <3>1, ImageFinite
    <2>4. QED
      BY <2>1, <2>2, <2>3, FS_Subset
  <1>4. CASE Disruption
    <2>1. unread' \subseteq unread
      BY <1>4
      DEF Disruption, Kill, SandboxRestart, VolumeLoss, StartOver, ProcessesGone,
          ReporterGone
    <2>2. \/ files' = files
          \/ \E kept, cut \in SUBSET files :
               files' = kept \cup {[f EXCEPT !.whole = FALSE] : f \in cut \ kept}
      BY <1>4 DEF Disruption, Kill, SandboxRestart, VolumeLoss, dirVars
    <2>3. ASSUME NEW kept \in SUBSET files, NEW cut \in SUBSET files
          PROVE  IsFiniteSet(kept \cup {[f EXCEPT !.whole = FALSE] : f \in cut \ kept})
      <3>1. IsFiniteSet(kept) /\ IsFiniteSet(cut \ kept)
        BY FS_Subset
      <3>2. IsFiniteSet({[f EXCEPT !.whole = FALSE] : f \in cut \ kept})
        <4> DEFINE Cut(f) == [f EXCEPT !.whole = FALSE]
                   cutShort == [f \in cut \ kept |-> Cut(f)]
        <4> HIDE DEF Cut
        <4>1. {Cut(f) : f \in cut \ kept} = {cutShort[f] : f \in cut \ kept}
          OBVIOUS
        <4> HIDE DEF cutShort
        <4>2. IsFiniteSet({Cut(f) : f \in cut \ kept})
          BY <3>1, <4>1, ImageFinite
        <4>3. QED
          BY <4>2 DEF Cut
      <3>3. QED
        BY <3>1, <3>2, FS_Union
    <2>4. QED
      BY <2>1, <2>2, <2>3, FS_Subset
  <1>5. CASE Clock \/ Network \/ Kubelet \/ UNCHANGED vars
    BY <1>1, <1>5
    DEF Clock, Tick, Network, Collector, Arrive, Kubelet, NextContainer, Complete,
        RestartContainer, GiveUp, vars, storeVars, dirVars, reporterVars
  <1>6. QED
    BY <1>2, <1>3, <1>4, <1>5 DEF Next

-----------------------------------------------------------------------------
\* The measure is of natural numbers.
LeftTypeOK ==
  /\ PhaseLeft \in Nat /\ RestartsLeft \in Nat /\ ContainersLeft \in Nat
  /\ ProcLeft \in Nat /\ CallLeft \in Nat /\ UnreadLeft \in Nat

LEMMA LeftType ==
  ASSUME PodTypeOK, FiniteInv
  PROVE  LeftTypeOK
PROOF
  <1> USE DEF PodTypeOK, TypeOK
  <1>1. PhaseLeft \in Nat
    BY DEF PhaseLeft
  <1>2. RestartsLeft \in Nat
    BY PodAssumption DEF RestartsLeft
  <1>3. Reporter \in Nat /\ (cur = Reporter \/ cur \in Agents)
    BY StoreAssumption DEF Reporter, Agents
  <1>4. ContainersLeft \in Nat
    BY <1>3 DEF ContainersLeft
  <1>5. ProcLeft \in Nat
    BY DEF ProcLeft
  <1>6. ReporterLeft \in Nat
    BY DEF ReporterTypeOK, ReporterLeft
  <1>7. ASSUME cur \in Agents PROVE StoreLeft(cur) \in Nat
    BY <1>7 DEF StoreTypeOK, StoreLeft
  <1>8. CallLeft \in Nat
    BY <1>3, <1>6, <1>7 DEF CallLeft
  <1>9. UnreadLeft \in Nat
    BY FS_CardinalityType DEF FiniteInv, UnreadLeft
  <1>10. QED
    BY <1>1, <1>2, <1>4, <1>5, <1>8, <1>9 DEF LeftTypeOK

\* A step leaves less to do when it does by one of the numbers.
LEMMA LessToDo ==
  ASSUME LeftTypeOK, LeftTypeOK',
         \/ PhaseLeft' < PhaseLeft
         \/ UNCHANGED PhaseLeft /\ RestartsLeft' < RestartsLeft
         \/ UNCHANGED <<PhaseLeft, RestartsLeft>> /\ ContainersLeft' < ContainersLeft
         \/ UNCHANGED <<PhaseLeft, RestartsLeft, ContainersLeft>> /\ ProcLeft' < ProcLeft
         \/ /\ UNCHANGED <<PhaseLeft, RestartsLeft, ContainersLeft, ProcLeft>>
            /\ CallLeft' < CallLeft
         \/ /\ UNCHANGED <<PhaseLeft, RestartsLeft, ContainersLeft, ProcLeft, CallLeft>>
            /\ UnreadLeft' < UnreadLeft
  PROVE  Precedes(Left', Left)
PROOF
  <1> DEFINE s == <<PhaseLeft', RestartsLeft', ContainersLeft', ProcLeft', CallLeft',
                    UnreadLeft'>>
             t == <<PhaseLeft, RestartsLeft, ContainersLeft, ProcLeft, CallLeft,
                    UnreadLeft>>
  <1>1. /\ s[1] = PhaseLeft' /\ s[2] = RestartsLeft' /\ s[3] = ContainersLeft'
        /\ s[4] = ProcLeft' /\ s[5] = CallLeft' /\ s[6] = UnreadLeft'
        /\ t[1] = PhaseLeft /\ t[2] = RestartsLeft /\ t[3] = ContainersLeft
        /\ t[4] = ProcLeft /\ t[5] = CallLeft /\ t[6] = UnreadLeft
        /\ s \in [1 .. 6 -> Int] /\ t \in [1 .. 6 -> Int]
    BY DEF LeftTypeOK
  <1> SUFFICES Precedes(s, t)
    BY LeftIs
  <1> HIDE DEF s, t
  <1>2. ASSUME NEW i \in 1 .. 6, s[i] < t[i], \A j \in 1 .. i - 1 : s[j] = t[j]
        PROVE  Precedes(s, t)
    BY <1>1, <1>2 DEF Precedes
  <1>3. CASE PhaseLeft' < PhaseLeft
    <2>1. s[1] < t[1] /\ \A j \in 1 .. 1 - 1 : s[j] = t[j]
      BY <1>1, <1>3
    <2>2. QED
      BY <1>2, <2>1
  <1>4. CASE UNCHANGED PhaseLeft /\ RestartsLeft' < RestartsLeft
    <2>1. s[2] < t[2] /\ \A j \in 1 .. 2 - 1 : s[j] = t[j]
      BY <1>1, <1>4
    <2>2. QED
      BY <1>2, <2>1
  <1>5. CASE UNCHANGED <<PhaseLeft, RestartsLeft>> /\ ContainersLeft' < ContainersLeft
    <2>1. s[3] < t[3] /\ \A j \in 1 .. 3 - 1 : s[j] = t[j]
      BY <1>1, <1>5
    <2>2. QED
      BY <1>2, <2>1
  <1>6. CASE UNCHANGED <<PhaseLeft, RestartsLeft, ContainersLeft>> /\ ProcLeft' < ProcLeft
    <2>1. s[4] < t[4] /\ \A j \in 1 .. 4 - 1 : s[j] = t[j]
      BY <1>1, <1>6
    <2>2. QED
      BY <1>2, <2>1
  <1>7. CASE /\ UNCHANGED <<PhaseLeft, RestartsLeft, ContainersLeft, ProcLeft>>
             /\ CallLeft' < CallLeft
    <2>1. s[5] < t[5] /\ \A j \in 1 .. 5 - 1 : s[j] = t[j]
      BY <1>1, <1>7
    <2>2. QED
      BY <1>2, <2>1
  <1>8. CASE /\ UNCHANGED <<PhaseLeft, RestartsLeft, ContainersLeft, ProcLeft, CallLeft>>
             /\ UnreadLeft' < UnreadLeft
    <2>1. s[6] < t[6] /\ \A j \in 1 .. 6 - 1 : s[j] = t[j]
      BY <1>1, <1>8
    <2>2. QED
      BY <1>2, <2>1
  <1>9. QED
    BY <1>3, <1>4, <1>5, <1>6, <1>7, <1>8

\* What the numbers are.
LEMMA ProcLeftIs ==
  /\ proc = "start" => ProcLeft = 3
  /\ proc = "collect" => ProcLeft = 2
  /\ proc = "run" => ProcLeft = 1
  /\ proc \in {"exit0", "exit1"} => ProcLeft = 0
  /\ proc' = "start" => ProcLeft' = 3
  /\ proc' = "collect" => ProcLeft' = 2
  /\ proc' = "run" => ProcLeft' = 1
  /\ proc' \in {"exit0", "exit1"} => ProcLeft' = 0
PROOF
  BY DEF ProcLeft

LEMMA StoreLeftIs ==
  ASSUME cur \in Agents, cur' = cur
  PROVE  /\ pc[cur] = "stat" => CallLeft = 3
         /\ pc[cur] = "create" => CallLeft = 2
         /\ pc[cur] = "write" => CallLeft = 1
         /\ pc'[cur] = "create" => CallLeft' = 2
         /\ pc'[cur] = "write" => CallLeft' = 1
         /\ pc'[cur] \in {"idle", "ok", "err"} => CallLeft' = 0
PROOF
  BY ReporterIsNoAgent DEF CallLeft, StoreLeft, Reporter

LEMMA ReporterLeftIs ==
  ASSUME cur = Reporter, cur' = cur
  PROVE  /\ rpc = "open" => CallLeft = 4
         /\ rpc = "read" => CallLeft = 3
         /\ rpc = "post" => CallLeft = 2
         /\ rpc = "wait" => CallLeft = 1
         /\ rpc' = "read" => CallLeft' = 3
         /\ rpc' = "post" => CallLeft' = 2
         /\ rpc' = "wait" => CallLeft' = 1
         /\ rpc' \in {"idle", "ok", "err"} => CallLeft' = 0
PROOF
  BY DEF CallLeft, ReporterLeft, Reporter

\* A step that leaves phase and restarts alone.
LEMMA SamePod ==
  ASSUME UNCHANGED <<phase, restarts>>
  PROVE  UNCHANGED <<PhaseLeft, RestartsLeft>>
PROOF
  BY DEF PhaseLeft, RestartsLeft

LEMMA SameContainer ==
  ASSUME UNCHANGED <<phase, restarts, cur>>
  PROVE  UNCHANGED <<PhaseLeft, RestartsLeft, ContainersLeft>>
PROOF
  BY DEF PhaseLeft, RestartsLeft, ContainersLeft, Reporter

LEMMA CountsDownAgent ==
  ASSUME PodInv, LeftTypeOK, LeftTypeOK', NEW a \in Agents, AgentNext(a)
  PROVE  Precedes(Left', Left)
PROOF
  <1>1. cur = a /\ UNCHANGED <<phase, restarts, cur>>
    BY DEF AgentNext, AgentStart, AgentCollected, AgentFail, AgentStore, AgentExit, At,
           podVars
  <1>2. UNCHANGED <<PhaseLeft, RestartsLeft, ContainersLeft>>
    BY <1>1, SameContainer
  <1>3. CASE AgentStart(a) \/ AgentCollected(a) \/ AgentFail(a) \/ AgentExit(a)
    <2>1. ProcLeft' < ProcLeft
      BY <1>3, ProcLeftIs DEF AgentStart, AgentCollected, AgentFail, AgentExit, At
    <2>2. QED
      BY <1>2, <2>1, LessToDo
  <1>4. CASE AgentStore(a)
    <2>1. proc = "run" /\ proc' = "run"
      BY <1>4 DEF AgentStore, At, podVars
    <2>2. UNCHANGED ProcLeft
      BY <2>1, ProcLeftIs
    <2>3. pc \in [Agents -> {"idle", "stat", "create", "write", "ok", "err"}]
            /\ place \in {"dir", "file", "absent"}
      BY StoreAssumption DEF PodInv, PodTypeOK, TypeOK, StoreTypeOK
    <2>4. \/ pc[a] = "stat" /\ pc'[a] \in {"create", "ok", "err"}
          \/ pc[a] = "create" /\ pc'[a] \in {"write", "err"}
          \/ pc[a] = "write" /\ pc'[a] \in {"ok", "err"}
      BY <1>4, <2>3
      DEF AgentStore, StoreStep, StoreStat, StoreCreate, StoreWrite, StoreFail
    <2>5. CallLeft' < CallLeft
      BY <1>1, <2>4, StoreLeftIs
    <2>6. QED
      BY <1>2, <2>2, <2>5, LessToDo
  <1>5. QED
    BY <1>3, <1>4 DEF AgentNext

LEMMA CountsDownReporter ==
  ASSUME PodInv, FiniteInv, LeftTypeOK, LeftTypeOK', ReporterNext
  PROVE  Precedes(Left', Left)
PROOF
  <1>1. cur = Reporter /\ UNCHANGED <<phase, restarts, cur>>
    BY DEF ReporterNext, ReporterStart, ReporterWork, ReporterAnswer,
           ReporterNoAnswer, ReporterExit, At, podVars
  <1>2. UNCHANGED <<PhaseLeft, RestartsLeft, ContainersLeft>>
    BY <1>1, SameContainer
  <1>3. CASE ReporterStart \/ ReporterExit
    <2>1. ProcLeft' < ProcLeft
      BY <1>3, ProcLeftIs DEF ReporterStart, ReporterExit, At
    <2>2. QED
      BY <1>2, <2>1, LessToDo
  <1>4. CASE ReporterWork \/ ReporterAnswer \/ ReporterNoAnswer
    <2>1. proc = "run" /\ proc' = "run"
      BY <1>4 DEF ReporterWork, ReporterAnswer, ReporterNoAnswer, At, podVars
    <2>2. UNCHANGED ProcLeft
      BY <2>1, ProcLeftIs
    <2>3. CASE ReporterRead
      <3>1. PICK n \in unread : unread' = unread \ {n}
        BY <2>3 DEF ReporterRead
      <3>2. UnreadLeft' = UnreadLeft - 1
        BY <3>1, FS_RemoveElement DEF FiniteInv, UnreadLeft
      <3>3. UNCHANGED CallLeft
        BY <1>1, <2>3, ReporterLeftIs DEF ReporterRead
      <3>4. QED
        BY <1>2, <2>2, <3>2, <3>3, LessToDo DEF LeftTypeOK
    <2>4. CASE ~ReporterRead
      <3>1. \/ rpc = "open" /\ rpc' \in {"read", "err"}
            \/ rpc = "read" /\ rpc' \in {"post", "err"}
            \/ rpc = "post" /\ rpc' \in {"wait", "ok", "err"}
            \/ rpc = "wait" /\ rpc' \in {"ok", "err"}
        BY <1>4, <2>4
        DEF ReporterWork, ReporterStep, ReporterOpen, ReporterOpenFail,
            ReporterReadFail, ReporterMarshal, Post, PostFail, PrintReport,
            ReporterAnswer, Response, ReporterNoAnswer, ResponseFail
      <3>2. CallLeft' < CallLeft
        BY <1>1, <3>1, ReporterLeftIs
      <3>3. QED
        BY <1>2, <2>2, <3>2, LessToDo
    <2>5. QED
      BY <2>3, <2>4
  <1>5. QED
    BY <1>3, <1>4 DEF ReporterNext

LEMMA CountsDownPod ==
  ASSUME PodInv, LeftTypeOK, LeftTypeOK', Kubelet \/ Disruption
  PROVE  Precedes(Left', Left)
PROOF
  <1>0. /\ BackoffLimit \in Nat /\ restarts \in Nat
        /\ cur \in Nat /\ Reporter \in Nat
    BY StoreAssumption, PodAssumption DEF PodInv, PodTypeOK, TypeOK, Reporter
  <1>1. CASE Complete \/ GiveUp
    <2>1. PhaseLeft' < PhaseLeft
      BY <1>1 DEF Complete, GiveUp, At, PhaseLeft
    <2>2. QED
      BY <2>1, LessToDo
  <1>2. CASE RestartContainer \/ SandboxRestart \/ VolumeLoss
    <2>1. phase' = phase /\ restarts' = restarts + 1
      BY <1>2 DEF RestartContainer, SandboxRestart, VolumeLoss, StartOver
    <2>2. UNCHANGED PhaseLeft
      BY <2>1 DEF PhaseLeft
    <2>3. RestartsLeft' < RestartsLeft
      BY <1>0, <2>1 DEF RestartsLeft
    <2>4. QED
      BY <2>2, <2>3, LessToDo
  <1>3. CASE NextContainer
    <2>1. UNCHANGED <<PhaseLeft, RestartsLeft>>
      BY <1>3, SamePod DEF NextContainer
    <2>2. ContainersLeft' < ContainersLeft
      BY <1>0, <1>3 DEF NextContainer, ContainersLeft, Reporter
    <2>3. QED
      BY <2>1, <2>2, LessToDo
  <1>4. CASE Kill
    <2>1. UNCHANGED <<PhaseLeft, RestartsLeft, ContainersLeft>>
      BY <1>4, SameContainer DEF Kill
    <2>2. ProcLeft' < ProcLeft
      BY <1>4, ProcLeftIs DEF Kill
    <2>3. QED
      BY <2>1, <2>2, LessToDo
  <1>5. QED
    BY <1>1, <1>2, <1>3, <1>4 DEF Kubelet, Disruption

\* A job can only take so many steps: each of them leaves less to do.
THEOREM JobCountsDown == Spec => CountsDown
PROOF
  <1> DEFINE v == <<dirVars, callVars, reporterVars, podVars>>
             Down == Precedes(Left', Left)
  <1>1. Init => FiniteInv
    BY FS_EmptySet DEF Init, StoreInit, ReporterInit, FiniteInv
  <1>2. FiniteInv /\ [Next]_vars => FiniteInv'
    BY FiniteInvNext
  <1>3. PodInv /\ FiniteInv => LeftTypeOK
    BY LeftType DEF PodInv
  <1>4. ASSUME PodInv, FiniteInv, LeftTypeOK, LeftTypeOK', [Next]_vars
        PROVE  [Down]_v
    <2>1. CASE Clock \/ Network \/ UNCHANGED vars
      BY <2>1
      DEF Clock, Tick, Network, Collector, Arrive, vars, storeVars, podVars
    <2>2. QED
      BY <1>4, <2>1, CountsDownAgent, CountsDownReporter, CountsDownPod DEF Next
  <1>5. PodInv /\ FiniteInv /\ LeftTypeOK /\ LeftTypeOK' /\ [Next]_vars => [Down]_v
    BY <1>4
  <1> HIDE DEF v, Down
  <1>6. Spec => [][Down]_v
    BY <1>1, <1>2, <1>3, <1>5, PodInvariant, PTL DEF Spec
  <1>7. QED
    BY <1>6 DEF CountsDown, v, Down

=============================================================================
