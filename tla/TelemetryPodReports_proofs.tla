----------------------- MODULE TelemetryPodReports_proofs ----------------------
(***************************************************************************)
(* What is in the reports of a job, against the directory they were read   *)
(* from and against each other, proved for every number of agents and      *)
(* restarts, every clock and both sinks: a report is what the directory    *)
(* holds when it leaves, a later one repeats an earlier one, and of two    *)
(* records of a kind the later one comes last.                             *)
(***************************************************************************)
EXTENDS TelemetryPod_proofs

-----------------------------------------------------------------------------
\* The report in the making: it holds the files that are no longer unread.
ReadsDirectory ==
  /\ rpc \in {"read", "post"} =>
       files = Records(report) \cup {f \in files : f.name \in unread}
  /\ rpc = "post" => unread = {}

\* What a step may do while a report is read: nothing else than the reporter
\* itself, the network, and steps it does not see.
LEMMA ReporterSees ==
  ASSUME PodInv, [Next]_vars
  PROVE  \/ rpc' \notin {"read", "post"} /\ UNCHANGED requests
         \/ UNCHANGED <<files, reporterVars, requests>>
         \/ Collector /\ UNCHANGED <<files, volume, reporterVars>>
         \/ ReporterWork
PROOF
  <1>1. CASE Clock \/ Kubelet \/ UNCHANGED vars
    BY <1>1
    DEF Clock, Tick, Kubelet, NextContainer, Complete, RestartContainer, GiveUp,
        vars, storeVars, dirVars
  <1>2. CASE Network
    BY <1>2 DEF Network, Collector, Arrive, storeVars, dirVars, podVars
  <1>3. ASSUME NEW a \in Agents, AgentNext(a)
        PROVE  rpc' \notin {"read", "post"} /\ UNCHANGED requests
    <2>1. cur = a /\ UNCHANGED <<rpc, requests>>
      BY <1>3
      DEF AgentNext, AgentStart, AgentCollected, AgentFail, AgentStore, AgentExit, At,
          reporterVars
    <2>2. QED
      BY <2>1, ReporterIsNoAgent DEF PodInv, DirInv, OneAtATime
  <1>4. CASE ReporterStart \/ ReporterAnswer \/ ReporterNoAnswer \/ ReporterExit
    BY <1>4
    DEF ReporterStart, ReporterNew, ReporterAnswer, Response, ReporterNoAnswer,
        ResponseFail, ReporterExit, ReporterGone
  <1>5. CASE Disruption
    BY <1>5
    DEF Disruption, Kill, SandboxRestart, VolumeLoss, StartOver, ProcessesGone,
        ReporterGone
  <1>6. QED
    BY <1>1, <1>2, <1>3, <1>4, <1>5 DEF Next, ReporterNext

\* What the reporter's own steps do: only a report of the whole directory
\* leaves.
LEMMA ReporterLeaves ==
  ASSUME PodInv, ReadsDirectory, ReporterWork
  PROVE  /\ UNCHANGED <<files, volume, rec, pc, target, now, cur, proc, stamp>>
         /\ \/ ReporterStep /\ UNCHANGED requests
            \/ rpc' \notin {"read", "post"} /\ UNCHANGED requests
            \/ /\ rpc = "post" /\ rpc' \notin {"read", "post"}
               /\ Records(report) = files
               /\ \E s \in {"sent", "printed", "unprinted"} : Leave(volume, s)
PROOF
  <1>1. UNCHANGED <<files, volume, rec, pc, target, now, cur, proc, stamp>>
    BY DEF ReporterWork, storeVars, dirVars, callVars, podVars
  <1>2. rpc = "post" => Records(report) = files
    BY DEF ReadsDirectory
  <1>3. QED
    BY <1>1, <1>2 DEF ReporterWork, Post, PostFail, PrintReport

LEMMA ReadsDirectoryNext ==
  ASSUME PodInv, ReadsDirectory, [Next]_vars
  PROVE  ReadsDirectory'
PROOF
  <1>0. StoreTypeOK /\ ReporterTypeOK
    BY DEF PodInv, PodTypeOK, TypeOK
  <1>1. CASE rpc' \notin {"read", "post"}
    BY <1>1 DEF ReadsDirectory
  <1>2. CASE UNCHANGED <<files, reporterVars>>
    BY <1>2 DEF ReadsDirectory, reporterVars, Records
  <1>3. ASSUME ReporterStep, files' = files
        PROVE  ReadsDirectory'
    <2>1. CASE ReporterOpen
      BY <1>3, <2>1 DEF ReporterOpen, ReadsDirectory, Names, Records
    <2>2. CASE ReporterRead
      <3>1. PICK n \in unread, f \in files :
              /\ f.name = n /\ unread' = unread \ {n}
              /\ report' = [report EXCEPT !.records = Append(@, f)]
        BY <2>2 DEF ReporterRead
      <3>2. Records(report') = Records(report) \cup {f}
        BY <1>0, <3>1, RecordsAppend DEF StoreTypeOK, ReporterTypeOK
      <3>3. {g \in files : g.name \in unread} =
              {g \in files : g.name \in unread \ {n}} \cup {f}
        BY <3>1 DEF PodInv, DirInv, OneFilePerName
      <3>4. rpc = "read" /\ rpc' = "read"
        BY <2>2 DEF ReporterRead
      <3>5. files' = Records(report)' \cup {g \in files' : g.name \in unread'}
        <4>1. Records(report)' = Records(report')
          BY DEF Records
        <4>2. QED
          BY <1>3, <3>1, <3>2, <3>3, <3>4, <4>1 DEF ReadsDirectory
      <3>6. QED
        BY <3>4, <3>5 DEF ReadsDirectory
    <2>3. CASE ReporterMarshal
      BY <1>3, <2>3 DEF ReporterMarshal, ReadsDirectory, Records
    <2>4. CASE ReporterOpenFail \/ ReporterReadFail
      BY <2>4 DEF ReporterOpenFail, ReporterReadFail, ReadsDirectory
    <2>5. QED
      BY <1>3, <2>1, <2>2, <2>3, <2>4 DEF ReporterStep
  <1>4. QED
    BY <1>1, <1>2, <1>3, ReporterSees, ReporterLeaves

LEMMA ReadsDirectoryInvariant == Spec => [](PodInv /\ ReadsDirectory)
PROOF
  <1>1. Init => ReadsDirectory
    BY DEF Init, ReporterInit, ReadsDirectory
  <1>2. PodInv /\ ReadsDirectory /\ [Next]_vars => ReadsDirectory'
    BY ReadsDirectoryNext
  <1>3. QED
    BY <1>1, <1>2, PodInvariant, PTL DEF Spec

\* Every report is, when it leaves, what the directory holds.
THEOREM PostsAreCurrent == Spec => PostIsCurrent
PROOF
  <1> DEFINE Current ==
        Len(requests') > Len(requests) =>
          Records(requests'[Len(requests')].report) = files
  <1>1. ASSUME PodInv, ReadsDirectory, [Next]_vars
        PROVE  [Current]_requests
    <2>1. HTTPTypeOK /\ Len(requests) \in Nat
      BY <1>1 DEF PodInv, PodTypeOK, TypeOK, HTTPTypeOK
    <2>2. CASE UNCHANGED requests
      BY <2>2
    <2>3. CASE Collector
      BY <2>1, <2>3, CollectorChanges
    <2>4. CASE Records(report) = files /\ \E s \in {"sent", "printed", "unprinted"} : Leave(volume, s)
      <3>1. requests'[Len(requests')].report = report
        BY <2>1, <2>4, LeaveAppends
      <3>2. QED
        BY <2>4, <3>1
    <2>5. QED
      BY <1>1, <2>2, <2>3, <2>4, ReporterSees, ReporterLeaves
  <1>2. PodInv /\ ReadsDirectory /\ [Next]_vars => [Current]_requests
    BY <1>1
  <1> HIDE DEF Current
  <1>3. Spec => [][Current]_requests
    BY <1>2, ReadsDirectoryInvariant, PTL DEF Spec
  <1>4. QED
    BY <1>3 DEF PostIsCurrent, Current

-----------------------------------------------------------------------------
\* The volume.  Whole records leave it only with the volume; the file an
\* agent is writing is not whole.
TargetUnfinished ==
  \A a \in Agents : pc[a] = "write" =>
    \A f \in files : f.name = target[a] => ~f.whole

\* The volume holds what the reports of it hold.
ReportsInVolume ==
  \A i \in 1 .. Len(requests) :
    /\ requests[i].volume <= volume
    /\ requests[i].volume = volume => Records(requests[i].report) \subseteq files

VolumeInv == TargetUnfinished /\ ReportsInVolume /\ RetriesRepeat

WholeKept == \A f \in files : f.whole => f \in files'

\* A step of the store keeps whole records and leaves what it writes
\* unfinished.
LEMMA StoreKeeps ==
  ASSUME PodInv, TargetUnfinished, NEW a \in Agents, StoreStep(a),
         \A b \in Agents : b # a => pc[b] = "idle"
  PROVE  TargetUnfinished' /\ WholeKept
PROOF
  <1>0. pc \in [Agents -> {"idle", "stat", "create", "write", "ok", "err"}]
          /\ target \in [Agents -> Name]
    BY DEF PodInv, PodTypeOK, TypeOK, StoreTypeOK
  <1> USE <1>0 DEF TargetUnfinished, WholeKept
  <1>1. CASE StoreStat(a) \/ StoreFail(a)
    <2>1. pc'[a] # "write" /\ files' = files
            /\ \A b \in Agents : b # a => pc'[b] = pc[b]
      BY <1>1, StoreAssumption
      DEF StoreStat, StoreFail, dirVars, PodInv, PodTypeOK, TypeOK, StoreTypeOK
    <2>2. QED
      BY <2>1
  <1>2. CASE StoreCreate(a)
    <2> DEFINE new(n) == [name |-> n, rec |-> rec[a], whole |-> FALSE]
    <2>1. PICK n \in Name :
            /\ n \notin Names
            /\ files' = {f \in files : f.name # n} \cup {new(n)}
            /\ target'[a] = n
      BY <1>2 DEF StoreCreate, DrawName
    <2>2. new(n).name = n /\ ~new(n).whole
      OBVIOUS
    <2> HIDE DEF new
    <2>3. \A b \in Agents : b # a => pc'[b] = "idle"
      BY <1>2 DEF StoreCreate
    <2>4. QED
      BY <2>1, <2>2, <2>3 DEF Names
  <1>3. CASE StoreWrite(a)
    <2>1. \A f \in files : f.whole => f.name # target[a]
      BY <1>3 DEF StoreWrite
    <2>2. \A b \in Agents : pc'[b] # "write"
      BY <1>3 DEF StoreWrite
    <2>3. QED
      BY <1>3, <2>1, <2>2 DEF StoreWrite
  <1>4. QED
    BY <1>1, <1>2, <1>3 DEF StoreStep

LEMMA VolumeKeeps ==
  ASSUME PodInv, TargetUnfinished, [Next]_vars
  PROVE  /\ TargetUnfinished'
         /\ \/ volume' = volume /\ WholeKept
            \/ volume' = volume + 1 /\ UNCHANGED requests
PROOF
  <1>1. CASE Clock \/ Network \/ ReporterNext \/ Kubelet \/ UNCHANGED vars
    <2>1. UNCHANGED <<files, pc, target, volume>>
      BY <1>1
      DEF Clock, Tick, Network, ReporterNext, ReporterStart, ReporterWork,
          ReporterAnswer, ReporterNoAnswer, ReporterExit, Kubelet, NextContainer,
          Complete, RestartContainer, GiveUp, vars, storeVars, dirVars, callVars,
          podVars
    <2>2. QED
      BY <2>1 DEF TargetUnfinished, WholeKept
  <1>2. ASSUME NEW a \in Agents, AgentNext(a)
        PROVE  TargetUnfinished' /\ volume' = volume /\ WholeKept
    <2>1. cur = a /\ volume' = volume
      BY <1>2
      DEF AgentNext, AgentStart, AgentCollected, AgentFail, AgentStore, AgentExit, At,
          podVars
    <2>2. \A b \in Agents : b # a => pc[b] = "idle"
      BY <2>1 DEF PodInv, DirInv, OneAtATime
    <2>3. CASE AgentStore(a)
      BY <2>1, <2>2, <2>3, StoreKeeps DEF AgentStore
    <2>4. CASE ~AgentStore(a)
      <3>1. files' = files /\ \A b \in Agents : pc'[b] = "write" =>
              pc[b] = "write" /\ target'[b] = target[b]
        BY <1>2, <2>4
        DEF AgentNext, AgentStart, AgentCollected, AgentFail, AgentExit, StoreBegin,
            StoreGone, storeVars, dirVars, callVars, PodInv, PodTypeOK, TypeOK,
            StoreTypeOK
      <3>2. QED
        BY <2>1, <3>1 DEF TargetUnfinished, WholeKept
    <2>5. QED
      BY <2>3, <2>4
  <1>3. CASE Disruption
    <2>1. \A a \in Agents : pc'[a] = "idle"
      BY <1>3
      DEF Disruption, Kill, SandboxRestart, VolumeLoss, StartOver, ProcessesGone
    <2>2. \/ files' = files /\ volume' = volume
          \/ volume' = volume + 1 /\ UNCHANGED requests
      BY <1>3 DEF Disruption, Kill, SandboxRestart, VolumeLoss, StartOver, dirVars
    <2>3. QED
      BY <2>1, <2>2 DEF TargetUnfinished, WholeKept
  <1>4. QED
    BY <1>1, <1>2, <1>3 DEF Next

\* The prime of the properties, where Records stays as it is.
LEMMA PrimesOfVolumeInv ==
  /\ RetriesRepeat' <=>
       \A i, j \in 1 .. Len(requests') :
         i < j /\ requests'[i].volume = requests'[j].volume =>
           Records(requests'[i].report) \subseteq Records(requests'[j].report)
  /\ ReportsInVolume' <=>
       \A i \in 1 .. Len(requests') :
         /\ requests'[i].volume <= volume'
         /\ requests'[i].volume = volume' =>
              Records(requests'[i].report) \subseteq files'
PROOF
  BY DEF RetriesRepeat, ReportsInVolume, Records

LEMMA VolumeInvNext ==
  ASSUME PodInv, ReadsDirectory, VolumeInv, [Next]_vars
  PROVE  VolumeInv'
PROOF
  <1>0. /\ HTTPTypeOK /\ volume \in Nat /\ Len(requests) \in Nat
        /\ \A i \in 1 .. Len(requests) : requests[i].volume \in Nat
    <2>1. HTTPTypeOK /\ volume \in Nat
      BY PodAssumption DEF PodInv, PodTypeOK, TypeOK
    <2>2. \A i \in 1 .. Len(requests) : requests[i] \in Request
      BY <2>1 DEF HTTPTypeOK
    <2>3. QED
      BY <2>1, <2>2 DEF HTTPTypeOK, Request
  <1>1. TargetUnfinished'
    BY VolumeKeeps DEF VolumeInv
  <1>2. ASSUME WholeKept, volume' = volume, NEW i \in 1 .. Len(requests)
        PROVE  /\ requests[i].volume <= volume'
               /\ requests[i].volume = volume' =>
                    Records(requests[i].report) \subseteq files'
    <2>1. \A f \in Records(requests[i].report) : f.whole
      BY DEF PodInv, ReportInv, OfferedComplete, CompleteReport
    <2>2. QED
      BY <1>2, <2>1 DEF VolumeInv, ReportsInVolume, WholeKept
  <1>3. CASE UNCHANGED requests
    <2>1. ReportsInVolume'
      <3>1. CASE volume' = volume + 1
        BY <1>0, <1>3, <3>1, PrimesOfVolumeInv DEF VolumeInv, ReportsInVolume
      <3>2. CASE volume' = volume /\ WholeKept
        BY <1>2, <1>3, <3>2, PrimesOfVolumeInv
      <3>3. QED
        BY <3>1, <3>2, VolumeKeeps DEF VolumeInv
    <2>2. QED
      BY <1>1, <1>3, <2>1, PrimesOfVolumeInv DEF VolumeInv, RetriesRepeat
  <1>4. CASE Collector /\ UNCHANGED <<files, volume>>
    <2>1. /\ Len(requests') = Len(requests)
          /\ \A i \in 1 .. Len(requests) :
               /\ requests'[i].volume = requests[i].volume
               /\ requests'[i].report = requests[i].report
      BY <1>0, <1>4, CollectorChanges
    <2>2. \A i \in 1 .. Len(requests) :
            Records(requests'[i].report) = Records(requests[i].report)
      BY <2>1 DEF Records
    <2>3. ReportsInVolume'
      BY <1>4, <2>1, <2>2, PrimesOfVolumeInv DEF VolumeInv, ReportsInVolume
    <2>4. RetriesRepeat'
      BY <2>1, <2>2, PrimesOfVolumeInv DEF VolumeInv, RetriesRepeat
    <2>5. QED
      BY <1>1, <2>3, <2>4 DEF VolumeInv
  <1>5. CASE /\ UNCHANGED <<files, volume>> /\ Records(report) = files
             /\ \E s \in {"sent", "printed", "unprinted"} : Leave(volume, s)
    <2>1. /\ Len(requests') = Len(requests) + 1
          /\ \A i \in 1 .. Len(requests) : requests'[i] = requests[i]
          /\ requests'[Len(requests')].volume = volume
          /\ requests'[Len(requests')].report = report
      BY <1>0, <1>5, LeaveAppends
    <2>2. \A i \in 1 .. Len(requests') :
            i \in 1 .. Len(requests) \/ i = Len(requests')
      BY <1>0, <2>1
    <2>3. Records(requests'[Len(requests')].report) = files
      BY <1>5, <2>1 DEF Records
    <2>4. ReportsInVolume'
      <3> SUFFICES ASSUME NEW i \in 1 .. Len(requests')
                   PROVE  /\ requests'[i].volume <= volume
                          /\ requests'[i].volume = volume =>
                               Records(requests'[i].report) \subseteq files
        BY <1>5, PrimesOfVolumeInv
      <3>1. CASE i \in 1 .. Len(requests)
        BY <2>1, <3>1 DEF VolumeInv, ReportsInVolume
      <3>2. CASE i = Len(requests')
        BY <1>0, <2>1, <2>3, <3>2
      <3>3. QED
        BY <2>2, <3>1, <3>2
    <2>5. RetriesRepeat'
      <3> SUFFICES ASSUME NEW i \in 1 .. Len(requests'), NEW j \in 1 .. Len(requests'),
                          i < j, requests'[i].volume = requests'[j].volume
                   PROVE  Records(requests'[i].report)
                            \subseteq Records(requests'[j].report)
        BY PrimesOfVolumeInv
      <3>1. i \in 1 .. Len(requests)
        BY <1>0, <2>1
      <3>2. CASE j \in 1 .. Len(requests)
        BY <2>1, <3>1, <3>2 DEF VolumeInv, RetriesRepeat
      <3>3. CASE j = Len(requests')
        BY <2>1, <2>3, <3>1, <3>3 DEF VolumeInv, ReportsInVolume
      <3>4. QED
        BY <2>2, <3>2, <3>3
    <2>6. QED
      BY <1>1, <2>4, <2>5 DEF VolumeInv
  <1>6. QED
    BY <1>3, <1>4, <1>5, ReporterSees, ReporterLeaves

\* Of the reports of one volume a later one repeats every record of an
\* earlier one.
THEOREM LaterReportsRepeat == Spec => []RetriesRepeat
PROOF
  <1>1. Init => VolumeInv
    BY DEF Init, StoreInit, HTTPInit, VolumeInv, TargetUnfinished, ReportsInVolume,
           RetriesRepeat
  <1>2. PodInv /\ ReadsDirectory /\ VolumeInv /\ [Next]_vars => VolumeInv'
    BY VolumeInvNext
  <1>3. VolumeInv => RetriesRepeat
    BY DEF VolumeInv
  <1>4. QED
    BY <1>1, <1>2, <1>3, ReadsDirectoryInvariant, PTL DEF Spec

-----------------------------------------------------------------------------
\* Times.  Of two records of a kind the newer one has the later file name, or
\* one of the same second.  What makes it so: a record is stamped after all
\* records of its kind were stored, and before it is stored itself.
NewerLater(S) ==
  \A f, g \in S :
    f.rec.kind = g.rec.kind /\ f.rec.time < g.rec.time => f.name.sec <= g.name.sec

FilesTimed == \A f \in files : f.rec.time <= f.name.sec /\ f.name.sec <= now

\* All records of agent a were stored by time t.
StoredBy(a, t) == \A f \in files : f.rec.kind = a => f.name.sec <= t

CallsTimed ==
  \A a \in Agents :
    /\ cur = a /\ proc = "collect" => stamp <= now /\ StoredBy(a, stamp)
    /\ pc[a] \in {"stat", "create", "write"} => rec[a].time <= now
    /\ pc[a] \in {"stat", "create"} => StoredBy(a, rec[a].time)
    /\ pc[a] = "write" => rec[a].time <= target[a].sec /\ target[a].sec <= now

\* The file an agent is writing is the one it has created.
TargetIsCall ==
  \A a \in Agents : pc[a] = "write" =>
    \A f \in files : f.rec.kind = a =>
      IF f.name = target[a] THEN f.rec = rec[a] ELSE f.name.sec <= rec[a].time

DirTimed == NewerLater(files) /\ FilesTimed /\ CallsTimed /\ TargetIsCall

\* The report in the making is in the order of the names.
InOrder(s) ==
  \A j, k \in 1 .. Len(s) : j < k => s[j].name.sec <= s[k].name.sec

ReadsInOrder ==
  rpc \in {"read", "post"} =>
    /\ InOrder(report.records)
    /\ \A i \in 1 .. Len(report.records), n \in unread :
         report.records[i].name.sec <= n.sec

\* A change of the directory that makes no new names or records.
LEMMA DirTimedFrame ==
  ASSUME DirTimed, TypeOK, now' \in Nat, now <= now',
         \A f \in files' : \E g \in files : g.name = f.name /\ g.rec = f.rec,
         \A a \in Agents :
           /\ cur' = a /\ proc' = "collect" =>
                cur = a /\ proc = "collect" /\ stamp' = stamp
           /\ pc'[a] \in {"stat", "create", "write"} =>
                pc'[a] = pc[a] /\ rec'[a] = rec[a] /\ target'[a] = target[a]
  PROVE  DirTimed'
PROOF
  <1>0. /\ now \in Nat /\ stamp \in Nat
        /\ \A f \in files : f.name.sec \in Nat /\ f.rec.time \in Nat
        /\ \A a \in Agents : rec[a].time \in Nat /\ target[a].sec \in Nat
    BY DEF TypeOK, StoreTypeOK, File, Name, Record, Time
  <1>1. NewerLater(files)'
    BY DEF DirTimed, NewerLater
  <1>2. FilesTimed'
    BY <1>0 DEF DirTimed, FilesTimed
  <1>3. ASSUME NEW a \in Agents, NEW t, StoredBy(a, t)
        PROVE  \A f \in files' : f.rec.kind = a => f.name.sec <= t
    BY <1>3 DEF StoredBy
  <1>4. CallsTimed'
    <2> SUFFICES ASSUME NEW a \in Agents
                 PROVE  /\ cur' = a /\ proc' = "collect" =>
                             stamp' <= now' /\ StoredBy(a, stamp)'
                        /\ pc'[a] \in {"stat", "create", "write"} => rec'[a].time <= now'
                        /\ pc'[a] \in {"stat", "create"} => StoredBy(a, rec[a].time)'
                        /\ pc'[a] = "write" =>
                             rec'[a].time <= target'[a].sec /\ target'[a].sec <= now'
      BY DEF CallsTimed
    <2>1. ASSUME cur' = a, proc' = "collect"
          PROVE  stamp' <= now' /\ StoredBy(a, stamp)'
      <3>1. stamp' = stamp /\ stamp <= now /\ StoredBy(a, stamp)
        BY <2>1 DEF DirTimed, CallsTimed
      <3>2. QED
        BY <1>0, <1>3, <3>1 DEF StoredBy
    <2>2. ASSUME pc'[a] \in {"stat", "create"}
          PROVE  StoredBy(a, rec[a].time)'
      <3>1. rec'[a] = rec[a] /\ StoredBy(a, rec[a].time)
        BY <2>2 DEF DirTimed, CallsTimed
      <3>2. QED
        BY <1>3, <3>1 DEF StoredBy
    <2>3. ASSUME pc'[a] \in {"stat", "create", "write"}
          PROVE  /\ rec'[a].time <= now'
                 /\ pc'[a] = "write" =>
                      rec'[a].time <= target'[a].sec /\ target'[a].sec <= now'
      BY <1>0, <2>3 DEF DirTimed, CallsTimed
    <2>4. QED
      BY <2>1, <2>2, <2>3
  <1>5. TargetIsCall'
    BY DEF DirTimed, TargetIsCall
  <1>6. QED
    BY <1>1, <1>2, <1>4, <1>5 DEF DirTimed

\* The system calls of agent a, which alone is storing.
LEMMA DirTimedStore ==
  ASSUME PodInv, DirTimed, NEW a \in Agents, StoreStep(a), cur' = a, proc' = "run",
         \A b \in Agents : b # a => pc[b] = "idle"
  PROVE  DirTimed'
PROOF
  <1>0. /\ now \in Nat /\ now' = now /\ stamp \in Nat /\ TypeOK
        /\ pc \in [Agents -> {"idle", "stat", "create", "write", "ok", "err"}]
        /\ rec \in [Agents -> Record] /\ target \in [Agents -> Name]
        /\ place \in {"dir", "file", "absent"}
        /\ \A f \in files : f.name.sec \in Nat /\ f.rec.time \in Nat
        /\ rec[a].time \in Nat /\ target[a].sec \in Nat /\ rec[a].kind = a
    BY StoreAssumption
    DEF PodInv, PodTypeOK, TypeOK, StoreTypeOK, File, Name, Record, Time, DirInv,
        RecordIsOwn, StoreStep, StoreStat, StoreCreate, StoreWrite, StoreFail
  <1>1. CASE StoreFail(a)
    <2>1. UNCHANGED <<files, rec, target>> /\ pc' = [pc EXCEPT ![a] = "err"]
      BY <1>1 DEF StoreFail, dirVars
    <2>2. QED
      BY <1>0, <2>1, DirTimedFrame
  <1>2. CASE StoreStat(a)
    <2>1. UNCHANGED <<files, rec, target>> /\ pc[a] = "stat"
            /\ pc'[a] \in {"create", "ok", "err"}
            /\ \A b \in Agents : b # a => pc'[b] = "idle"
      BY <1>0, <1>2 DEF StoreStat, dirVars
    <2>2. CallsTimed'
      BY <1>0, <2>1 DEF DirTimed, CallsTimed, StoredBy
    <2>3. QED
      BY <1>0, <2>1, <2>2 DEF DirTimed, NewerLater, FilesTimed, TargetIsCall
  <1>3. CASE StoreCreate(a)
    <2> DEFINE new(n) == [name |-> n, rec |-> rec[a], whole |-> FALSE]
    <2>1. PICK n \in Name :
            /\ n \notin Names /\ n.sec = now
            /\ files' = {f \in files : f.name # n} \cup {new(n)}
            /\ target' = [target EXCEPT ![a] = n]
      BY <1>3 DEF StoreCreate, DrawName
    <2>2. new(n).name = n /\ new(n).rec = rec[a]
      OBVIOUS
    <2> HIDE DEF new
    <2>3. /\ pc[a] = "create" /\ pc'[a] = "write" /\ rec' = rec
          /\ \A b \in Agents : b # a => pc'[b] = "idle"
      BY <1>0, <1>3 DEF StoreCreate
    <2>4. rec[a].time <= now /\ StoredBy(a, rec[a].time)
      BY <2>3 DEF DirTimed, CallsTimed
    <2>5. NewerLater(files)'
      <3> SUFFICES ASSUME NEW f \in files', NEW g \in files',
                          f.rec.kind = g.rec.kind, f.rec.time < g.rec.time
                   PROVE  f.name.sec <= g.name.sec
        BY DEF NewerLater
      <3>1. CASE f \in files /\ g \in files
        BY <3>1 DEF DirTimed, NewerLater
      <3>2. CASE f = new(n)
        <4>1. g \in files /\ g.rec.kind = a
          BY <1>0, <2>1, <2>2, <3>2
        <4>2. g.rec.time <= g.name.sec /\ g.name.sec <= rec[a].time
          BY <2>4, <4>1 DEF DirTimed, FilesTimed, StoredBy
        <4>3. QED
          BY <1>0, <2>2, <3>2, <4>1, <4>2
      <3>3. CASE f \in files /\ g = new(n)
        BY <1>0, <2>1, <2>2, <3>3 DEF DirTimed, FilesTimed
      <3>4. QED
        BY <2>1, <3>1, <3>2, <3>3
    <2>6. FilesTimed'
      BY <1>0, <2>1, <2>2, <2>4 DEF DirTimed, FilesTimed
    <2>7. CallsTimed'
      BY <1>0, <2>1, <2>3, <2>4 DEF CallsTimed
    <2>8. TargetIsCall'
      BY <1>0, <2>1, <2>2, <2>3, <2>4 DEF TargetIsCall, StoredBy
    <2>9. QED
      BY <2>5, <2>6, <2>7, <2>8 DEF DirTimed
  <1>4. CASE StoreWrite(a)
    <2> DEFINE new == [name |-> target[a], rec |-> rec[a], whole |-> TRUE]
    <2>1. /\ files' = {f \in files : f.name # target[a]} \cup {new}
          /\ pc[a] = "write" /\ \A b \in Agents : pc'[b] \in {"ok", "idle"}
      BY <1>0, <1>4 DEF StoreWrite
    <2>2. new.name = target[a] /\ new.rec = rec[a]
      OBVIOUS
    <2> HIDE DEF new
    <2>3. rec[a].time <= target[a].sec /\ target[a].sec <= now
      BY <2>1 DEF DirTimed, CallsTimed
    <2>4. \A f \in files : f.rec.kind = a /\ f.name # target[a] =>
            f.name.sec <= rec[a].time /\ f.rec.time <= f.name.sec
      BY <2>1 DEF DirTimed, TargetIsCall, FilesTimed
    <2>5. NewerLater(files)'
      <3> SUFFICES ASSUME NEW f \in files', NEW g \in files',
                          f.rec.kind = g.rec.kind, f.rec.time < g.rec.time
                   PROVE  f.name.sec <= g.name.sec
        BY DEF NewerLater
      <3>1. CASE f \in files /\ g \in files
        BY <3>1 DEF DirTimed, NewerLater
      <3>2. CASE f = new /\ g \in files /\ g.name # target[a]
        BY <1>0, <2>2, <2>4, <3>2
      <3>3. CASE g = new /\ f \in files /\ f.name # target[a]
        BY <1>0, <2>2, <2>3, <2>4, <3>3
      <3>4. QED
        BY <1>0, <2>1, <2>2, <3>1, <3>2, <3>3
    <2>6. FilesTimed'
      BY <1>0, <2>1, <2>2, <2>3 DEF DirTimed, FilesTimed
    <2>7. CallsTimed' /\ TargetIsCall'
      BY <1>0, <2>1 DEF CallsTimed, TargetIsCall
    <2>8. QED
      BY <2>5, <2>6, <2>7 DEF DirTimed
  <1>5. QED
    BY <1>1, <1>2, <1>3, <1>4 DEF StoreStep

LEMMA DirTimedAgent ==
  ASSUME PodInv, DirTimed, NEW a \in Agents, AgentNext(a)
  PROVE  DirTimed'
PROOF
  <1>0. /\ now \in Nat /\ stamp \in Nat /\ TypeOK
        /\ pc \in [Agents -> {"idle", "stat", "create", "write", "ok", "err"}]
        /\ rec \in [Agents -> Record] /\ target \in [Agents -> Name]
    BY DEF PodInv, PodTypeOK, TypeOK, StoreTypeOK, Time
  <1>1. cur = a /\ cur' = a /\ now' = now
    BY DEF AgentNext, AgentStart, AgentCollected, AgentFail, AgentStore, AgentExit, At,
           StoreBegin, StoreStep, StoreStat, StoreCreate, StoreWrite, StoreFail,
           storeVars, podVars
  <1>2. \A b \in Agents : b # a => pc[b] = "idle"
    BY <1>1 DEF PodInv, DirInv, OneAtATime
  <1>3. proc # "run" => pc[a] = "idle"
    BY DEF PodInv, DirInv, OneAtATime
  <1>4. CASE AgentStart(a)
    <2>1. /\ UNCHANGED <<files, pc, rec, target>> /\ stamp' = now
          /\ \A b \in Agents : pc[b] = "idle"
      BY <1>2, <1>3, <1>4 DEF AgentStart, At, storeVars, dirVars, callVars
    <2>2. StoredBy(a, now)
      BY DEF DirTimed, FilesTimed, StoredBy
    <2>3. CallsTimed'
      BY <1>0, <1>1, <2>1, <2>2 DEF CallsTimed, StoredBy
    <2>4. QED
      BY <1>1, <2>1, <2>3 DEF DirTimed, NewerLater, FilesTimed, TargetIsCall
  <1>5. CASE AgentCollected(a)
    <2>1. /\ UNCHANGED <<files, target>> /\ proc = "collect" /\ proc' = "run"
          /\ pc' = [pc EXCEPT ![a] = "stat"]
          /\ rec' = [rec EXCEPT ![a] = [kind |-> a, time |-> stamp]]
      BY <1>5 DEF AgentCollected, StoreBegin, dirVars, At
    <2>2. /\ pc'[a] = "stat" /\ rec'[a].time = stamp
          /\ \A b \in Agents : b # a => pc'[b] = "idle"
      BY <1>0, <1>2, <2>1
    <2>3. stamp <= now /\ StoredBy(a, stamp)
      BY <1>1, <2>1 DEF DirTimed, CallsTimed
    <2>4. CallsTimed'
      BY <1>1, <2>1, <2>2, <2>3 DEF CallsTimed, StoredBy
    <2>5. QED
      BY <1>1, <2>1, <2>2, <2>4 DEF DirTimed, NewerLater, FilesTimed, TargetIsCall
  <1>6. CASE AgentStore(a)
    BY <1>1, <1>2, <1>6, DirTimedStore DEF AgentStore, podVars, At
  <1>7. CASE AgentFail(a) \/ AgentExit(a)
    <2>1. /\ files' = files /\ proc' \in {"exit0", "exit1"}
          /\ \A b \in Agents :
               \/ pc'[b] = "idle"
               \/ pc'[b] = pc[b] /\ rec'[b] = rec[b] /\ target'[b] = target[b]
      BY <1>0, <1>7
      DEF AgentFail, AgentExit, StoreGone, storeVars, dirVars, callVars
    <2>2. QED
      BY <1>0, <1>1, <2>1, DirTimedFrame
  <1>8. QED
    BY <1>4, <1>5, <1>6, <1>7 DEF AgentNext

LEMMA DirTimedNext ==
  ASSUME PodInv, DirTimed, [Next]_vars
  PROVE  DirTimed'
PROOF
  <1>0. TypeOK /\ now \in Nat
    BY DEF PodInv, PodTypeOK, TypeOK, StoreTypeOK, Time
  <1>1. CASE Clock \/ Network \/ Kubelet \/ UNCHANGED vars
    <2>1. UNCHANGED <<files, pc, rec, target, stamp>> /\ now' \in {now, now + 1}
      BY <1>1
      DEF Clock, Tick, Network, Kubelet, NextContainer, Complete, RestartContainer,
          GiveUp, vars, storeVars, dirVars, callVars, podVars
    <2>2. proc' = "collect" => proc = "collect" /\ cur' = cur
      BY <1>1
      DEF Clock, Network, Kubelet, NextContainer, Complete, RestartContainer, GiveUp,
          vars, podVars
    <2>3. QED
      BY <1>0, <2>1, <2>2, DirTimedFrame
  <1>2. CASE ReporterNext
    <2>1. UNCHANGED <<files, pc, rec, target, now>> /\ cur' = Reporter
      BY <1>2
      DEF ReporterNext, ReporterStart, ReporterWork, ReporterAnswer,
          ReporterNoAnswer, ReporterExit, At, storeVars, dirVars, callVars, podVars
    <2>2. QED
      BY <1>0, <2>1, ReporterIsNoAgent, DirTimedFrame
  <1>3. CASE Disruption
    <2>1. /\ now' = now /\ proc' \in {"start", "exit1"}
          /\ \A a \in Agents : pc'[a] = "idle"
      BY <1>3
      DEF Disruption, Kill, SandboxRestart, VolumeLoss, StartOver, ProcessesGone
    <2>2. \A f \in files' : \E g \in files : g.name = f.name /\ g.rec = f.rec
      <3>1. CASE VolumeLoss
        <4> DEFINE Cut(g) == [g EXCEPT !.whole = FALSE]
        <4>1. \A g \in files : Cut(g).name = g.name /\ Cut(g).rec = g.rec
          BY <1>0 DEF TypeOK, StoreTypeOK, File
        <4>2. \A f \in files' : \E g \in files : f = g \/ f = Cut(g)
          BY <3>1 DEF VolumeLoss
        <4> HIDE DEF Cut
        <4>3. QED
          BY <4>1, <4>2
      <3>2. CASE Kill \/ SandboxRestart
        BY <3>2 DEF Kill, SandboxRestart, dirVars
      <3>3. QED
        BY <1>3, <3>1, <3>2 DEF Disruption
    <2>3. QED
      BY <1>0, <2>1, <2>2, DirTimedFrame
  <1>4. QED
    BY <1>1, <1>2, <1>3, DirTimedAgent DEF Next

LEMMA ReadsInOrderNext ==
  ASSUME PodInv, ReadsDirectory, ReadsInOrder, [Next]_vars
  PROVE  ReadsInOrder'
PROOF
  <1>0. StoreTypeOK /\ ReporterTypeOK /\ report.records \in Seq(File)
    BY DEF PodInv, PodTypeOK, TypeOK, ReporterTypeOK, Report
  <1>1. CASE rpc' \notin {"read", "post"}
    BY <1>1 DEF ReadsInOrder
  <1>2. CASE UNCHANGED reporterVars
    BY <1>2 DEF ReadsInOrder, reporterVars, InOrder
  <1>3. CASE ReporterStep
    <2>1. CASE ReporterOpen
      BY <2>1 DEF ReporterOpen, ReadsInOrder, InOrder
    <2>2. CASE ReporterRead
      <3> DEFINE s == report.records
      <3>1. PICK n \in unread, f \in files :
              /\ f.name = n /\ unread' = unread \ {n}
              /\ report' = [report EXCEPT !.records = Append(@, f)]
              /\ \A m \in unread \ {n} : Before(n, m)
        BY <2>2 DEF ReporterRead
      <3> DEFINE t == Append(s, f)
      <3>2. report'.records = t
        BY <1>0, <3>1 DEF ReporterTypeOK, Report
      <3>3. /\ Len(s) \in Nat /\ Len(t) = Len(s) + 1 /\ t[Len(s) + 1] = f
            /\ \A i \in 1 .. Len(s) : t[i] = s[i]
        BY <1>0
      <3>4. \A m \in unread \ {n} : n.sec <= m.sec
        <4>1. \A m \in unread : m.sec \in Nat
          BY <1>0 DEF ReporterTypeOK, Name, Time
        <4>2. QED
          BY <3>1, <4>1 DEF Before
      <3>5. /\ InOrder(s)
            /\ \A i \in 1 .. Len(s) : \A m \in unread : s[i].name.sec <= m.sec
        BY <2>2 DEF ReporterRead, ReadsInOrder
      <3>6. f.name.sec \in Nat
        BY <1>0 DEF StoreTypeOK, File, Name, Time
      <3> HIDE DEF s, t
      <3>7. \A i \in 1 .. Len(t) : i \in 1 .. Len(s) \/ i = Len(s) + 1
        BY <3>3
      <3>8. InOrder(t)
        BY <3>1, <3>3, <3>5, <3>6, <3>7 DEF InOrder
      <3>9. \A i \in 1 .. Len(t), m \in unread' : t[i].name.sec <= m.sec
        BY <3>1, <3>3, <3>4, <3>5, <3>7
      <3>10. QED
        BY <3>2, <3>8, <3>9 DEF ReadsInOrder, InOrder
    <2>3. CASE ReporterMarshal \/ ReporterOpenFail \/ ReporterReadFail
      BY <2>3
      DEF ReporterMarshal, ReporterOpenFail, ReporterReadFail, ReadsInOrder, InOrder
    <2>4. QED
      BY <1>3, <2>1, <2>2, <2>3 DEF ReporterStep
  <1>4. QED
    BY <1>1, <1>2, <1>3, ReporterSees, ReporterLeaves

\* NewestLast of one report, and NewestLast by its reports.
OldestFirst(s) ==
  \A j, k \in 1 .. Len(s) :
    j < k /\ s[j].rec.kind = s[k].rec.kind /\ s[j].rec.time > s[k].rec.time
      => s[j].name.sec = s[k].name.sec

LEMMA NewestLastOfReports ==
  /\ NewestLast <=>
       \A i \in 1 .. Len(requests) : OldestFirst(requests[i].report.records)
  /\ NewestLast' <=>
       \A i \in 1 .. Len(requests') : OldestFirst(requests'[i].report.records)
PROOF
  BY DEF NewestLast, OldestFirst

\* A report in the order of its names, of files that are timed.
LEMMA InOrderIsOldestFirst ==
  ASSUME NEW s \in Seq(File), InOrder(s), NewerLater({s[i] : i \in 1 .. Len(s)})
  PROVE  OldestFirst(s)
PROOF
  <1> SUFFICES ASSUME NEW j \in 1 .. Len(s), NEW k \in 1 .. Len(s), j < k,
                      s[j].rec.kind = s[k].rec.kind, s[j].rec.time > s[k].rec.time
               PROVE  s[j].name.sec = s[k].name.sec
    BY DEF OldestFirst
  <1>1. s[j] \in File /\ s[k] \in File
    OBVIOUS
  <1>2. /\ s[j].name.sec \in Nat /\ s[k].name.sec \in Nat
        /\ s[j].rec.time \in Nat /\ s[k].rec.time \in Nat
    BY <1>1 DEF File, Name, Record, Time
  <1>3. s[j].name.sec <= s[k].name.sec
    BY DEF InOrder
  <1>4. s[k].name.sec <= s[j].name.sec
    BY <1>2 DEF NewerLater
  <1>5. QED
    BY <1>2, <1>3, <1>4

LEMMA NewestLastNext ==
  ASSUME PodInv, ReadsDirectory, DirTimed, ReadsInOrder, NewestLast, [Next]_vars
  PROVE  NewestLast'
PROOF
  <1>0. HTTPTypeOK /\ Len(requests) \in Nat /\ report.records \in Seq(File)
    BY DEF PodInv, PodTypeOK, TypeOK, HTTPTypeOK, ReporterTypeOK, Report
  <1>1. CASE UNCHANGED requests
    BY <1>1, NewestLastOfReports
  <1>2. CASE Collector
    <2>1. /\ Len(requests') = Len(requests)
          /\ \A i \in 1 .. Len(requests) : requests'[i].report = requests[i].report
      BY <1>0, <1>2, CollectorChanges
    <2>2. QED
      BY <2>1, NewestLastOfReports
  <1>3. CASE /\ rpc = "post" /\ Records(report) = files
             /\ \E s \in {"sent", "printed", "unprinted"} : Leave(volume, s)
    <2>1. /\ Len(requests') = Len(requests) + 1
          /\ \A i \in 1 .. Len(requests) : requests'[i] = requests[i]
          /\ requests'[Len(requests')].report = report
      BY <1>0, <1>3, LeaveAppends
    <2>2. OldestFirst(report.records)
      <3>1. InOrder(report.records)
        BY <1>3 DEF ReadsInOrder
      <3>2. NewerLater({report.records[i] : i \in 1 .. Len(report.records)})
        BY <1>3 DEF DirTimed, Records
      <3>3. QED
        BY <1>0, <3>1, <3>2, InOrderIsOldestFirst
    <2>3. \A i \in 1 .. Len(requests') :
            i \in 1 .. Len(requests) \/ i = Len(requests')
      BY <1>0, <2>1
    <2>4. QED
      BY <2>1, <2>2, <2>3, NewestLastOfReports
  <1>4. QED
    BY <1>1, <1>2, <1>3, ReporterSees, ReporterLeaves

\* In a report the records of a kind come oldest first, but for those that
\* were stored within one second.
THEOREM NewestRecordsLast == Spec => []NewestLast
PROOF
  <1>1. Init => DirTimed /\ ReadsInOrder /\ NewestLast
    BY DEF Init, StoreInit, ReporterInit, HTTPInit, DirTimed, NewerLater, FilesTimed,
           CallsTimed, TargetIsCall, ReadsInOrder, NewestLast
  <1>2. PodInv /\ ReadsDirectory /\ DirTimed /\ ReadsInOrder /\ NewestLast /\ [Next]_vars
          => (DirTimed /\ ReadsInOrder /\ NewestLast)'
    BY DirTimedNext, ReadsInOrderNext, NewestLastNext
  <1>3. QED
    BY <1>1, <1>2, ReadsDirectoryInvariant, PTL DEF Spec

-----------------------------------------------------------------------------
\* What a job that succeeded leaves behind.  From the moment a report has left
\* until the job ends the directory holds what that report holds: a process
\* that could store comes only with the loss of the reporter's.
HasSent ==
  rpc \in {"wait", "ok"} \/ (cur = Reporter /\ proc = "exit0") \/ phase = "Succeeded"

LastIsDirectory ==
  requests # <<>> /\ Records(requests[Len(requests)].report) = files

SentInv == HasSent => LastIsDirectory

LEMMA LastIsDirectoryPrimed ==
  LastIsDirectory' <=>
    requests' # <<>> /\ Records(requests'[Len(requests')].report) = files'
PROOF
  BY DEF LastIsDirectory, Records

\* Only the reporter makes a job one that has sent.
LEMMA SentBefore ==
  ASSUME PodInv, [Next]_vars, HasSent'
  PROVE  \/ HasSent /\ UNCHANGED <<files, requests>>
         \/ HasSent /\ UNCHANGED files /\ Collector
         \/ ReporterWork
PROOF
  <1>0. OneAtATime
    BY DEF PodInv, DirInv
  <1>1. CASE Clock \/ UNCHANGED vars
    BY <1>1 DEF Clock, Tick, vars, storeVars, dirVars, reporterVars, podVars, HasSent
  <1>2. CASE Network
    BY <1>2
    DEF Network, Collector, Arrive, storeVars, dirVars, reporterVars, podVars, HasSent
  <1>3. ASSUME NEW a \in Agents, AgentNext(a)
        PROVE  FALSE
    <2>1. cur = a /\ cur' = a /\ rpc' = rpc /\ phase' = "Running"
      BY <1>3
      DEF AgentNext, AgentStart, AgentCollected, AgentFail, AgentStore, AgentExit, At,
          reporterVars, podVars
    <2>2. QED
      BY <1>0, <2>1, ReporterIsNoAgent DEF OneAtATime, HasSent
  <1>4. CASE ReporterStart \/ ReporterAnswer \/ ReporterNoAnswer \/ ReporterExit
    BY <1>4
    DEF ReporterStart, ReporterNew, ReporterAnswer, Response, ReporterNoAnswer,
        ResponseFail, ReporterExit, ReporterGone, At, storeVars, dirVars, podVars,
        HasSent
  <1>5. CASE Kubelet
    <2>1. UNCHANGED <<files, requests, rpc>>
      BY <1>5
      DEF Kubelet, NextContainer, Complete, RestartContainer, GiveUp, storeVars,
          dirVars, reporterVars
    <2>2. QED
      BY <1>0, <1>5, <2>1
      DEF Kubelet, NextContainer, Complete, RestartContainer, GiveUp, At, OneAtATime,
          HasSent
  <1>6. CASE Disruption
    BY <1>6
    DEF Disruption, Kill, SandboxRestart, VolumeLoss, StartOver, ProcessesGone,
        ReporterGone, HasSent
  <1>7. QED
    BY <1>1, <1>2, <1>3, <1>4, <1>5, <1>6 DEF Next, ReporterNext

LEMMA SentInvNext ==
  ASSUME PodInv, ReadsDirectory, SentInv, [Next]_vars
  PROVE  SentInv'
PROOF
  <1>0. HTTPTypeOK /\ Len(requests) \in Nat
    BY DEF PodInv, PodTypeOK, TypeOK, HTTPTypeOK
  <1> SUFFICES ASSUME HasSent' PROVE LastIsDirectory'
    BY DEF SentInv
  <1>1. CASE HasSent /\ UNCHANGED <<files, requests>>
    BY <1>1, LastIsDirectoryPrimed DEF SentInv, LastIsDirectory
  <1>2. CASE HasSent /\ UNCHANGED files /\ Collector
    <2>1. LastIsDirectory
      BY <1>2 DEF SentInv
    <2>2. Len(requests) \in 1 .. Len(requests)
      BY <1>0, <2>1 DEF LastIsDirectory, HTTPTypeOK
    <2>3. /\ Len(requests') = Len(requests) /\ requests' # <<>>
          /\ requests'[Len(requests)].report = requests[Len(requests)].report
      BY <1>0, <1>2, <2>2, CollectorChanges
    <2>4. QED
      BY <1>2, <2>1, <2>3, LastIsDirectoryPrimed DEF LastIsDirectory
  <1>3. CASE ReporterWork
    <2>1. UNCHANGED files /\ phase' = "Running" /\ proc' = "run"
      BY <1>3 DEF ReporterWork, At, storeVars, dirVars, podVars
    <2>2. rpc' \in {"wait", "ok"}
      BY <2>1 DEF HasSent
    <2>3. /\ rpc = "post"
          /\ \E s \in {"sent", "printed", "unprinted"} : Leave(volume, s)
      BY <1>3, <2>2
      DEF ReporterWork, ReporterStep, ReporterOpen, ReporterOpenFail, ReporterRead,
          ReporterReadFail, ReporterMarshal, Post, PostFail, PrintReport
    <2>4. Records(report) = files
      BY <2>3 DEF ReadsDirectory
    <2>5. /\ Len(requests') = Len(requests) + 1
          /\ requests'[Len(requests')].report = report
      BY <1>0, <2>3, LeaveAppends
    <2>6. requests' # <<>>
      BY <1>0, <2>3 DEF Leave, HTTPTypeOK
    <2>7. QED
      BY <2>1, <2>4, <2>5, <2>6, LastIsDirectoryPrimed
  <1>4. QED
    BY <1>1, <1>2, <1>3, SentBefore

\* A job that succeeded has sent every record it leaves behind.
THEOREM SucceededHasSentAll == Spec => []SucceededSentAll
PROOF
  <1>1. Init => SentInv
    BY DEF Init, ReporterInit, SentInv, HasSent
  <1>2. PodInv /\ ReadsDirectory /\ SentInv /\ [Next]_vars => SentInv'
    BY SentInvNext
  <1>3. SentInv => SucceededSentAll
    BY DEF SentInv, HasSent, LastIsDirectory, SucceededSentAll
  <1>4. QED
    BY <1>1, <1>2, <1>3, ReadsDirectoryInvariant, PTL DEF Spec

=============================================================================
