-------------------------- MODULE TelemetryPod_proofs -------------------------
(***************************************************************************)
(* What a run of the telemetry job promises, proved for every number of    *)
(* agents and restarts, every clock and both sinks: the types, that a      *)
(* report leaves the pod only with a whole record of every agent, and that *)
(* the job succeeds only after its last report was answered.               *)
(***************************************************************************)
EXTENDS TelemetryPod, FileStore_proofs

-----------------------------------------------------------------------------
\* The types.

\* The volume is emptied at most as often as the pod starts over.
PodTypeOK == TypeOK /\ volume <= restarts

LEMMA ReporterGoneType == ReporterGone => ReporterTypeOK'
PROOF
  <1>1. NoReport \in Report
    BY IdleCallType DEF NoReport, Report
  <1>2. QED
    BY <1>1 DEF ReporterGone, ReporterTypeOK

LEMMA ReporterStepType ==
  ASSUME StoreTypeOK, ReporterTypeOK, ReporterStep
  PROVE  ReporterTypeOK'
PROOF
  <1> USE DEF ReporterTypeOK
  <1>1. CASE ReporterOpen
    <2>1. Names \subseteq Name
      BY DEF StoreTypeOK, Names, File
    <2>2. [time |-> now, records |-> <<>>] \in Report
      BY DEF StoreTypeOK, Report
    <2>3. QED
      BY <1>1, <2>1, <2>2 DEF ReporterOpen
  <1>2. CASE ReporterRead
    <2>1. PICK f \in files :
            report' = [report EXCEPT !.records = Append(@, f)]
      BY <1>2 DEF ReporterRead
    <2>2. f \in File
      BY DEF StoreTypeOK
    <2>3. report' \in Report
      <3>1. report.time \in Time /\ report.records \in Seq(File)
        BY DEF Report
      <3>2. Append(report.records, f) \in Seq(File)
        BY <2>2, <3>1
      <3>3. report' = [time |-> report.time, records |-> Append(report.records, f)]
        BY <2>1 DEF Report
      <3>4. QED
        BY <3>1, <3>2, <3>3 DEF Report
    <2>4. QED
      BY <1>2, <2>3 DEF ReporterRead
  <1>3. CASE ReporterOpenFail \/ ReporterReadFail \/ ReporterMarshal
    BY <1>3 DEF ReporterOpenFail, ReporterReadFail, ReporterMarshal
  <1>4. QED
    BY <1>1, <1>2, <1>3, ReporterStep DEF ReporterStep

\* A report that leaves is a request.
LEMMA LeaveType ==
  ASSUME ReporterTypeOK, HTTPTypeOK, NEW v \in Nat,
         NEW s \in {"sent", "printed", "unprinted"}, Leave(v, s)
  PROVE  HTTPTypeOK'
PROOF
  <1>1. [volume |-> v, report |-> report, state |-> s] \in Request
    BY DEF Request, ReporterTypeOK
  <1>2. QED
    BY <1>1 DEF HTTPTypeOK, Leave

LEMMA CollectorType ==
  ASSUME HTTPTypeOK, Collector
  PROVE  HTTPTypeOK'
PROOF
  <1>1. PICK i \in 1 .. Len(requests), s \in {"taken", "answered", "lost"} :
          requests' = [requests EXCEPT ![i].state = s]
    BY DEF Collector, Arrive
  <1>2. requests[i] \in Request
    BY DEF HTTPTypeOK
  <1>3. [requests[i] EXCEPT !.state = s] \in Request
    BY <1>2 DEF Request
  <1>4. QED
    BY <1>1, <1>3 DEF HTTPTypeOK

LEMMA PodTypeInit == Init => PodTypeOK
PROOF
  <1> SUFFICES ASSUME Init PROVE PodTypeOK
    OBVIOUS
  <1>1. StoreTypeOK
    BY StoreInvInit DEF Init, StoreInv
  <1>2. ReporterTypeOK
    BY IdleCallType DEF Init, ReporterInit, ReporterTypeOK, Report, NoReport
  <1>3. HTTPTypeOK
    BY DEF Init, HTTPInit, HTTPTypeOK
  <1>4. QED
    BY <1>1, <1>2, <1>3, StoreAssumption, PodAssumption, IdleCallType
    DEF Init, PodTypeOK, TypeOK, Reporter

LEMMA PodTypeAgent ==
  ASSUME PodTypeOK, NEW a \in Agents, AgentNext(a)
  PROVE  PodTypeOK'
PROOF
  <1> USE DEF PodTypeOK, TypeOK
  <1>1. CASE AgentStart(a) \/ AgentFail(a)
    BY <1>1, IdleCallType
    DEF AgentStart, AgentFail, storeVars, dirVars, callVars, reporterVars,
        StoreTypeOK, ReporterTypeOK, HTTPTypeOK
  <1>2. CASE AgentCollected(a)
    <2>1. UNCHANGED <<now, dirVars>> /\ StoreBegin(a, stamp)
      BY <1>2 DEF AgentCollected, StoreBegin, dirVars
    <2>2. StoreTypeOK'
      BY <2>1, StoreCallType
    <2>3. QED
      BY <1>2, <2>2, IdleCallType
      DEF AgentCollected, reporterVars, ReporterTypeOK, HTTPTypeOK
  <1>3. CASE AgentStore(a)
    <2>1. StoreTypeOK'
      BY <1>3, StoreStepType DEF AgentStore
    <2>2. QED
      BY <1>3, <2>1
      DEF AgentStore, podVars, reporterVars, ReporterTypeOK, HTTPTypeOK
  <1>4. CASE AgentExit(a)
    <2>1. StoreTypeOK'
      BY <1>4, StoreCallType DEF AgentExit, dirVars
    <2>2. QED
      BY <1>4, <2>1 DEF AgentExit, reporterVars, ReporterTypeOK, HTTPTypeOK
  <1>5. QED
    BY <1>1, <1>2, <1>3, <1>4 DEF AgentNext

LEMMA PodTypeReporter ==
  ASSUME PodTypeOK, ReporterNext
  PROVE  PodTypeOK'
PROOF
  <1> USE DEF PodTypeOK, TypeOK
  <1>1. volume \in Nat
    BY PodAssumption
  <1>2. ASSUME UNCHANGED <<storeVars, cur, stamp, phase, restarts, volume>>,
               ReporterTypeOK', HTTPTypeOK',
               proc' \in {"run", "exit0", "exit1"}
        PROVE  PodTypeOK'
    BY <1>2 DEF StoreTypeOK, storeVars, dirVars, callVars
  <1>3. CASE ReporterStart
    <2>1. ReporterTypeOK'
      BY <1>3 DEF ReporterStart, ReporterNew, ReporterTypeOK
    <2>2. QED
      BY <1>2, <1>3, <2>1 DEF ReporterStart, HTTPTypeOK
  <1>4. CASE ReporterWork
    <2>1. proc' = "run" /\ UNCHANGED <<storeVars, cur, stamp, phase, restarts, volume>>
      BY <1>4 DEF ReporterWork, podVars, At
    <2>2. CASE ReporterStep /\ UNCHANGED requests
      BY <1>2, <2>1, <2>2, ReporterStepType DEF HTTPTypeOK
    <2>3. CASE Post(volume)
      BY <1>1, <1>2, <2>1, <2>3, LeaveType DEF Post, ReporterTypeOK
    <2>4. CASE PostFail
      BY <1>2, <2>1, <2>4 DEF PostFail, ReporterTypeOK, HTTPTypeOK
    <2>5. CASE PrintReport(volume)
      BY <1>1, <1>2, <2>1, <2>5, LeaveType DEF PrintReport, ReporterTypeOK
    <2>6. QED
      BY <1>4, <2>2, <2>3, <2>4, <2>5 DEF ReporterWork
  <1>5. CASE ReporterAnswer \/ ReporterNoAnswer
    BY <1>2, <1>5
    DEF ReporterAnswer, ReporterNoAnswer, Response, ResponseFail, podVars, At,
        ReporterTypeOK, HTTPTypeOK
  <1>6. CASE ReporterExit
    BY <1>2, <1>6, ReporterGoneType DEF ReporterExit, HTTPTypeOK
  <1>7. QED
    BY <1>3, <1>4, <1>5, <1>6 DEF ReporterNext

\* What kubelet and disruptions do to the pod, apart from its files.
LEMMA PodTypeKubelet ==
  ASSUME PodTypeOK, Kubelet
  PROVE  PodTypeOK'
PROOF
  BY StoreAssumption, PodAssumption
  DEF Kubelet, NextContainer, Complete, RestartContainer, GiveUp, At, Reporter,
      PodTypeOK, TypeOK, StoreTypeOK, ReporterTypeOK, HTTPTypeOK,
      storeVars, dirVars, callVars, reporterVars

LEMMA PodTypeDisruption ==
  ASSUME PodTypeOK, Disruption
  PROVE  PodTypeOK'
PROOF
  <1> USE DEF PodTypeOK, TypeOK
  <1>1. ASSUME ProcessesGone, UNCHANGED <<now, place>>, files' \subseteq File
        PROVE  StoreTypeOK' /\ ReporterTypeOK' /\ stamp' \in Time
    BY <1>1, ReporterGoneType, IdleCallType DEF ProcessesGone, StoreTypeOK
  <1>2. CASE Kill
    <2>1. files' \subseteq File /\ UNCHANGED <<now, place>> /\ ProcessesGone
      BY <1>2 DEF Kill, dirVars, StoreTypeOK
    <2>2. QED
      BY <1>1, <1>2, <2>1 DEF Kill, HTTPTypeOK
  <1>3. ASSUME StartOver, files' \subseteq File, volume' \in {volume, volume + 1}
        PROVE  PodTypeOK'
    <2>1. StoreTypeOK' /\ ReporterTypeOK' /\ stamp' \in Time
      BY <1>1, <1>3 DEF StartOver
    <2>2. restarts' \in 0 .. BackoffLimit /\ volume' \in 0 .. BackoffLimit
            /\ volume' <= restarts'
      BY <1>3, PodAssumption DEF StartOver
    <2>3. QED
      BY <1>3, <2>1, <2>2, StoreAssumption DEF StartOver, HTTPTypeOK, Reporter
  <1>4. CASE SandboxRestart
    BY <1>3, <1>4 DEF SandboxRestart, StoreTypeOK
  <1>5. CASE VolumeLoss
    <2>1. \A f \in File : [f EXCEPT !.whole = FALSE] \in File
      BY DEF File
    <2>2. files' \subseteq File
      BY <1>5, <2>1 DEF VolumeLoss, StoreTypeOK
    <2>3. QED
      BY <1>3, <1>5, <2>2 DEF VolumeLoss
  <1>6. QED
    BY <1>2, <1>4, <1>5 DEF Disruption

LEMMA PodTypeNext ==
  ASSUME PodTypeOK, [Next]_vars
  PROVE  PodTypeOK'
PROOF
  <1> USE DEF PodTypeOK, TypeOK
  <1>1. CASE Clock
    BY <1>1, TickType
    DEF Clock, ReporterTypeOK, HTTPTypeOK, reporterVars, podVars
  <1>2. CASE Network
    BY <1>2, CollectorType
    DEF Network, Collector, Arrive, StoreTypeOK, ReporterTypeOK,
        storeVars, dirVars, callVars, reporterVars, podVars
  <1>3. CASE UNCHANGED vars
    BY <1>3
    DEF vars, StoreTypeOK, ReporterTypeOK, HTTPTypeOK,
        storeVars, dirVars, callVars, reporterVars, podVars
  <1>4. QED
    BY <1>1, <1>2, <1>3, PodTypeAgent, PodTypeReporter, PodTypeKubelet,
       PodTypeDisruption DEF Next

\* The types of the pod, its processes and what they share.
THEOREM PodTypeCorrect == Spec => []TypeOK
PROOF
  <1>1. PodTypeOK /\ [Next]_vars => PodTypeOK'
    BY PodTypeNext
  <1>2. PodTypeOK => TypeOK
    BY DEF PodTypeOK
  <1>3. QED
    BY <1>1, <1>2, PodTypeInit, PTL DEF Spec

-----------------------------------------------------------------------------
\* The directory: an agent that has ended well has left a whole record.  To
\* see that a later Store does not take it away it is needed that files have
\* different names, that one process runs at a time, and that the file an
\* agent is writing holds nothing of another agent's.
OneAtATime ==
  /\ \A a \in Agents : pc[a] # "idle" => cur = a /\ proc = "run"
  /\ rpc # "idle" => cur = Reporter /\ proc = "run"

RecordIsOwn == \A a \in Agents : rec[a].kind = a

TargetIsOwn ==
  \A a \in Agents : pc[a] = "write" =>
    \A f \in files : f.name = target[a] => f.rec.kind = a

WholeRecord(a) == \E f \in files : f.whole /\ f.rec.kind = a

EndedWell(a) == a < cur \/ (a = cur /\ (proc = "exit0" \/ pc[a] = "ok"))

AgentsHaveStored ==
  place = "dir" => \A a \in Agents : EndedWell(a) => WholeRecord(a)

DirInv ==
  OneFilePerName /\ OneAtATime /\ RecordIsOwn /\ TargetIsOwn /\ AgentsHaveStored

\* The report: while it is read, a whole record of every agent is in it or
\* in a file that is still to be read, so it is complete when it is posted.
InReport(a) == \E f \in Records(report) : f.whole /\ f.rec.kind = a

Unread(a) == \E f \in files : f.whole /\ f.rec.kind = a /\ f.name \in unread

ReadsAll ==
  rpc = "read" => place = "dir" /\ \A a \in Agents : InReport(a) \/ Unread(a)

PostsComplete == rpc = "post" => CompleteReport(report)

ReportInv == ReadsAll /\ PostsComplete /\ OfferedComplete

PodInv == PodTypeOK /\ DirInv /\ ReportInv

\* The answer: a reporter that ended well has had one.
LastAnswered ==
  /\ requests # <<>>
  /\ requests[Len(requests)].state \in {"taken", "answered", "printed", "unprinted"}

AnswerInv ==
  /\ OneAtATime
  /\ rpc = "wait" => requests # <<>>
  /\ rpc = "ok" \/ (cur = Reporter /\ proc = "exit0") \/ phase = "Succeeded" =>
       LastAnswered
  /\ phase = "Succeeded" => cur = Reporter /\ proc = "exit0"

-----------------------------------------------------------------------------
\* One process runs at a time: the Reporter is no agent, and a container that
\* is not the current one is idle.
LEMMA ReporterIsNoAgent == Reporter \notin Agents
PROOF
  BY StoreAssumption DEF Reporter, Agents

LEMMA OneAtATimeNext ==
  ASSUME PodTypeOK, OneAtATime, [Next]_vars
  PROVE  OneAtATime'
PROOF
  <1> USE DEF OneAtATime
  <1>1. CASE Clock \/ Network \/ UNCHANGED vars
    BY <1>1 DEF Clock, Tick, Network, Collector, Arrive, vars, storeVars, callVars,
                reporterVars, podVars
  <1>2. ASSUME NEW a \in Agents, AgentNext(a)
        PROVE  OneAtATime'
    <2>1. cur = a /\ cur' = a /\ UNCHANGED rpc /\ rpc = "idle"
            /\ \A b \in Agents : b # a => pc'[b] = "idle"
      BY <1>2, ReporterIsNoAgent
      DEF AgentNext, AgentStart, AgentCollected, AgentFail, AgentStore, AgentExit, At,
          StoreBegin, StoreStep, StoreStat, StoreCreate, StoreWrite, StoreFail,
          StoreGone, PodTypeOK, TypeOK, StoreTypeOK, storeVars, callVars,
          reporterVars, podVars
    <2>2. pc'[a] # "idle" => proc' = "run"
      BY <1>2
      DEF AgentNext, AgentStart, AgentCollected, AgentFail, AgentStore, AgentExit, At,
          StoreGone, PodTypeOK, TypeOK, StoreTypeOK, storeVars, callVars, podVars
    <2>3. QED
      BY <2>1, <2>2
  <1>3. CASE ReporterNext
    <2>1. cur = Reporter /\ cur' = Reporter /\ pc' = pc
            /\ \A a \in Agents : pc[a] = "idle"
      BY <1>3, ReporterIsNoAgent
      DEF ReporterNext, ReporterStart, ReporterWork, ReporterAnswer,
          ReporterNoAnswer, ReporterExit, At, storeVars, callVars, podVars
    <2>2. rpc' # "idle" => proc' = "run"
      BY <1>3
      DEF ReporterNext, ReporterStart, ReporterWork, ReporterAnswer,
          ReporterNoAnswer, ReporterExit, ReporterGone, At, podVars
    <2>3. QED
      BY <2>1, <2>2
  <1>4. CASE Kubelet
    BY <1>4
    DEF Kubelet, NextContainer, Complete, RestartContainer, GiveUp, At,
        storeVars, callVars, reporterVars
  <1>5. CASE Disruption
    BY <1>5
    DEF Disruption, Kill, SandboxRestart, VolumeLoss, StartOver, ProcessesGone,
        ReporterGone
  <1>6. QED
    BY <1>1, <1>2, <1>3, <1>4, <1>5 DEF Next

\* A step that leaves the directory and the calls alone and lets no other
\* agent end well keeps the invariant of the directory.
LEMMA DirInvFrame ==
  ASSUME DirInv, OneAtATime', UNCHANGED <<place, files, rec, target>>,
         \A a \in Agents : pc'[a] = "write" => pc[a] = "write",
         \A a \in Agents : EndedWell(a)' => EndedWell(a)
  PROVE  DirInv'
PROOF
  BY DEF DirInv, OneFilePerName, RecordIsOwn, TargetIsOwn, AgentsHaveStored,
         WholeRecord

LEMMA DirInvAgent ==
  ASSUME PodTypeOK, PodTypeOK', DirInv, OneAtATime', NEW a \in Agents, AgentNext(a)
  PROVE  DirInv'
PROOF
  <1> USE DEF PodTypeOK, TypeOK, StoreTypeOK
  <1>1. cur = a /\ cur' = a /\ place' = place
    BY DEF AgentNext, AgentStart, AgentCollected, AgentFail, AgentStore, AgentExit, At,
           StoreBegin, StoreStep, StoreStat, StoreCreate, StoreWrite, StoreFail,
           storeVars, dirVars, podVars
  <1>2. CASE AgentStart(a) \/ AgentFail(a)
    BY <1>2, DirInvFrame
    DEF AgentStart, AgentFail, At, EndedWell, storeVars, dirVars, callVars
  <1>3. CASE AgentCollected(a)
    <2>1. UNCHANGED <<place, files, target>>
      BY <1>3 DEF AgentCollected, StoreBegin, dirVars
    <2>2. pc' = [pc EXCEPT ![a] = "stat"]
            /\ rec' = [rec EXCEPT ![a] = [kind |-> a, time |-> stamp]]
            /\ proc' = "run"
      BY <1>3 DEF AgentCollected, StoreBegin
    <2>3. RecordIsOwn'
      BY <2>2 DEF DirInv, RecordIsOwn
    <2>4. \A b \in Agents : EndedWell(b)' => EndedWell(b)
      BY <1>1, <2>2 DEF EndedWell, Agents
    <2>5. QED
      BY <2>1, <2>2, <2>3, <2>4
      DEF DirInv, OneFilePerName, TargetIsOwn, AgentsHaveStored, WholeRecord
  <1>4. CASE AgentStore(a)
    <2>1. proc' = "run" /\ proc = "run"
      BY <1>4 DEF AgentStore, podVars, At
    <2>2. CASE StoreStat(a)
      <3>1. UNCHANGED <<place, files, rec, target>>
        BY <2>2 DEF StoreStat, dirVars
      <3>2. pc'[a] \in {"err", "ok", "create"} /\ (place = "dir" => pc'[a] = "create")
              /\ \A b \in Agents : b # a => pc'[b] = pc[b]
        BY <2>2, StoreAssumption DEF StoreStat
      <3>3. AgentsHaveStored'
        BY <1>1, <2>1, <3>1, <3>2 DEF DirInv, AgentsHaveStored, EndedWell, WholeRecord
      <3>4. QED
        BY <3>1, <3>2, <3>3 DEF DirInv, OneFilePerName, RecordIsOwn, TargetIsOwn
    <2>3. CASE StoreCreate(a)
      <3> DEFINE new(n) == [name |-> n, rec |-> rec[a], whole |-> FALSE]
      <3>1. PICK n \in Name :
              /\ n \notin Names
              /\ files' = {f \in files : f.name # n} \cup {new(n)}
              /\ target' = [target EXCEPT ![a] = n]
        BY <2>3 DEF StoreCreate, DrawName
      <3>2. pc' = [pc EXCEPT ![a] = "write"] /\ rec' = rec
        BY <2>3 DEF StoreCreate
      <3>3. new(n).name = n /\ new(n).rec = rec[a]
        OBVIOUS
      <3> HIDE DEF new
      <3>4. OneFilePerName'
        BY <3>1, <3>3 DEF DirInv, OneFilePerName
      <3>5. TargetIsOwn'
        BY <1>1, <3>1, <3>2, <3>3 DEF DirInv, TargetIsOwn, RecordIsOwn, OneAtATime
      <3>6. files \subseteq files'
        BY <3>1 DEF Names
      <3>7. \A b \in Agents : EndedWell(b)' => EndedWell(b)
        BY <1>1, <2>1, <3>2 DEF EndedWell
      <3>8. AgentsHaveStored'
        BY <1>1, <3>6, <3>7 DEF DirInv, AgentsHaveStored, WholeRecord
      <3>9. QED
        BY <3>2, <3>4, <3>5, <3>8 DEF DirInv, RecordIsOwn
    <2>4. CASE StoreWrite(a)
      <3> DEFINE new == [name |-> target[a], rec |-> rec[a], whole |-> TRUE]
      <3>1. /\ files' = {f \in files : f.name # target[a]} \cup {new}
            /\ pc[a] = "write" /\ pc' = [pc EXCEPT ![a] = "ok"]
            /\ rec' = rec /\ target' = target
        BY <2>4 DEF StoreWrite
      <3>2. new.name = target[a] /\ new.rec = rec[a] /\ new.whole
        OBVIOUS
      <3> HIDE DEF new
      <3>3. OneFilePerName'
        BY <3>1, <3>2 DEF DirInv, OneFilePerName
      <3>4. TargetIsOwn'
        BY <1>1, <3>1 DEF DirInv, TargetIsOwn, OneAtATime
      <3>5. WholeRecord(a)'
        BY <3>1, <3>2 DEF DirInv, RecordIsOwn, WholeRecord
      <3>6. ASSUME NEW b \in Agents, b # a, WholeRecord(b)
            PROVE  WholeRecord(b)'
        BY <3>1, <3>6 DEF DirInv, TargetIsOwn, WholeRecord
      <3>7. \A b \in Agents : b # a => (EndedWell(b)' => EndedWell(b))
        BY <1>1, <2>1, <3>1 DEF EndedWell
      <3>8. AgentsHaveStored'
        BY <1>1, <3>5, <3>6, <3>7 DEF DirInv, AgentsHaveStored
      <3>9. QED
        BY <3>1, <3>3, <3>4, <3>8 DEF DirInv, RecordIsOwn
    <2>5. CASE StoreFail(a)
      <3>1. pc' = [pc EXCEPT ![a] = "err"] /\ UNCHANGED <<place, files, rec, target>>
        BY <2>5 DEF StoreFail, dirVars
      <3>2. QED
        BY <1>1, <2>1, <3>1, DirInvFrame DEF EndedWell
    <2>6. QED
      BY <1>4, <2>2, <2>3, <2>4, <2>5 DEF AgentStore, StoreStep
  <1>5. CASE AgentExit(a)
    <2>1. /\ UNCHANGED <<place, files>>
          /\ proc' = IF pc[a] = "ok" THEN "exit0" ELSE "exit1"
          /\ pc' = [pc EXCEPT ![a] = "idle"]
          /\ rec' = [rec EXCEPT ![a] = NoRecord(a)]
      BY <1>5 DEF AgentExit, StoreGone, dirVars
    <2>2. RecordIsOwn'
      BY <2>1 DEF DirInv, RecordIsOwn, NoRecord
    <2>3. TargetIsOwn'
      BY <1>1, <2>1 DEF DirInv, TargetIsOwn, OneAtATime
    <2>4. \A b \in Agents : EndedWell(b)' => EndedWell(b)
      BY <1>1, <2>1 DEF EndedWell, DirInv, OneAtATime
    <2>5. QED
      BY <2>1, <2>2, <2>3, <2>4
      DEF DirInv, OneFilePerName, AgentsHaveStored, WholeRecord
  <1>6. QED
    BY <1>2, <1>3, <1>4, <1>5 DEF AgentNext

\* A reset of the processes keeps no agent's end, so the directory may even
\* lose files; what is left of them still has different names.
LEMMA DirInvDisruption ==
  ASSUME PodTypeOK, DirInv, OneAtATime', Disruption
  PROVE  DirInv'
PROOF
  <1> USE DEF DirInv
  <1>1. RecordIsOwn' /\ TargetIsOwn' /\ place' = place
    BY DEF Disruption, Kill, SandboxRestart, VolumeLoss, StartOver, ProcessesGone,
           NoRecord, RecordIsOwn, TargetIsOwn, dirVars
  <1>2. CASE Kill
    <2>1. UNCHANGED <<files, cur>> /\ proc' = "exit1"
            /\ \A a \in Agents : pc'[a] = "idle"
      BY <1>2 DEF Kill, ProcessesGone, dirVars
    <2>2. \A a \in Agents : EndedWell(a)' => EndedWell(a)
      BY <2>1 DEF EndedWell
    <2>3. QED
      BY <1>1, <2>1, <2>2 DEF OneFilePerName, AgentsHaveStored, WholeRecord
  <1>3. ASSUME StartOver, OneFilePerName'
        PROVE  DirInv'
    <2>1. \A a \in Agents : ~EndedWell(a)'
      BY <1>3 DEF StartOver, ProcessesGone, EndedWell, Agents
    <2>2. QED
      BY <1>1, <1>3, <2>1 DEF AgentsHaveStored
  <1>4. CASE SandboxRestart
    BY <1>3, <1>4 DEF SandboxRestart, OneFilePerName
  <1>5. CASE VolumeLoss
    <2> DEFINE Cut(f) == [f EXCEPT !.whole = FALSE]
    <2>1. PICK kept \in SUBSET files, cut \in SUBSET files :
            files' = kept \cup {Cut(f) : f \in cut \ kept}
      BY <1>5 DEF VolumeLoss
    <2>2. \A f \in files : Cut(f).name = f.name
      BY DEF PodTypeOK, TypeOK, StoreTypeOK, File
    <2> HIDE DEF Cut
    <2>3. ASSUME NEW f \in files', NEW g \in files', f.name = g.name
          PROVE  f = g
      <3>1. PICK x \in files : /\ f.name = x.name
                               /\ f = IF x \in kept THEN x ELSE Cut(x)
        BY <2>1, <2>2
      <3>2. PICK y \in files : /\ g.name = y.name
                               /\ g = IF y \in kept THEN y ELSE Cut(y)
        BY <2>1, <2>2
      <3>3. x = y
        BY <2>3, <3>1, <3>2 DEF OneFilePerName
      <3>4. QED
        BY <3>1, <3>2, <3>3
    <2>4. QED
      BY <1>3, <1>5, <2>3 DEF VolumeLoss, OneFilePerName
  <1>6. QED
    BY <1>2, <1>4, <1>5 DEF Disruption

LEMMA DirInvNext ==
  ASSUME PodTypeOK, DirInv, [Next]_vars
  PROVE  DirInv'
PROOF
  <1>1. OneAtATime' /\ PodTypeOK'
    BY OneAtATimeNext, PodTypeNext DEF DirInv
  <1>2. CASE Clock \/ Network \/ UNCHANGED vars
    BY <1>1, <1>2, DirInvFrame
    DEF Clock, Tick, Network, vars, storeVars, dirVars, callVars, podVars, EndedWell
  <1>3. CASE ReporterNext
    <2>1. UNCHANGED <<storeVars, cur>> /\ cur = Reporter
      BY <1>3
      DEF ReporterNext, ReporterStart, ReporterWork, ReporterAnswer,
          ReporterNoAnswer, ReporterExit, At, podVars
    <2>2. \A a \in Agents : EndedWell(a)' => EndedWell(a)
      BY <2>1, ReporterIsNoAgent DEF EndedWell
    <2>3. QED
      BY <1>1, <2>1, <2>2, DirInvFrame DEF storeVars, dirVars, callVars
  <1>4. CASE Kubelet
    <2>1. UNCHANGED <<place, files, pc, rec, target>>
      BY <1>4
      DEF Kubelet, NextContainer, Complete, RestartContainer, GiveUp,
          storeVars, dirVars, callVars
    <2>2. ASSUME NEW a \in Agents, EndedWell(a)'
          PROVE  EndedWell(a)
      <3>1. CASE NextContainer
        <4>1. pc[a] = "idle" \/ proc = "run"
          BY DEF DirInv, OneAtATime
        <4>2. a < cur \/ a = cur
          BY <2>2, <3>1, <4>1, <2>1, StoreAssumption
          DEF NextContainer, EndedWell, Agents, PodTypeOK, TypeOK, Reporter
        <4>3. QED
          BY <3>1, <4>2 DEF NextContainer, EndedWell
      <3>2. CASE Complete \/ RestartContainer \/ GiveUp
        BY <2>1, <2>2, <3>2 DEF Complete, RestartContainer, GiveUp, EndedWell
      <3>3. QED
        BY <1>4, <3>1, <3>2 DEF Kubelet
    <2>3. QED
      BY <1>1, <2>1, <2>2, DirInvFrame
  <1>5. QED
    BY <1>1, <1>2, <1>3, <1>4, DirInvAgent, DirInvDisruption DEF Next

-----------------------------------------------------------------------------
\* A report with one more record holds that record and those it held.
LEMMA RecordsAppend ==
  ASSUME NEW r \in Report, NEW f \in File
  PROVE  Records([r EXCEPT !.records = Append(@, f)]) = Records(r) \cup {f}
PROOF
  <1> DEFINE s == r.records
             t == Append(s, f)
  <1>1. s \in Seq(File)
    BY DEF Report
  <1>2. [r EXCEPT !.records = Append(@, f)].records = t
    BY DEF Report
  <1>3. /\ Len(t) = Len(s) + 1 /\ t[Len(s) + 1] = f
        /\ \A i \in 1 .. Len(s) : t[i] = s[i]
    BY <1>1
  <1> HIDE DEF t
  <1>4. \A i \in 1 .. Len(t) : i \in 1 .. Len(s) \/ i = Len(s) + 1
    BY <1>1, <1>3
  <1>5. 1 .. Len(s) \subseteq 1 .. Len(t) /\ Len(s) + 1 \in 1 .. Len(t)
    BY <1>1, <1>3
  <1>6. {t[i] : i \in 1 .. Len(t)} = {s[i] : i \in 1 .. Len(s)} \cup {f}
    BY <1>3, <1>4, <1>5
  <1>7. QED
    BY <1>2, <1>6 DEF Records

\* The requests after one more has left.
LEMMA LeaveAppends ==
  ASSUME HTTPTypeOK, NEW v, NEW s, Leave(v, s)
  PROVE  /\ Len(requests') = Len(requests) + 1
         /\ \A i \in 1 .. Len(requests) : requests'[i] = requests[i]
         /\ requests'[Len(requests')].volume = v
         /\ requests'[Len(requests')].report = report
         /\ requests'[Len(requests')].state = s
PROOF
  BY DEF Leave, HTTPTypeOK

LEMMA LeaveComplete ==
  ASSUME HTTPTypeOK, OfferedComplete, CompleteReport(report), NEW v, NEW s, Leave(v, s)
  PROVE  OfferedComplete'
PROOF
  <1> SUFFICES ASSUME NEW i \in 1 .. Len(requests')
               PROVE  CompleteReport(requests'[i].report)
    BY DEF OfferedComplete, CompleteReport, Records
  <1>1. CASE i \in 1 .. Len(requests)
    BY <1>1, LeaveAppends DEF OfferedComplete
  <1>2. CASE i \notin 1 .. Len(requests)
    <2>1. Len(requests) \in Nat
      BY DEF HTTPTypeOK
    <2>2. i = Len(requests')
      BY <1>2, <2>1, LeaveAppends
    <2>3. QED
      BY <2>2, LeaveAppends
  <1>3. QED
    BY <1>1, <1>2

\* The network changes the state of one request that is on its way.
LEMMA CollectorChanges ==
  ASSUME HTTPTypeOK, Collector
  PROVE  /\ Len(requests') = Len(requests)
         /\ \A i \in 1 .. Len(requests) :
              /\ requests'[i].volume = requests[i].volume
              /\ requests'[i].report = requests[i].report
              /\ requests[i].state # "sent" => requests'[i] = requests[i]
PROOF
  <1>1. PICK i \in 1 .. Len(requests), s \in {"taken", "answered", "lost"} :
          /\ requests' = [requests EXCEPT ![i].state = s]
          /\ requests[i].state = "sent"
    BY DEF Collector, Arrive
  <1>2. requests \in Seq(Request)
    BY DEF HTTPTypeOK
  <1>3. ASSUME NEW j \in 1 .. Len(requests)
        PROVE  /\ requests'[j].volume = requests[j].volume
               /\ requests'[j].report = requests[j].report
               /\ requests[j].state # "sent" => requests'[j] = requests[j]
    <2>1. CASE j = i
      <3>1. requests'[j] = [requests[j] EXCEPT !.state = s]
        BY <1>1, <1>2, <2>1
      <3>2. /\ [requests[j] EXCEPT !.state = s].volume = requests[j].volume
            /\ [requests[j] EXCEPT !.state = s].report = requests[j].report
        BY <1>2 DEF Request
      <3>3. QED
        BY <1>1, <2>1, <3>1, <3>2
    <2>2. CASE j # i
      BY <1>1, <1>2, <2>2
    <2>3. QED
      BY <2>1, <2>2
  <1>4. Len(requests') = Len(requests)
    BY <1>1, <1>2
  <1>5. QED
    BY <1>3, <1>4

LEMMA ReportInvWork ==
  ASSUME PodTypeOK, DirInv, ReportInv, ReporterWork
  PROVE  ReportInv'
PROOF
  <1> USE DEF ReportInv
  <1>0. /\ cur = Reporter /\ proc = "run" /\ UNCHANGED <<place, files>>
        /\ StoreTypeOK /\ ReporterTypeOK /\ HTTPTypeOK
    BY DEF ReporterWork, At, storeVars, dirVars, PodTypeOK, TypeOK
  <1>1. CASE ReporterOpen /\ UNCHANGED requests
    <2>1. ASSUME NEW a \in Agents
          PROVE  Unread(a)'
      <3>1. a < cur
        BY <1>0, StoreAssumption DEF Reporter, Agents
      <3>2. WholeRecord(a)
        BY <1>1, <3>1 DEF ReporterOpen, DirInv, AgentsHaveStored, EndedWell
      <3>3. QED
        BY <1>0, <1>1, <3>2 DEF ReporterOpen, WholeRecord, Unread, Names
    <2>2. QED
      BY <1>0, <1>1, <2>1
      DEF ReporterOpen, ReadsAll, PostsComplete, OfferedComplete, CompleteReport, Records
  <1>2. CASE ReporterRead /\ UNCHANGED requests
    <2>1. PICK n \in unread, f \in files :
            /\ f.name = n /\ unread' = unread \ {n}
            /\ report' = [report EXCEPT !.records = Append(@, f)]
      BY <1>2 DEF ReporterRead
    <2>2. Records(report') = Records(report) \cup {f}
      BY <1>0, <2>1, RecordsAppend DEF StoreTypeOK, ReporterTypeOK
    <2>3. rpc = "read" /\ rpc' = "read"
      BY <1>2 DEF ReporterRead
    <2>4. ASSUME NEW a \in Agents
          PROVE  InReport(a)' \/ Unread(a)'
      <3>1. CASE InReport(a)
        BY <2>2, <3>1 DEF InReport, Records
      <3>2. CASE Unread(a)
        <4>1. PICK g \in files : g.whole /\ g.rec.kind = a /\ g.name \in unread
          BY <3>2 DEF Unread
        <4>2. CASE g = f
          BY <2>2, <4>1, <4>2 DEF InReport, Records
        <4>3. CASE g # f
          <5>1. g.name # n
            BY <2>1, <4>3 DEF DirInv, OneFilePerName
          <5>2. QED
            BY <1>0, <2>1, <4>1, <5>1 DEF Unread
        <4>4. QED
          BY <4>2, <4>3
      <3>3. QED
        BY <2>3, <3>1, <3>2 DEF ReadsAll
    <2>5. ReadsAll'
      BY <1>0, <2>3, <2>4 DEF ReadsAll
    <2>6. QED
      BY <1>2, <2>3, <2>5
      DEF PostsComplete, OfferedComplete, CompleteReport, Records
  <1>3. CASE ReporterMarshal /\ UNCHANGED requests
    <2>1. rpc' = "post" => CompleteReport(report)
      BY <1>3 DEF ReporterMarshal, ReadsAll, InReport, Unread, CompleteReport, Records
    <2>2. report' = report /\ rpc' # "read"
      BY <1>3 DEF ReporterMarshal
    <2>3. QED
      BY <1>3, <2>1, <2>2
      DEF ReadsAll, PostsComplete, OfferedComplete, CompleteReport, Records
  <1>4. CASE (ReporterOpenFail \/ ReporterReadFail \/ PostFail) /\ UNCHANGED requests
    BY <1>4
    DEF ReporterOpenFail, ReporterReadFail, PostFail, ReadsAll, PostsComplete,
        OfferedComplete, CompleteReport, Records
  <1>5. CASE Post(volume) \/ PrintReport(volume)
    <2>1. CompleteReport(report) /\ rpc' \in {"wait", "ok"}
      BY <1>5 DEF Post, PrintReport, PostsComplete
    <2>2. PICK s \in {"sent", "printed", "unprinted"} : Leave(volume, s)
      BY <1>5 DEF Post, PrintReport
    <2>3. OfferedComplete'
      BY <1>0, <2>1, <2>2, LeaveComplete
    <2>4. QED
      BY <2>1, <2>3 DEF ReadsAll, PostsComplete
  <1>6. UNCHANGED requests \/ Post(volume) \/ PrintReport(volume)
    BY DEF ReporterWork, PostFail
  <1>7. QED
    BY <1>1, <1>2, <1>3, <1>4, <1>5, <1>6 DEF ReporterWork, ReporterStep, PostFail

LEMMA ReportInvNext ==
  ASSUME PodTypeOK, DirInv, ReportInv, [Next]_vars
  PROVE  ReportInv'
PROOF
  <1> USE DEF ReportInv
  <1>1. ASSUME rpc' \notin {"read", "post"}, UNCHANGED requests
        PROVE  ReportInv'
    BY <1>1
    DEF ReadsAll, PostsComplete, OfferedComplete, CompleteReport, Records
  <1>2. ASSUME UNCHANGED <<place, files, reporterVars, requests>>
        PROVE  ReportInv'
    BY <1>2
    DEF reporterVars, ReadsAll, PostsComplete, OfferedComplete, CompleteReport,
        Records, InReport, Unread
  <1>3. CASE Clock \/ Kubelet \/ UNCHANGED vars
    BY <1>2, <1>3
    DEF Clock, Tick, Kubelet, NextContainer, Complete, RestartContainer, GiveUp,
        vars, storeVars, dirVars
  <1>4. CASE Network
    <2>1. /\ HTTPTypeOK /\ Collector
          /\ UNCHANGED <<place, files, reporterVars>>
      BY <1>4 DEF Network, Collector, Arrive, PodTypeOK, TypeOK, storeVars, dirVars
    <2>2. OfferedComplete'
      <3> SUFFICES ASSUME NEW i \in 1 .. Len(requests')
                   PROVE  CompleteReport(requests'[i].report)
        BY DEF OfferedComplete, CompleteReport, Records
      <3>1. i \in 1 .. Len(requests) /\ requests'[i].report = requests[i].report
        BY <2>1, CollectorChanges
      <3>2. QED
        BY <3>1 DEF OfferedComplete
    <2>3. QED
      BY <2>1, <2>2
      DEF reporterVars, ReadsAll, PostsComplete, CompleteReport, Records, InReport,
          Unread
  <1>5. ASSUME NEW a \in Agents, AgentNext(a)
        PROVE  ReportInv'
    <2>1. cur = a /\ UNCHANGED <<rpc, requests>>
      BY <1>5
      DEF AgentNext, AgentStart, AgentCollected, AgentFail, AgentStore, AgentExit, At,
          reporterVars
    <2>2. rpc = "idle"
      BY <2>1, ReporterIsNoAgent DEF DirInv, OneAtATime
    <2>3. QED
      BY <1>1, <2>1, <2>2
  <1>6. CASE ReporterWork
    BY <1>6, ReportInvWork
  <1>7. CASE ReporterStart \/ ReporterAnswer \/ ReporterNoAnswer \/ ReporterExit
    BY <1>1, <1>7
    DEF ReporterStart, ReporterNew, ReporterAnswer, Response, ReporterNoAnswer,
        ResponseFail, ReporterExit, ReporterGone
  <1>8. CASE Disruption
    BY <1>1, <1>8
    DEF Disruption, Kill, SandboxRestart, VolumeLoss, StartOver, ProcessesGone,
        ReporterGone
  <1>9. QED
    BY <1>3, <1>4, <1>5, <1>6, <1>7, <1>8 DEF Next, ReporterNext

LEMMA PodInvariant == Spec => []PodInv
PROOF
  <1>1. Init => PodInv
    <2> SUFFICES ASSUME Init PROVE PodInv
      OBVIOUS
    <2>1. PodTypeOK
      BY PodTypeInit
    <2>2. DirInv
      BY StoreAssumption
      DEF Init, StoreInit, ReporterInit, DirInv, OneFilePerName, OneAtATime,
          RecordIsOwn, TargetIsOwn, AgentsHaveStored, EndedWell, NoRecord, Agents
    <2>3. ReportInv
      BY DEF Init, ReporterInit, HTTPInit, ReportInv, ReadsAll, PostsComplete,
             OfferedComplete
    <2>4. QED
      BY <2>1, <2>2, <2>3 DEF PodInv
  <1>2. PodInv /\ [Next]_vars => PodInv'
    BY PodTypeNext, DirInvNext, ReportInvNext DEF PodInv
  <1>3. QED
    BY <1>1, <1>2, PTL DEF Spec

\* Every report that leaves the pod holds a whole record of every agent and
\* nothing but whole records, whatever was killed, restarted or lost before.
THEOREM OfferedReportsComplete == Spec => []OfferedComplete
PROOF
  <1>1. PodInv => OfferedComplete
    BY DEF PodInv, ReportInv
  <1>2. QED
    BY <1>1, PodInvariant, PTL

-----------------------------------------------------------------------------
\* The answer.  A request that was answered, or handed to Println, stays so.
LEMMA LastAnsweredKept ==
  ASSUME HTTPTypeOK, LastAnswered, Collector
  PROVE  LastAnswered'
PROOF
  <1>1. Len(requests) \in 1 .. Len(requests)
    BY DEF HTTPTypeOK, LastAnswered
  <1>2. requests'[Len(requests')] = requests[Len(requests)] /\ Len(requests') # 0
    BY <1>1, CollectorChanges DEF LastAnswered
  <1>3. requests' # <<>>
    BY <1>2
  <1>4. QED
    BY <1>2, <1>3 DEF LastAnswered

LEMMA AnswerInvNext ==
  ASSUME PodTypeOK, AnswerInv, [Next]_vars
  PROVE  AnswerInv'
PROOF
  <1>1. OneAtATime' /\ OneAtATime /\ HTTPTypeOK
    BY OneAtATimeNext DEF AnswerInv, PodTypeOK, TypeOK
  <1>2. CASE Clock \/ UNCHANGED vars
    BY <1>1, <1>2 DEF Clock, vars, reporterVars, podVars, AnswerInv, LastAnswered
  <1>3. CASE Network
    <2>1. Collector /\ UNCHANGED <<rpc, podVars>>
      BY <1>3 DEF Network, Collector, Arrive, reporterVars
    <2>2. requests # <<>> => requests' # <<>>
      BY <1>1, <2>1, CollectorChanges DEF HTTPTypeOK
    <2>3. QED
      BY <1>1, <2>1, <2>2, LastAnsweredKept DEF podVars, AnswerInv
  <1>4. ASSUME NEW a \in Agents, AgentNext(a)
        PROVE  AnswerInv'
    <2>1. cur' = a /\ cur = a /\ rpc' = "idle" /\ UNCHANGED <<requests, phase>>
            /\ phase = "Running"
      BY <1>1, <1>4, ReporterIsNoAgent
      DEF AgentNext, AgentStart, AgentCollected, AgentFail, AgentStore, AgentExit, At,
          reporterVars, podVars, OneAtATime
    <2>2. QED
      BY <1>1, <2>1, ReporterIsNoAgent DEF AnswerInv
  <1>5. CASE ReporterNext
    <2>1. phase' = "Running"
      BY <1>5
      DEF ReporterNext, ReporterStart, ReporterWork, ReporterAnswer,
          ReporterNoAnswer, ReporterExit, At, podVars
    <2>2. CASE ReporterStart \/ ReporterNoAnswer
      BY <1>1, <2>1, <2>2
      DEF ReporterStart, ReporterNew, ReporterNoAnswer, ResponseFail, At, podVars,
          AnswerInv
    <2>3. CASE ReporterWork
      <3>1. proc' = "run"
        BY <2>3 DEF ReporterWork, At, podVars
      <3>2. CASE ReporterStep \/ PostFail
        BY <1>1, <2>1, <3>1, <3>2
        DEF ReporterStep, ReporterOpen, ReporterOpenFail, ReporterRead,
            ReporterReadFail, ReporterMarshal, PostFail, AnswerInv
      <3>3. CASE Post(volume)
        <4>1. Leave(volume, "sent") /\ rpc' = "wait"
          BY <3>3 DEF Post
        <4>2. requests' # <<>>
          BY <1>1, <4>1 DEF Leave, HTTPTypeOK
        <4>3. QED
          BY <1>1, <2>1, <3>1, <4>1, <4>2 DEF AnswerInv
      <3>4. CASE PrintReport(volume)
        <4>1. PICK s \in {"printed", "unprinted"} : Leave(volume, s) /\ rpc' = "ok"
          BY <3>4 DEF PrintReport
        <4>2. requests' # <<>>
          BY <1>1, <4>1 DEF Leave, HTTPTypeOK
        <4>3. LastAnswered'
          BY <1>1, <4>1, <4>2, LeaveAppends DEF LastAnswered
        <4>4. QED
          BY <1>1, <2>1, <4>1, <4>2, <4>3 DEF AnswerInv
      <3>5. QED
        BY <2>3, <3>2, <3>3, <3>4 DEF ReporterWork
    <2>4. CASE ReporterAnswer
      <3>1. LastAnswered' /\ rpc' = "ok"
        BY <2>4 DEF ReporterAnswer, Response, AnswerInv, LastAnswered
      <3>2. QED
        BY <1>1, <2>1, <3>1 DEF AnswerInv
    <2>5. CASE ReporterExit
      <3>1. rpc' = "idle" /\ UNCHANGED requests /\ (proc' = "exit0" => rpc = "ok")
        BY <2>5 DEF ReporterExit, ReporterGone
      <3>2. QED
        BY <1>1, <2>1, <3>1 DEF AnswerInv, LastAnswered
    <2>6. QED
      BY <1>5, <2>2, <2>3, <2>4, <2>5 DEF ReporterNext
  <1>6. CASE Kubelet
    <2>1. UNCHANGED <<rpc, requests>>
      BY <1>6
      DEF Kubelet, NextContainer, Complete, RestartContainer, GiveUp, reporterVars
    <2>2. QED
      BY <1>1, <1>6, <2>1
      DEF Kubelet, NextContainer, Complete, RestartContainer, GiveUp, At, AnswerInv,
          LastAnswered
  <1>7. CASE Disruption
    BY <1>1, <1>7
    DEF Disruption, Kill, SandboxRestart, VolumeLoss, StartOver, ProcessesGone,
        ReporterGone, AnswerInv, LastAnswered
  <1>8. QED
    BY <1>2, <1>3, <1>4, <1>5, <1>6, <1>7 DEF Next

\* A job that succeeded has sent a report, and the last one it sent was
\* answered, or handed to Println.
THEOREM SucceededIsAnswered == Spec => []SucceededAnswered
PROOF
  <1>1. Init => PodTypeOK /\ AnswerInv
    BY PodTypeInit
    DEF Init, StoreInit, ReporterInit, AnswerInv, OneAtATime
  <1>2. PodTypeOK /\ AnswerInv /\ [Next]_vars => (PodTypeOK /\ AnswerInv)'
    BY PodTypeNext, AnswerInvNext
  <1>3. AnswerInv => SucceededAnswered
    BY DEF AnswerInv, LastAnswered, SucceededAnswered
  <1>4. QED
    BY <1>1, <1>2, <1>3, PTL DEF Spec

=============================================================================
