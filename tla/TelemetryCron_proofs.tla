------------------------- MODULE TelemetryCron_proofs -------------------------
(***************************************************************************)
(* What the jobs of any number of hours promise, however they overlap,     *)
(* fail and are answered: the types, that a report holds the records of    *)
(* its own run, and that each job is a ReportJob.                          *)
(***************************************************************************)
EXTENDS TelemetryCron, SequenceTheorems, TLAPS

-----------------------------------------------------------------------------
\* The invariant, of one job.

\* Jobs are created in their hour, which no record of them is from before.
OfItsHour(j) ==
  /\ status[j] # "None" => j <= hour
  /\ proc[j] = "collect" => stamp[j] \in Hours /\ stamp[j] >= j
  /\ \A r \in volume[j] : r.time >= j

\* The agents that have stored have their records in the volume.
HasStored(j, a) == a < cur[j] \/ (a = cur[j] /\ proc[j] = "stored")

PastAgentsStored(j) ==
  /\ proc[j] = "stored" => cur[j] \in Agents
  /\ \A a \in Agents : HasStored(j, a) => \E r \in volume[j] : r.kind = a

ReportsOf(j) ==
  \A i \in DOMAIN offers[j] :
    /\ {r.kind : r \in offers[j][i].records} = Agents
    /\ \A r \in offers[j][i].records : r.time >= j

\* A reporter that waits for an answer has sent a report.
HasOffered(j) == proc[j] = "answer" => offers[j] # <<>>

JobInv(j) ==
  OfItsHour(j) /\ PastAgentsStored(j) /\ ReportsOf(j) /\ HasOffered(j)

CronInv == TypeOK /\ \A j \in Jobs : JobInv(j)

-----------------------------------------------------------------------------
\* The steps of one job.
JobStep(j) ==
  \/ \E a \in Agents : AgentCollect(j, a) \/ AgentStore(j, a)
  \/ Report(j)
  \/ Fail(j)
  \/ StartOver(j)
  \/ Kubelet(j)
  \/ \E i \in DOMAIN offers[j] : Resolve(j, i)

LEMMA Sets ==
  /\ Agents \subseteq Nat /\ Hours \subseteq Nat
  /\ Reporter \in Nat /\ \A a \in Agents : a < Reporter
  /\ Jobs = Hours
BY CronAssumption DEF Agents, Hours, Reporter, Jobs

LEMMA InitInv == Init => CronInv
PROOF
  <1> SUFFICES ASSUME Init PROVE CronInv
    OBVIOUS
  <1> USE CronAssumption DEF Init
  <1>1. TypeOK
    BY DEF TypeOK, Reporter
  <1>2. \A j \in Jobs : JobInv(j)
    BY DEF JobInv, OfItsHour, PastAgentsStored, HasStored, ReportsOf, HasOffered, Agents
  <1>3. QED
    BY <1>1, <1>2 DEF CronInv

LEMMA ScheduleType ==
  ASSUME TypeOK, Schedule
  PROVE  TypeOK'
PROOF
  <1>1. hour' \in 0 .. MaxHour
    BY CronAssumption DEF TypeOK, Schedule
  <1>2. QED
    BY <1>1 DEF TypeOK, Schedule, podVars

LEMMA ScheduleInv ==
  ASSUME CronInv, Schedule
  PROVE  CronInv'
PROOF
  <1> USE DEF CronInv
  <1>1. TypeOK'
    BY ScheduleType
  <1>2. ASSUME NEW j \in Jobs PROVE JobInv(j)'
    <2>1. JobInv(j) /\ UNCHANGED <<cur, proc, stamp, volume, offers>>
      BY DEF Schedule, podVars
    <2>2. OfItsHour(j)'
      <3>1. /\ j \in Nat /\ hour \in Nat /\ hour' = hour + 1
            /\ j # hour + 1 => status'[j] = status[j]
        BY CronAssumption DEF Schedule, TypeOK, Jobs, Hours
      <3>2. status'[j] # "None" => j <= hour'
        BY <2>1, <3>1 DEF JobInv, OfItsHour
      <3>3. QED
        BY <2>1, <3>2 DEF JobInv, OfItsHour
    <2>3. PastAgentsStored(j)'
      BY <2>1 DEF JobInv, PastAgentsStored, HasStored
    <2>4. ReportsOf(j)' /\ HasOffered(j)'
      BY <2>1 DEF JobInv, ReportsOf, HasOffered
    <2>5. QED
      BY <2>2, <2>3, <2>4 DEF JobInv
  <1>3. QED
    BY <1>1, <1>2

\* A record is stamped with an hour of its job, and typed.
LEMMA StampedRecord ==
  ASSUME CronInv, NEW j \in Jobs, NEW a \in Agents, AgentStore(j, a)
  PROVE  /\ [kind |-> a, time |-> stamp[j]] \in Record
         /\ stamp[j] >= j
BY DEF CronInv, JobInv, OfItsHour, AgentStore, At, Record

LEMMA JobStepType ==
  ASSUME CronInv, NEW j \in Jobs, JobStep(j)
  PROVE  TypeOK'
PROOF
  <1> USE DEF TypeOK
  <1>0. TypeOK
    BY DEF CronInv
  <1>1. ASSUME NEW a \in Agents, AgentCollect(j, a) PROVE TypeOK'
    BY <1>0, <1>1 DEF AgentCollect
  <1>2. ASSUME NEW a \in Agents, AgentStore(j, a) PROVE TypeOK'
    <2>1. 0 \in 0 .. MaxHour
      BY CronAssumption
    <2>2. volume' \in [Jobs -> SUBSET Record]
      BY <1>0, <1>2, StampedRecord DEF AgentStore
    <2>3. QED
      BY <1>0, <1>2, <2>1, <2>2 DEF AgentStore
  <1>3. CASE Report(j)
    <2>1. [records |-> volume[j], state |-> "sent"] \in Offer
      BY <1>0 DEF Offer
    <2>2. offers' \in [Jobs -> Seq(Offer)]
      BY <1>0, <1>3, <2>1 DEF Report
    <2>3. QED
      BY <1>0, <1>3, <2>2 DEF Report
  <1>4. CASE Complete(j) \/ GiveUp(j)
    BY <1>0, <1>4 DEF Complete, GiveUp, podVars
  <1>5. CASE NextContainer(j)
    <2>1. cur[j] + 1 \in 1 .. Reporter
      BY <1>0, <1>5, CronAssumption
      DEF NextContainer, CronInv, JobInv, PastAgentsStored, Agents, Reporter
    <2>2. QED
      BY <1>0, <1>5, <2>1 DEF NextContainer
  <1>6. CASE Fail(j)
    BY <1>0, <1>6, CronAssumption DEF Fail
  <1>7. CASE Restart(j)
    <2>1. restarts[j] + 1 \in 0 .. BackoffLimit
      BY <1>0, <1>7, CronAssumption DEF Restart
    <2>2. QED
      BY <1>0, <1>7, <2>1 DEF Restart
  <1>8. CASE StartOver(j)
    <2>1. restarts[j] + 1 \in 0 .. BackoffLimit /\ 1 \in 1 .. Reporter
            /\ 0 \in 0 .. MaxHour
      BY <1>0, <1>8, CronAssumption DEF StartOver, Reporter
    <2>2. PICK left \in SUBSET volume[j] : volume' = [volume EXCEPT ![j] = left]
      BY <1>8 DEF StartOver
    <2>3. left \in SUBSET Record
      BY <1>0
    <2>4. QED
      BY <1>0, <1>8, <2>1, <2>2, <2>3 DEF StartOver
  <1>9. ASSUME NEW i \in DOMAIN offers[j], Resolve(j, i) PROVE TypeOK'
    <2>1. PICK s \in {"taken", "answered", "lost"} :
            offers' = [offers EXCEPT ![j][i].state = s]
      BY <1>9 DEF Resolve
    <2>2. offers[j] \in Seq(Offer) /\ offers[j][i] \in Offer
      BY <1>0, ElementOfSeq
    <2>3. [offers[j][i] EXCEPT !.state = s] \in Offer
      BY <2>2 DEF Offer
    <2>4. [offers[j] EXCEPT ![i].state = s] \in Seq(Offer)
      BY <2>2, <2>3
    <2>5. offers' \in [Jobs -> Seq(Offer)]
      BY <1>0, <2>1, <2>4
    <2>6. QED
      BY <1>0, <1>9, <2>5 DEF Resolve, podVars
  <1>10. QED
    BY <1>1, <1>2, <1>3, <1>4, <1>5, <1>6, <1>7, <1>8, <1>9 DEF JobStep, Kubelet

\* What is of one job: the others' steps leave it alone.
Own(j) == <<status[j], cur[j], proc[j], stamp[j], volume[j], offers[j]>>

LEMMA OthersUnchanged ==
  ASSUME TypeOK, NEW j \in Jobs, JobStep(j), NEW k \in Jobs, k # j
  PROVE  UNCHANGED <<hour, Own(k)>>
PROOF
  <1> USE DEF TypeOK, Own
  <1>1. ASSUME NEW a \in Agents, AgentCollect(j, a) \/ AgentStore(j, a)
        PROVE  UNCHANGED <<hour, Own(k)>>
    BY <1>1 DEF AgentCollect, AgentStore
  <1>2. CASE Report(j) \/ Complete(j) \/ GiveUp(j)
    BY <1>2 DEF Report, Complete, GiveUp, podVars
  <1>3. CASE NextContainer(j) \/ Fail(j) \/ Restart(j) \/ StartOver(j)
    BY <1>3 DEF NextContainer, Fail, Restart, StartOver
  <1>4. ASSUME NEW i \in DOMAIN offers[j], Resolve(j, i)
        PROVE  UNCHANGED <<hour, Own(k)>>
    BY <1>4 DEF Resolve, podVars
  <1>5. QED
    BY <1>1, <1>2, <1>3, <1>4 DEF JobStep, Kubelet

LEMMA OwnInv ==
  ASSUME NEW k \in Jobs, JobInv(k), UNCHANGED <<hour, Own(k)>>
  PROVE  JobInv(k)'
BY DEF JobInv, OfItsHour, PastAgentsStored, HasStored, ReportsOf, HasOffered, Own

\* The job's own steps, action by action.
LEMMA OwnStepInv ==
  ASSUME CronInv, NEW j \in Jobs, JobStep(j)
  PROVE  JobInv(j)'
PROOF
  <1> USE DEF CronInv
  <1>0. TypeOK /\ JobInv(j)
    OBVIOUS
  <1>1. ASSUME NEW a \in Agents, AgentCollect(j, a) PROVE JobInv(j)'
    <2>1. OfItsHour(j)'
      BY <1>0, <1>1, CronAssumption
         DEF JobInv, OfItsHour, AgentCollect, At, TypeOK, Jobs, Hours
    <2>2. PastAgentsStored(j)' /\ ReportsOf(j)' /\ HasOffered(j)'
      BY <1>0, <1>1
         DEF JobInv, PastAgentsStored, HasStored, ReportsOf, HasOffered, AgentCollect,
             At, TypeOK
    <2>3. QED
      BY <2>1, <2>2 DEF JobInv
  <1>2. ASSUME NEW a \in Agents, AgentStore(j, a) PROVE JobInv(j)'
    <2> DEFINE r == [kind |-> a, time |-> stamp[j]]
    <2>1. r.time >= j /\ r.kind = a
      BY <1>2, StampedRecord
    <2>2. volume'[j] = volume[j] \cup {r} /\ cur'[j] = a /\ cur[j] = a
      BY <1>0, <1>2 DEF AgentStore, At, TypeOK
    <2> HIDE DEF r
    <2>3. OfItsHour(j)'
      BY <1>0, <1>2, <2>1, <2>2 DEF JobInv, OfItsHour, AgentStore, TypeOK
    <2>4. PastAgentsStored(j)'
      BY <1>0, <2>1, <2>2, Sets DEF JobInv, PastAgentsStored, HasStored, Agents
    <2>5. ReportsOf(j)' /\ HasOffered(j)'
      BY <1>0, <1>2 DEF JobInv, ReportsOf, HasOffered, AgentStore, TypeOK
    <2>6. QED
      BY <2>3, <2>4, <2>5 DEF JobInv
  <1>3. CASE Report(j)
    <2> DEFINE o == [records |-> volume[j], state |-> "sent"]
    <2>1. offers'[j] = Append(offers[j], o) /\ offers[j] \in Seq(Offer)
      BY <1>0, <1>3 DEF Report, TypeOK
    <2>2. {r.kind : r \in volume[j]} = Agents
      <3>1. \A r \in volume[j] : r.kind \in Agents
        BY <1>0 DEF TypeOK, Record
      <3>2. \A a \in Agents : \E r \in volume[j] : r.kind = a
        BY <1>0, <1>3, Sets DEF JobInv, PastAgentsStored, HasStored, Report, At
      <3>3. QED
        BY <3>1, <3>2
    <2>3. ReportsOf(j)'
      <3>1. ASSUME NEW i \in DOMAIN offers'[j]
            PROVE  \/ i \in DOMAIN offers[j] /\ offers'[j][i] = offers[j][i]
                   \/ offers'[j][i] = o
        BY <2>1
      <3>2. \A r \in o.records : r.time >= j
        BY <1>0 DEF JobInv, OfItsHour
      <3>3. QED
        BY <1>0, <2>2, <3>1, <3>2 DEF JobInv, ReportsOf
    <2>4. OfItsHour(j)' /\ PastAgentsStored(j)' /\ HasOffered(j)'
      <3>1. offers'[j] # <<>>
        BY <2>1
      <3>2. QED
        BY <1>0, <1>3, <3>1
           DEF JobInv, OfItsHour, PastAgentsStored, HasStored, HasOffered, Report,
               TypeOK, At
    <2>5. QED
      BY <2>3, <2>4 DEF JobInv
  <1>4. CASE Complete(j) \/ GiveUp(j)
    <2>1. status[j] # "None"
      BY <1>4 DEF Complete, GiveUp, At
    <2>2. QED
      BY <1>0, <1>4, <2>1
         DEF JobInv, OfItsHour, PastAgentsStored, HasStored, ReportsOf, HasOffered,
             Complete, GiveUp, podVars, TypeOK
  <1>5. CASE NextContainer(j)
    <2>1. /\ proc[j] = "stored" /\ proc'[j] = "work" /\ cur'[j] = cur[j] + 1
          /\ cur[j] \in Nat /\ UNCHANGED <<hour, status, volume, offers>>
      BY <1>0, <1>5 DEF NextContainer, TypeOK
    <2>2. PastAgentsStored(j)'
      BY <1>0, <2>1, Sets DEF JobInv, PastAgentsStored, HasStored
    <2>3. QED
      BY <1>0, <2>1, <2>2 DEF JobInv, OfItsHour, ReportsOf, HasOffered
  <1>6. CASE Fail(j) \/ Restart(j) \/ StartOver(j)
    <2>1. proc'[j] \in {"work", "failed"} /\ UNCHANGED <<hour, status, offers>>
      BY <1>0, <1>6 DEF Fail, Restart, StartOver, TypeOK
    <2>2. \/ cur'[j] = cur[j] /\ volume'[j] = volume[j]
          \/ cur'[j] = 1 /\ volume'[j] \subseteq volume[j]
      BY <1>0, <1>6 DEF Fail, Restart, StartOver, TypeOK
    <2>3. OfItsHour(j)' /\ ReportsOf(j)' /\ HasOffered(j)'
      BY <1>0, <2>1, <2>2 DEF JobInv, OfItsHour, ReportsOf, HasOffered
    <2>4. PastAgentsStored(j)'
      BY <1>0, <2>1, <2>2, Sets DEF JobInv, PastAgentsStored, HasStored, Agents
    <2>5. QED
      BY <2>3, <2>4 DEF JobInv
  <1>7. ASSUME NEW i \in DOMAIN offers[j], Resolve(j, i) PROVE JobInv(j)'
    <2>1. PICK s \in {"taken", "answered", "lost"} :
            offers' = [offers EXCEPT ![j][i].state = s]
      BY <1>7 DEF Resolve
    <2>2. offers'[j] = [offers[j] EXCEPT ![i].state = s]
      BY <1>0, <2>1 DEF TypeOK
    <2>3. DOMAIN offers'[j] = DOMAIN offers[j]
      BY <2>2
    <2>4. \A k \in DOMAIN offers[j] : offers'[j][k].records = offers[j][k].records
      <3>1. \A k \in DOMAIN offers[j] : offers[j][k] \in Offer
        BY <1>0, ElementOfSeq DEF TypeOK
      <3>2. QED
        BY <2>2, <3>1 DEF Offer
    <2>5. ReportsOf(j)'
      BY <1>0, <2>3, <2>4 DEF JobInv, ReportsOf
    <2>6. HasOffered(j)'
      <3>1. offers[j] # <<>>
        BY <1>0 DEF TypeOK
      <3>2. offers'[j] # <<>>
        BY <2>3, <1>0 DEF TypeOK
      <3>3. QED
        BY <3>2 DEF HasOffered
    <2>7. OfItsHour(j)' /\ PastAgentsStored(j)'
      BY <1>0, <1>7 DEF JobInv, OfItsHour, PastAgentsStored, HasStored, Resolve, podVars
    <2>8. QED
      BY <2>5, <2>6, <2>7 DEF JobInv
  <1>8. QED
    BY <1>1, <1>2, <1>3, <1>4, <1>5, <1>6, <1>7 DEF JobStep, Kubelet

LEMMA NextInv == CronInv /\ [Next]_vars => CronInv'
PROOF
  <1> SUFFICES ASSUME CronInv, [Next]_vars PROVE CronInv'
    OBVIOUS
  <1>1. CASE Schedule
    BY <1>1, ScheduleInv
  <1>2. ASSUME NEW j \in Jobs, JobStep(j) PROVE CronInv'
    <2>1. TypeOK'
      BY <1>2, JobStepType
    <2>2. ASSUME NEW k \in Jobs PROVE JobInv(k)'
      <3>1. CASE k = j
        BY <1>2, <3>1, OwnStepInv
      <3>2. CASE k # j
        BY <1>2, <3>2, OthersUnchanged, OwnInv DEF CronInv
      <3>3. QED
        BY <3>1, <3>2
    <2>3. QED
      BY <2>1, <2>2 DEF CronInv
  <1>3. CASE UNCHANGED vars
    <2>1. TypeOK'
      BY <1>3 DEF vars, podVars, CronInv, TypeOK
    <2>2. \A k \in Jobs : JobInv(k)'
      BY <1>3, OwnInv DEF vars, podVars, Own, CronInv
    <2>3. QED
      BY <2>1, <2>2 DEF CronInv
  <1>4. QED
    BY <1>1, <1>2, <1>3 DEF Next, JobStep

LEMMA CronInvariant == Spec => []CronInv
PROOF
  <1>1. QED
    BY InitInv, NextInv, PTL DEF Spec

-----------------------------------------------------------------------------
\* Type correctness of any number of overlapping jobs: no counter of a
\* running job passes its limit, and nothing but reports is sent.
THEOREM CronTypeCorrect == Spec => []TypeOK
PROOF
  <1>1. CronInv => TypeOK
    BY DEF CronInv
  <1>2. QED
    BY <1>1, CronInvariant, PTL

\* A report holds a record of every agent and none from before the hour of
\* its job, whatever the jobs of other hours do (cronjob.yaml:21, 100-102).
THEOREM ReportsAreOfTheirRun == Spec => []RecordsOfRun
PROOF
  <1>1. CronInv => RecordsOfRun
    BY DEF CronInv, JobInv, ReportsOf, RecordsOfRun
  <1>2. QED
    BY <1>1, CronInvariant, PTL

-----------------------------------------------------------------------------
\* Each job is a ReportJob.

LEMMA StartOfAJob ==
  ASSUME Init, NEW j \in Jobs
  PROVE  Job(j)!Init
BY DEF Init, Job!Init, JobStatus, JobOffers

LEMMA StutterOfAJob ==
  ASSUME NEW j \in Jobs, UNCHANGED <<status[j], offers[j]>>
  PROVE  UNCHANGED Job(j)!jobVars
BY DEF Job!jobVars, JobStatus, JobOffers

LEMMA KindsOfAppended ==
  ASSUME NEW s \in Seq(Offer), NEW o \in Offer
  PROVE  [i \in DOMAIN Append(s, o) |-> KindsOf(Append(s, o)[i])]
           = Append([i \in DOMAIN s |-> KindsOf(s[i])], KindsOf(o))
PROOF
  <1> DEFINE S == {KindsOf(x) : x \in Offer}
             t == [i \in DOMAIN s |-> KindsOf(s[i])]
  <1>1. \A i \in 1 .. Len(s) : KindsOf(s[i]) \in S
    BY ElementOfSeq
  <1>2. t \in Seq(S) /\ Len(t) = Len(s)
    BY <1>1
  <1>3. KindsOf(o) \in S
    OBVIOUS
  <1> HIDE DEF S
  <1>4. Append(t, KindsOf(o)) =
          [i \in 1 .. Len(s) + 1 |-> IF i = Len(s) + 1 THEN KindsOf(o) ELSE t[i]]
    BY <1>2, <1>3
  <1>5. \A i \in 1 .. Len(s) + 1 :
          Append(s, o)[i] = IF i = Len(s) + 1 THEN o ELSE s[i]
    OBVIOUS
  <1>6. DOMAIN Append(s, o) = 1 .. Len(s) + 1
    OBVIOUS
  <1>7. QED
    BY <1>4, <1>5, <1>6

LEMMA StepOfAJob ==
  ASSUME CronInv, NEW j \in Jobs, JobStep(j)
  PROVE  [Job(j)!Next]_(Job(j)!jobVars)
PROOF
  <1>0. TypeOK /\ JobInv(j) /\ JobInv(j)' /\ offers[j] \in Seq(Offer)
    BY OwnStepInv DEF CronInv, TypeOK
  <1>1. ASSUME NEW a \in Agents, AgentCollect(j, a) \/ AgentStore(j, a)
        PROVE  UNCHANGED Job(j)!jobVars
    BY <1>1, StutterOfAJob DEF AgentCollect, AgentStore
  <1>2. CASE Report(j)
    <2> DEFINE o == [records |-> volume[j], state |-> "sent"]
               k == [kinds |-> Agents, state |-> "sent"]
    <2>1. offers'[j] = Append(offers[j], o) /\ status[j] = "Running"
      BY <1>0, <1>2 DEF Report, TypeOK, At
    <2>2. /\ Len(offers'[j]) = Len(offers[j]) + 1
          /\ DOMAIN offers'[j] = 1 .. Len(offers[j]) + 1
      BY <1>0, <2>1
    <2>3. {r.kind : r \in volume[j]} = Agents
      <3>1. offers'[j][Len(offers[j]) + 1] = o
        BY <1>0, <2>1
      <3>2. QED
        BY <1>0, <2>2, <3>1 DEF JobInv, ReportsOf
    <2>4. JobOffers(j)' = Append(JobOffers(j), k)
      <3>1. o \in Offer
        BY <1>0 DEF TypeOK, Offer
      <3>2. KindsOf(o) = k
        BY <2>3 DEF KindsOf
      <3> HIDE DEF o, k
      <3>3. QED
        BY <1>0, <2>1, <3>1, <3>2, KindsOfAppended DEF JobOffers
    <2>5. JobStatus(j) = "Running" /\ UNCHANGED JobStatus(j)
      BY <1>2, <2>1 DEF JobStatus, Report
    <2>6. Job(j)!Offer
      BY <2>4, <2>5 DEF Job!Offer
    <2>7. QED
      BY <2>6 DEF Job!Next
  <1>3. CASE Complete(j)
    <2>1. status[j] = "Running" /\ status'[j] = "Succeeded" /\ UNCHANGED offers
      BY <1>0, <1>3 DEF Complete, At, TypeOK
    <2>2. offers[j] # <<>> /\ Len(offers[j]) \in DOMAIN offers[j]
      BY <1>0, <1>3 DEF JobInv, HasOffered, Complete, At
    <2>3. Len(JobOffers(j)) = Len(offers[j]) /\ JobOffers(j) # <<>>
      BY <1>0, <2>2 DEF JobOffers
    <2>4. JobOffers(j)[Len(JobOffers(j))].state \in {"taken", "answered"}
      BY <1>3, <2>2, <2>3 DEF JobOffers, KindsOf, Complete, Answered
    <2>5. Job(j)!Succeed
      BY <2>1, <2>3, <2>4 DEF Job!Succeed, JobStatus, JobOffers
    <2>6. QED
      BY <2>5 DEF Job!Next
  <1>4. CASE NextContainer(j) \/ Fail(j) \/ Restart(j) \/ StartOver(j)
    BY <1>4, StutterOfAJob DEF NextContainer, Fail, Restart, StartOver
  <1>5. CASE GiveUp(j)
    <2>1. status[j] = "Running" /\ status'[j] = "Failed" /\ UNCHANGED offers
      BY <1>0, <1>5 DEF GiveUp, TypeOK
    <2>2. QED
      BY <2>1 DEF Job!Fail, Job!Next, JobStatus, JobOffers
  <1>6. ASSUME NEW i \in DOMAIN offers[j], Resolve(j, i)
        PROVE  Job(j)!Next
    <2>1. PICK s \in {"taken", "answered", "lost"} :
            offers' = [offers EXCEPT ![j][i].state = s]
      BY <1>6 DEF Resolve
    <2>2. offers'[j] = [offers[j] EXCEPT ![i].state = s]
      BY <1>0, <2>1 DEF TypeOK
    <2>3. \A n \in DOMAIN offers[j] : offers[j][n] \in Offer
      BY <1>0, ElementOfSeq
    <2>4. /\ DOMAIN JobOffers(j) = DOMAIN offers[j]
          /\ DOMAIN offers'[j] = DOMAIN offers[j]
          /\ i \in 1 .. Len(JobOffers(j))
      BY <1>0, <2>2 DEF JobOffers
    <2>5. JobOffers(j)[i].state = "sent"
      BY <1>6, <2>4 DEF JobOffers, KindsOf, Resolve
    <2>6. JobOffers(j)' = [JobOffers(j) EXCEPT ![i].state = s]
      <3>1. KindsOf([offers[j][i] EXCEPT !.state = s]) =
              [KindsOf(offers[j][i]) EXCEPT !.state = s]
        <4> DEFINE o == offers[j][i]
                   kinds == {r.kind : r \in o.records}
        <4>1. o \in Offer
          BY <1>6, <2>3
        <4> HIDE DEF o
        <4>2. [o EXCEPT !.state = s] = [records |-> o.records, state |-> s]
          BY <4>1 DEF Offer
        <4>3. KindsOf([o EXCEPT !.state = s]) = [kinds |-> kinds, state |-> s]
          BY <4>2 DEF KindsOf
        <4>4. KindsOf(o) = [kinds |-> kinds, state |-> o.state]
          BY DEF KindsOf
        <4> HIDE DEF kinds
        <4>5. [KindsOf(o) EXCEPT !.state = s] = [kinds |-> kinds, state |-> s]
          BY <4>4
        <4>6. QED
          BY <4>3, <4>5 DEF o
      <3>2. offers'[j][i] = [offers[j][i] EXCEPT !.state = s]
              /\ \A n \in DOMAIN offers[j] \ {i} : offers'[j][n] = offers[j][n]
        BY <1>6, <2>2
      <3>3. JobOffers(j)' = [n \in DOMAIN offers[j] |-> KindsOf(offers'[j][n])]
        BY <2>4 DEF JobOffers, KindsOf
      <3>4. QED
        BY <1>6, <3>1, <3>2, <3>3 DEF JobOffers
    <2>7. UNCHANGED JobStatus(j)
      BY <1>6 DEF Resolve, JobStatus
    <2>8. Job(j)!Resolve(i)
      BY <2>5, <2>6, <2>7 DEF Job!Resolve, Job!Resolved
    <2>9. QED
      BY <2>4, <2>8 DEF Job!Next
  <1>7. QED
    BY <1>1, <1>2, <1>3, <1>4, <1>5, <1>6 DEF JobStep, Kubelet

\* The creation of a job is nothing a ReportJob sees.
LEMMA ScheduleStutters ==
  ASSUME CronInv, Schedule, NEW j \in Jobs
  PROVE  UNCHANGED Job(j)!jobVars
PROOF
  <1>1. CASE j = hour + 1
    <2>1. status[j] = "None"
      BY <1>1 DEF CronInv, TypeOK, JobInv, OfItsHour
    <2>2. status'[j] = "Running" /\ UNCHANGED offers
      BY <1>1 DEF Schedule, CronInv, TypeOK
    <2>3. QED
      BY <2>1, <2>2 DEF Job!jobVars, JobStatus, JobOffers
  <1>2. CASE j # hour + 1
    BY <1>2, StutterOfAJob DEF Schedule, CronInv, TypeOK
  <1>3. QED
    BY <1>1, <1>2

\* Every job implements ReportJob: the step of one maps to a step of its own,
\* and to a stutter of all others.
THEOREM CronImplementsReportJobs == Spec => ImplementsReportJobs
PROOF
  <1> DEFINE Steps == \A j \in Jobs : [Job(j)!Next]_(Job(j)!jobVars)
  <1>1. Init => \A j \in Jobs : Job(j)!Init
    BY StartOfAJob
  <1>2. ASSUME CronInv, [Next]_vars
        PROVE  [Steps]_<<status, offers>>
    <2> SUFFICES ASSUME NEW k \in Jobs, ~ UNCHANGED <<status, offers>>
                 PROVE  [Job(k)!Next]_(Job(k)!jobVars)
      OBVIOUS
    <2>1. CASE Schedule
      BY <1>2, <2>1, ScheduleStutters
    <2>2. ASSUME NEW j \in Jobs, JobStep(j)
          PROVE  [Job(k)!Next]_(Job(k)!jobVars)
      <3>1. CASE k = j
        BY <1>2, <2>2, <3>1, StepOfAJob
      <3>2. CASE k # j
        BY <1>2, <2>2, <3>2, OthersUnchanged, StutterOfAJob DEF CronInv, Own
      <3>3. QED
        BY <3>1, <3>2
    <2>3. QED
      BY <1>2, <2>1, <2>2 DEF Next, JobStep, vars
  <1>3. QED
    BY <1>1, <1>2, CronInvariant, PTL DEF Spec, ImplementsReportJobs

=============================================================================
