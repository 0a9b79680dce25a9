---------------------------- MODULE TelemetryCron ----------------------------
(***************************************************************************)
(* The telemetry CronJob over its hours: a job is created every hour,      *)
(* whatever became of those before (concurrencyPolicy has its default,     *)
(* Allow), and has no deadline, so that any number of them may run at the  *)
(* same time.  Each has a pod and a volume of its own (emptyDir).          *)
(*                                                                         *)
(* A job is seen container by container: files, system calls and exit      *)
(* codes are left to TelemetryPod, which implements it (MCTelemetryPod).   *)
(* Hours are the only time.  CronJob and job controllers are external.     *)
(***************************************************************************)
EXTENDS Naturals, Sequences

CONSTANTS
  NumAgents,     \* agent i is the i-th init container
  MaxHour,       \* bound: the hours of the schedule
  BackoffLimit   \* restarts the job controller allows a job

ASSUME CronAssumption ==
  /\ NumAgents \in Nat \ {0}
  /\ MaxHour \in Nat
  /\ BackoffLimit \in Nat

Agents == 1 .. NumAgents
Reporter == NumAgents + 1
Hours == 1 .. MaxHour
Jobs == Hours  \* a job is named by the hour it was created at

VARIABLES
  hour,      \* the last full hour
  status,    \* status[j]: of job j
  cur,       \* cur[j]: the container of its pod that runs
  proc,      \* proc[j]: how far that container is
  stamp,     \* stamp[j]: the hour of the record an agent is collecting
  restarts,  \* restarts[j]: of its containers and pods
  volume,    \* volume[j]: the records in the volume of its pod
  offers     \* offers[j]: the reports it has sent, oldest first

podVars == <<cur, proc, stamp, restarts, volume>>
vars == <<hour, status, podVars, offers>>

Record == [kind : Agents, time : Hours]

Offer == [records : SUBSET Record, state : {"sent", "taken", "answered", "lost"}]

TypeOK ==
  /\ hour \in 0 .. MaxHour
  /\ status \in [Jobs -> {"None", "Running", "Succeeded", "Failed"}]
  /\ cur \in [Jobs -> 1 .. Reporter]
  /\ proc \in [Jobs -> {"work", "collect", "stored", "answer", "failed"}]
  /\ stamp \in [Jobs -> 0 .. MaxHour]
  /\ restarts \in [Jobs -> 0 .. BackoffLimit]
  /\ volume \in [Jobs -> SUBSET Record]
  /\ offers \in [Jobs -> Seq(Offer)]

Init ==
  /\ hour = 0
  /\ status = [j \in Jobs |-> "None"]
  /\ cur = [j \in Jobs |-> 1]
  /\ proc = [j \in Jobs |-> "work"]
  /\ stamp = [j \in Jobs |-> 0]
  /\ restarts = [j \in Jobs |-> 0]
  /\ volume = [j \in Jobs |-> {}]
  /\ offers = [j \in Jobs |-> <<>>]

\* Mutant of Schedule: concurrencyPolicy: Forbid.
ScheduleForbid ==
  /\ hour < MaxHour
  /\ hour' = hour + 1
  /\ status' = IF \E j \in Jobs : status[j] = "Running"
                 THEN status ELSE [status EXCEPT ![hour + 1] = "Running"]
  /\ UNCHANGED <<podVars, offers>>

\* The next full hour: its job is created.
Schedule ==
  /\ hour < MaxHour
  /\ hour' = hour + 1
  /\ status' = [status EXCEPT ![hour + 1] = "Running"]
  /\ UNCHANGED <<podVars, offers>>

-----------------------------------------------------------------------------
\* Container c of job j runs and is at p.
At(j, c, p) == status[j] = "Running" /\ cur[j] = c /\ proc[j] = p

\* An agent starts, stamps its record, and asks the API server before (for
\* its version) and after that.
AgentCollect(j, a) ==
  /\ At(j, a, "work")
  /\ proc' = [proc EXCEPT ![j] = "collect"]
  /\ stamp' = [stamp EXCEPT ![j] = hour]
  /\ UNCHANGED <<hour, status, cur, restarts, volume, offers>>

\* Mutant of AgentStore: the volume outlives the pod, and all jobs have it.
AgentStoreShared(j, a) ==
  /\ At(j, a, "collect")
  /\ volume' = [k \in Jobs |-> volume[k] \cup {[kind |-> a, time |-> stamp[j]]}]
  /\ proc' = [proc EXCEPT ![j] = "stored"]
  /\ stamp' = [stamp EXCEPT ![j] = 0]
  /\ UNCHANGED <<hour, status, cur, restarts, offers>>

\* It has its answers and stores its record; it can still be killed.
AgentStore(j, a) ==
  /\ At(j, a, "collect")
  /\ volume' = [volume EXCEPT ![j] = @ \cup {[kind |-> a, time |-> stamp[j]]}]
  /\ proc' = [proc EXCEPT ![j] = "stored"]
  /\ stamp' = [stamp EXCEPT ![j] = 0]
  /\ UNCHANGED <<hour, status, cur, restarts, offers>>

\* It has ended: the next container starts.
NextContainer(j) ==
  /\ status[j] = "Running" /\ proc[j] = "stored"
  /\ cur' = [cur EXCEPT ![j] = @ + 1]
  /\ proc' = [proc EXCEPT ![j] = "work"]
  /\ UNCHANGED <<hour, status, stamp, restarts, volume, offers>>

\* The reporter posts what is in the volume and waits.
Report(j) ==
  /\ At(j, Reporter, "work")
  /\ offers' = [offers EXCEPT ![j] =
                  Append(@, [records |-> volume[j], state |-> "sent"])]
  /\ proc' = [proc EXCEPT ![j] = "answer"]
  /\ UNCHANGED <<hour, status, cur, stamp, restarts, volume>>

Answered(j) == offers[j][Len(offers[j])].state \in {"taken", "answered"}

\* Mutant of Complete: a report the collector refused is posted again.
CompleteTaken(j) ==
  /\ At(j, Reporter, "answer")
  /\ Answered(j)
  /\ IF offers[j][Len(offers[j])].state = "taken"
       THEN status' = [status EXCEPT ![j] = "Succeeded"] /\ UNCHANGED offers
       ELSE /\ offers' = [offers EXCEPT ![j][Len(offers[j])].state = "sent"]
            /\ UNCHANGED status
  /\ UNCHANGED <<hour, podVars>>

\* An answer ends the reporter, and with it the job.
Complete(j) ==
  /\ At(j, Reporter, "answer")
  /\ Answered(j)
  /\ status' = [status EXCEPT ![j] = "Succeeded"]
  /\ UNCHANGED <<hour, podVars, offers>>

\* The running container fails: an error of its own, or it is killed.  What
\* it has stored or posted stays.
Fail(j) ==
  /\ status[j] = "Running" /\ proc[j] # "failed"
  /\ proc' = [proc EXCEPT ![j] = "failed"]
  /\ stamp' = [stamp EXCEPT ![j] = 0]
  /\ UNCHANGED <<hour, status, cur, restarts, volume, offers>>

\* Mutant of Restart: the limit is checked one restart too late.
RestartOnceMore(j) ==
  /\ status[j] = "Running" /\ proc[j] = "failed" /\ restarts[j] <= BackoffLimit
  /\ restarts' = [restarts EXCEPT ![j] = @ + 1]
  /\ proc' = [proc EXCEPT ![j] = "work"]
  /\ UNCHANGED <<hour, status, cur, stamp, volume, offers>>

\* The container that failed is started again.
Restart(j) ==
  /\ status[j] = "Running" /\ proc[j] = "failed" /\ restarts[j] < BackoffLimit
  /\ restarts' = [restarts EXCEPT ![j] = @ + 1]
  /\ proc' = [proc EXCEPT ![j] = "work"]
  /\ UNCHANGED <<hour, status, cur, stamp, volume, offers>>

\* The pod starts over, with the records that are left in its volume.
StartOver(j) ==
  /\ status[j] = "Running" /\ restarts[j] < BackoffLimit
  /\ restarts' = [restarts EXCEPT ![j] = @ + 1]
  /\ cur' = [cur EXCEPT ![j] = 1]
  /\ proc' = [proc EXCEPT ![j] = "work"]
  /\ stamp' = [stamp EXCEPT ![j] = 0]
  /\ \E left \in SUBSET volume[j] : volume' = [volume EXCEPT ![j] = left]
  /\ UNCHANGED <<hour, status, offers>>

\* It has failed once too often.
GiveUp(j) ==
  /\ status[j] = "Running" /\ proc[j] = "failed" /\ restarts[j] = BackoffLimit
  /\ status' = [status EXCEPT ![j] = "Failed"]
  /\ UNCHANGED <<hour, podVars, offers>>

\* Collector and network: what becomes of a report on its way, in any order
\* of jobs and reports.
Resolve(j, i) ==
  /\ offers[j][i].state = "sent"
  /\ \E s \in {"taken", "answered", "lost"} :
       offers' = [offers EXCEPT ![j][i].state = s]
  /\ UNCHANGED <<hour, status, podVars>>

Kubelet(j) == NextContainer(j) \/ Complete(j) \/ Restart(j) \/ GiveUp(j)

Next ==
  \/ Schedule
  \/ \E j \in Jobs :
       \/ \E a \in Agents : AgentCollect(j, a) \/ AgentStore(j, a)
       \/ Report(j)
       \/ Fail(j)
       \/ StartOver(j)
       \/ Kubelet(j)
       \/ \E i \in DOMAIN offers[j] : Resolve(j, i)

Spec == Init /\ [][Next]_vars

\* Hours pass, the reporters run while they wait for nobody, and the kubelet
\* does its part.  Nothing is assumed of the API server, which the agents wait
\* for, the collector, or failures.
Fairness ==
  /\ WF_vars(Schedule)
  /\ \A j \in Jobs : WF_vars(Report(j)) /\ WF_vars(Kubelet(j))

FairSpec == Spec /\ Fairness

-----------------------------------------------------------------------------
\* A report holds a record of every agent, and none from before the hour of
\* its job: what earlier jobs have collected, or collect at the same time,
\* stays in their own volumes (cronjob.yaml:100-102).
RecordsOfRun ==
  \A j \in Jobs : \A i \in DOMAIN offers[j] :
    LET records == offers[j][i].records IN
      /\ {r.kind : r \in records} = Agents
      /\ \A r \in records : r.time >= j

\* Every hour has its job, and each ends or waits forever for the API server
\* or the collector: a job that waits holds up none of the others
\* (cronjob.yaml:21, and no timeout at http.go:46).
JobsSettle ==
  \A j \in Jobs :
    <>[](\/ status[j] \in {"Succeeded", "Failed"}
         \/ status[j] = "Running" /\ cur[j] \in Agents /\ proc[j] \in {"work", "collect"}
         \/ proc[j] = "answer" /\ ~Answered(j))

JobStatus(j) == IF status[j] = "None" THEN "Running" ELSE status[j]

\* What a ReportJob sees of an offer.
KindsOf(offer) ==
  [kinds |-> {r.kind : r \in offer.records}, state |-> offer.state]

JobOffers(j) == [i \in DOMAIN offers[j] |-> KindsOf(offers[j][i])]

Job(j) ==
  INSTANCE ReportJob WITH status <- JobStatus(j), offers <- JobOffers(j)

\* Each job, whatever runs beside it, keeps the promise of a ReportJob.
ImplementsReportJobs ==
  /\ \A j \in Jobs : Job(j)!Init
  /\ [][\A j \in Jobs : [Job(j)!Next]_(Job(j)!jobVars)]_<<status, offers>>

=============================================================================
