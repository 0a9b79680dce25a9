----------------------------- MODULE TelemetryPod -----------------------------
(***************************************************************************)
(* One run of the telemetry CronJob: a pod whose init containers, the      *)
(* agents, each store a record in the volume the pod's containers share,   *)
(* and whose container, the reporter, sends them on.  Containers run one   *)
(* after the other and are restarted when they fail (config/cronjob.yaml). *)
(*                                                                         *)
(* Kubernetes itself is not part of the repository.  Its rules for such a  *)
(* pod are: a container that fails is started again in the same pod, with  *)
(* the same volume; a pod whose sandbox died starts over with its first    *)
(* init container and the same volume; so does a pod on a node that lost   *)
(* power, where what was not yet on disk is lost, and a pod that replaces  *)
(* an evicted one, whose volume is empty.  The job gives up after          *)
(* BackoffLimit restarts of all these kinds.                               *)
(***************************************************************************)
EXTENDS HTTPStore

CONSTANT BackoffLimit  \* restarts the job controller allows

\* A name can be drawn whenever one is wanted: rand.String(6) has 27^6
\* values, and a job stores at most one file per agent and start.
ASSUME PodAssumption ==
  /\ BackoffLimit \in Nat
  /\ IsFiniteSet(Suffixes) =>
       Cardinality(Suffixes) >= NumAgents * (BackoffLimit + 1)

VARIABLES
  cur,       \* the container that runs: an agent, or Reporter
  proc,      \* what its process does
  stamp,     \* the time of the record an agent process is collecting
  phase,     \* of the job
  restarts,  \* of containers and pods, so far
  volume     \* how often the volume has been emptied or has lost files

podVars == <<cur, proc, stamp, phase, restarts, volume>>
vars == <<storeVars, reporterVars, requests, podVars>>

Reporter == NumAgents + 1

TypeOK ==
  /\ StoreTypeOK
  /\ ReporterTypeOK
  /\ HTTPTypeOK
  /\ cur \in 1 .. Reporter
  /\ proc \in {"start", "collect", "run", "exit0", "exit1"}
  /\ stamp \in Time
  /\ phase \in {"Running", "Succeeded", "Failed"}
  /\ restarts \in 0 .. BackoffLimit
  /\ volume \in 0 .. BackoffLimit

Init ==
  /\ StoreInit
  /\ ReporterInit
  /\ HTTPInit
  /\ cur = 1
  /\ proc = "start"
  /\ stamp = 0
  /\ phase = "Running"
  /\ restarts = 0
  /\ volume = 0

\* Container c runs and its process is at p.
At(c, p) == phase = "Running" /\ cur = c /\ proc = p

-----------------------------------------------------------------------------
\* An agent's process: runE builds the clients, Collect asks for the version
\* of the API server and stamps the record (kubermatic v2 stamps it at once),
\* lists the objects and ends with a Store of the record.
AgentStart(a) ==
  /\ At(a, "start")
  /\ proc' = "collect"
  /\ stamp' = now
  /\ UNCHANGED <<storeVars, reporterVars, requests, cur, phase, restarts, volume>>

AgentCollected(a) ==
  /\ At(a, "collect")
  /\ StoreBegin(a, stamp)
  /\ proc' = "run"
  /\ stamp' = 0
  /\ UNCHANGED <<reporterVars, requests, cur, phase, restarts, volume>>

\* No client, or an answer of the API server is an error: nothing is stored.
AgentFail(a) ==
  /\ At(a, "start") \/ At(a, "collect")
  /\ proc' = "exit1"
  /\ stamp' = 0
  /\ UNCHANGED <<storeVars, reporterVars, requests, cur, phase, restarts, volume>>

AgentStore(a) ==
  /\ At(a, "run")
  /\ StoreStep(a)
  /\ UNCHANGED <<reporterVars, requests, podVars>>

AgentExit(a) ==
  /\ At(a, "run") /\ pc[a] \in {"ok", "err"}
  /\ proc' = IF pc[a] = "ok" THEN "exit0" ELSE "exit1"
  /\ StoreGone(a)
  /\ UNCHANGED <<now, dirVars, reporterVars, requests,
                 cur, stamp, phase, restarts, volume>>

\* The reporter's process.
ReporterStart ==
  /\ At(Reporter, "start")
  /\ ReporterNew
  /\ proc' = "run"
  /\ UNCHANGED <<storeVars, requests, cur, stamp, phase, restarts, volume>>

ReporterWork ==
  /\ At(Reporter, "run")
  /\ \/ ReporterStep /\ UNCHANGED requests
     \/ Post(volume)
     \/ PostFail
     \/ PrintReport(volume)
  /\ UNCHANGED <<storeVars, podVars>>

ReporterAnswer ==
  /\ At(Reporter, "run")
  /\ Response
  /\ UNCHANGED <<storeVars, podVars>>

ReporterNoAnswer ==
  /\ At(Reporter, "run")
  /\ ResponseFail
  /\ UNCHANGED <<storeVars, podVars>>

ReporterExit ==
  /\ At(Reporter, "run") /\ rpc \in {"ok", "err"}
  /\ proc' = IF rpc = "ok" THEN "exit0" ELSE "exit1"
  /\ ReporterGone
  /\ UNCHANGED <<storeVars, requests, cur, stamp, phase, restarts, volume>>

-----------------------------------------------------------------------------
\* Kubernetes.
NextContainer ==
  /\ phase = "Running" /\ proc = "exit0" /\ cur < Reporter
  /\ cur' = cur + 1
  /\ proc' = "start"
  /\ UNCHANGED <<storeVars, reporterVars, requests, stamp, phase, restarts, volume>>

Complete ==
  /\ At(Reporter, "exit0")
  /\ phase' = "Succeeded"
  /\ UNCHANGED <<storeVars, reporterVars, requests, cur, proc, stamp, restarts, volume>>

\* restartPolicy: OnFailure
RestartContainer ==
  /\ phase = "Running" /\ proc = "exit1" /\ restarts < BackoffLimit
  /\ proc' = "start"
  /\ restarts' = restarts + 1
  /\ UNCHANGED <<storeVars, reporterVars, requests, cur, stamp, phase, volume>>

GiveUp ==
  /\ phase = "Running" /\ proc = "exit1" /\ restarts = BackoffLimit
  /\ phase' = "Failed"
  /\ UNCHANGED <<storeVars, reporterVars, requests, cur, proc, stamp, restarts, volume>>

\* Whatever process of the pod runs is gone, with its memory.
ProcessesGone ==
  /\ pc' = [a \in Agents |-> "idle"]
  /\ rec' = [a \in Agents |-> NoRecord(a)]
  /\ target' = [a \in Agents |-> NoName]
  /\ ReporterGone
  /\ stamp' = 0

\* The running container is killed: out of memory, by the node, by a panic.
Kill ==
  /\ phase = "Running" /\ proc \in {"start", "collect", "run"}
  /\ ProcessesGone
  /\ proc' = "exit1"
  /\ UNCHANGED <<now, dirVars, requests, cur, phase, restarts, volume>>

\* The pod starts over with its first init container.
StartOver ==
  /\ phase = "Running" /\ restarts < BackoffLimit
  /\ ProcessesGone
  /\ cur' = 1
  /\ proc' = "start"
  /\ restarts' = restarts + 1
  /\ UNCHANGED <<now, place, requests, phase>>

\* Mutant of SandboxRestart: the volume is made anew.
SandboxRestartEmpty ==
  /\ StartOver
  /\ files' = {}
  /\ UNCHANGED volume

SandboxRestart ==
  /\ StartOver
  /\ UNCHANGED <<files, volume>>

\* The pod is replaced, or its node lost power: Store does not sync, so a
\* file may be kept, cut short, or gone.
VolumeLoss ==
  /\ StartOver
  /\ \E kept, cut \in SUBSET files :
       files' = kept \cup {[f EXCEPT !.whole = FALSE] : f \in cut \ kept}
  /\ volume' = volume + 1

-----------------------------------------------------------------------------
Clock == Tick /\ UNCHANGED <<reporterVars, requests, podVars>>

Network == Collector /\ UNCHANGED <<storeVars, podVars>>

AgentNext(a) ==
  \/ AgentStart(a)
  \/ AgentCollected(a)
  \/ AgentFail(a)
  \/ AgentStore(a)
  \/ AgentExit(a)

ReporterNext ==
  \/ ReporterStart
  \/ ReporterWork
  \/ ReporterAnswer
  \/ ReporterNoAnswer
  \/ ReporterExit

Kubelet == NextContainer \/ Complete \/ RestartContainer \/ GiveUp

Disruption == Kill \/ SandboxRestart \/ VolumeLoss

Next ==
  \/ Clock
  \/ Network
  \/ \E a \in Agents : AgentNext(a)
  \/ ReporterNext
  \/ Kubelet
  \/ Disruption

Spec == Init /\ [][Next]_vars

\* Processes run while they wait for nobody, an answer that has come is
\* read, and the kubelet does its part.  Nothing is assumed of the API
\* server, which AgentStart and AgentCollected wait for, of the collector and
\* the network, nor of errors and disruptions: no call of the code has a
\* timeout.
Fairness ==
  /\ \A a \in Agents : WF_vars(AgentStore(a) \/ AgentExit(a))
  /\ WF_vars(ReporterStart \/ ReporterWork \/ ReporterExit)
  /\ WF_vars(ReporterAnswer)
  /\ WF_vars(Kubelet)

FairSpec == Spec /\ Fairness

-----------------------------------------------------------------------------
Records(r) == {r.records[i] : i \in 1 .. Len(r.records)}

CompleteReport(r) ==
  /\ \A f \in Records(r) : f.whole
  /\ \A a \in Agents : \E f \in Records(r) : f.rec.kind = a

\* Every report that leaves a reporter holds a record of every agent and
\* nothing but whole records, whatever was killed, restarted or lost before
\* (file.go:52-60 of the store against reporter file.go:59-86, with the
\* order of the containers in cronjob.yaml:31-71).
OfferedComplete ==
  \A i \in 1 .. Len(requests) : CompleteReport(requests[i].report)

\* Of two records of a kind the one collected later comes later in the
\* report, unless they were stored within one second: the records come in
\* the order of the file names (os.ReadDir, reporter file.go:54-61), and the
\* names start with the second they are stored in (store file.go:49-50).
NewestLast ==
  \A i \in 1 .. Len(requests) :
    LET rs == requests[i].report.records IN
      \A j, k \in 1 .. Len(rs) :
        j < k /\ rs[j].rec.kind = rs[k].rec.kind
              /\ rs[j].rec.time > rs[k].rec.time
          => rs[j].name.sec = rs[k].name.sec

\* What is posted is what the directory holds when it is posted: the list
\* of names read at the start and the files read since have not gone stale
\* (reporter file.go:54-86).
PostIsCurrent ==
  [][Len(requests') > Len(requests) =>
       Records(requests'[Len(requests')].report) = files]_requests

\* A later report of a job repeats every record of an earlier one, as long
\* as the volume is the same: a collector that keeps the last one of the
\* reports it was sent twice loses nothing (store file.go:50-52, which gives
\* each record a file of its own; reporter file.go:59-79).
RetriesRepeat ==
  \A i, j \in 1 .. Len(requests) :
    i < j /\ requests[i].volume = requests[j].volume =>
      Records(requests[i].report) \subseteq Records(requests[j].report)

\* A job succeeds only after the last report it sent was answered, or handed
\* to Println, which may fail unnoticed (http.go:46-52, stdout.go:33-40,
\* reporter main.go:29-32).
SucceededAnswered ==
  phase = "Succeeded" =>
    /\ requests # <<>>
    /\ requests[Len(requests)].state \in {"taken", "answered", "printed", "unprinted"}

\* What a job that succeeded leaves behind is what its last report holds: no
\* record was stored after the directory was listed, and none was passed over
\* (reporter file.go:54-86, and cronjob.yaml:31-71 for who may still store).
SucceededSentAll ==
  phase = "Succeeded" => Records(requests[Len(requests)].report) = files

\* How much the process of the container that runs has left to do, and the
\* call it has in progress.
ProcLeft ==
  CASE proc = "start" -> 3 [] proc = "collect" -> 2 [] proc = "run" -> 1
    [] proc \in {"exit0", "exit1"} -> 0

StoreLeft(a) ==
  CASE pc[a] = "stat" -> 3 [] pc[a] = "create" -> 2 [] pc[a] = "write" -> 1
    [] pc[a] \in {"idle", "ok", "err"} -> 0

ReporterLeft ==
  CASE rpc = "open" -> 4 [] rpc = "read" -> 3 [] rpc = "post" -> 2
    [] rpc = "wait" -> 1 [] rpc \in {"idle", "ok", "err"} -> 0

\* How much is left to do for a job, the most significant first: its end, the
\* restarts it is allowed, the containers still to come, the process of the
\* container, the call of that process, the files still to be read.
Left ==
  << IF phase = "Running" THEN 1 ELSE 0,
     BackoffLimit - restarts,
     Reporter - cur,
     ProcLeft,
     IF cur = Reporter THEN ReporterLeft ELSE StoreLeft(cur),
     Cardinality(unread) >>

Precedes(s, t) ==
  \E i \in DOMAIN t : s[i] < t[i] /\ \A j \in 1 .. i - 1 : s[j] = t[j]

\* Whatever happens in the pod, errors and restarts included, leaves less to
\* do: no error is answered by trying again in the same process (http.go:46-49,
\* reporter file.go:54-86), so a job can only take so many steps, and what is
\* still to show of Settles is that one of them is possible.
CountsDown ==
  [][Precedes(Left', Left)]_<<dirVars, callVars, reporterVars, podVars>>

\* A job ends, unless it waits forever for the API server or for an answer
\* of the collector (http.go:46 and the lists of the agents have no timeout);
\* it neither hangs anywhere else nor starts over forever.
Settles ==
  <>[](\/ phase # "Running"
       \/ cur \in Agents /\ proc \in {"start", "collect"}
       \/ rpc = "wait" /\ requests[Len(requests)].state \in {"sent", "lost"})

-----------------------------------------------------------------------------
\* What the documentation says of the system, and the code does not do.

\* "Reporter will aggregate data which was collected by the Agent from local
\* storage" (docs/proposals/kubermatic-agent.md:21): once the agents have
\* ended well the reporter finds only records it can read.
CollectedIsReadable == cur = Reporter => \A f \in files : f.whole

\* "... and send it to storage backend endpoint" (same line): a job that
\* succeeded has delivered a report.
SucceededDelivered ==
  phase = "Succeeded" =>
    \E i \in 1 .. Len(requests) : requests[i].state \in {"taken", "printed"}

=============================================================================
