# Telemetry client: TLA+ models and proofs

This directory specifies the telemetry client of this repository in TLA+,
model-checks the specifications with TLC and proves theorems about them with
TLAPS. The reference is the code; documents are quoted only where a run shows
that the code does something else.

## The system

An hourly CronJob (`config/cronjob.yaml`) runs a pod. Its init containers, the
*agents*, run one after the other; each asks API servers for one kind of data
and stores it as one JSON *record* in a volume. Its container, the *reporter*,
then reads all records, puts them into one *report* and posts it to a collector
(or prints it). Containers that fail are restarted, with the same volume.

| component | source | state | operations |
|---|---|---|---|
| file store | `pkg/datastore/file.go` | files of the record directory | `Store`: stat, create, write |
| file reporter | `pkg/reporter/v1`, `v2` | the report in the making | `NewFileReporter`, `Report`: list, read, marshal, store |
| HTTP and stdout stores | `pkg/datastore/http.go`, `stdout.go` | a request on its way | `Store`: POST and answer; print |
| kubermatic agent | `pkg/agent/kubermatic/v1`, `v2` | the record in the making | `Collect`: a list per kind, clusters per seed, conversions |
| kubernetes agent | `pkg/agent/kubernetes`, `v1`, `v2` | the record in the making | `Collect`: list nodes, convert, store |
| entry points | `cmd/`, `pkg/cli/` | none | flags, clients, exit code |
| CronJob | `config/cronjob.yaml` | pod, containers, volume | order, restart, schedule |
| report and record types | `pkg/report`, `pkg/agent/*/types` | none | JSON fields, setters for the collector |
| versions, log, rbac, tooling | `pkg/version`, `pkg/log`, `config/rbac.yaml`, `hack/` | none | none |

How they interact: an agent calls the file store at the end of `Collect`; the
file store and the reporter share the directory and nothing else; the reporter
calls the HTTP or stdout store; the processes are tied together only by the
order of the containers, their exit codes and the volume. There is no lock, no
transaction, no retry and no timeout in the code: retries are restarts by
Kubernetes.

What is hard, then, is what happens between the processes and between two
system calls of one of them: a death between create and write, a restart on a
volume that is not empty, an answer that is lost after the collector took the
report, lists that are taken at different times of API servers that change, a
call that never returns. `PROJECT.json` lists these hazards at their lines.

What makes each part correct:

- file store: nil only when the record is on disk and whole; no record lost or
  damaged by another call;
- reporter: a report that leaves is complete, current, and in the order of its
  records; an error otherwise;
- HTTP store: success only after an answer; stdout store: success only after
  a print, which may have failed;
- job: it succeeds only after its report was answered (or printed, as above)
  and no record is left unsent, a later report repeats the earlier ones, every step leaves it less to
  do, and it ends unless somebody lets it wait forever;
- CronJob: every hour has its job, a job that waits holds up no other, and
  records and answers of one run do not get into another;
- kubermatic agent: the record holds what was there during the whole
  collection, nothing that never was, its references resolve, and no
  datacenter is in it twice;
- kubernetes agent: the record is of one moment, one name on one machine has
  one ID, which another shares only where the parts it is made of end at other
  places, and records repeat what has not changed.

## Modules

| module | models | state and actions against the code |
|---|---|---|
| `FileStore` | `fileStore.Store` | `files` is the directory, `place` what `os.Stat` finds; `pc[a]`, `rec[a]`, `target[a]` are the call of agent `a`. `StoreStat`, `StoreCreate`, `StoreWrite`, `StoreFail` are its system calls, `StoreBegin` and `StoreEnd` the process around it |
| `FileReporter` | `NewFileReporter`, `Report` | `rpc`, `unread`, `report`; `ReporterNew`, `ReporterOpen`, `ReporterRead` (one file), `ReporterMarshal` and the error returns |
| `HTTPStore` | `httpStore.Store`, `stdout.Store`, collector and network (external) | `requests`, every report that was to be sent or printed, with what became of it; `Post`, `Response`, `ResponseFail`; `PrintReport`, which ends well whether the report was `"printed"` or `"unprinted"`; `Arrive` |
| `TelemetryPod` | one run of the job | composes the three above with the containers: `cur`, `proc`, `phase`, `restarts`, `volume`; agent and reporter processes, kubelet, kill, sandbox restart, loss of the volume |
| `ReportJob` | abstract: what a job promises | `status`, `offers` |
| `MCTelemetryPod` | what the pod implements: `ReportJob` and `TelemetryCron` by refinement mappings, `FileStore` as it is | `Offers`; `Stage`, `StampHour`, `CronRecords`, `CronOffers`, `HourOf` |
| `TelemetryCron` | the jobs of consecutive hours | `Schedule` makes a job an hour, whatever runs; `AgentCollect`, `AgentStore`, `NextContainer`, `Report`, `Complete` are the containers of job `j`, `Fail`, `Restart`, `StartOver`, `GiveUp` what else becomes of them, `Resolve` the collector; each job is an instance of `ReportJob` (`Job(j)`) |
| `KubermaticAgent` | `kubermaticAgent.Collect`, v1 and v2, and the API servers (external) | one action per list call, the conversions as operators of their names (`SeedFromKube`, `ClusterFromKube`, ...); `live` is what the servers hold, `todo` and `seed` the loop over the seeds, `record` what is collected, `steady` and `seen` are history |
| `MCKubermaticAgent` | its TLC instances | |
| `KubernetesAgent` | `kubernetesAgent.Collect`, v1 and v2, in consecutive runs, and the API server (external) | `ServerVersion`, `List`, `Convert` (one node of the loop), `Store`, `Fail`; `kube` is what the server holds, `items` what is still to convert, `nodes` is `record.Nodes`; `list`, `moments` and `records` are history |
| `MCKubernetesAgent` | its TLC instances | |
| `FileStore_proofs`, `TelemetryPod_proofs`, `TelemetryPodReports_proofs`, `TelemetryPodProgress_proofs`, `MCTelemetryPod_proofs`, `TelemetryCron_proofs`, `KubermaticAgent_proofs`, `KubernetesAgent_proofs` | theorems | |

Abstractions: a record is its kind and its time; the bytes of a file are
whether they are the whole record (an empty file and a prefix are both no JSON
document, and nothing in the code tells them apart); the report keeps the file
each record came from, which its JSON does not, so that properties can relate
the two. The random part
of a file name is taken to differ from those drawn before (27^6 values); what
the collision would do is seen with the mutant `DrawNameOfSecond`. Log output is
left out. `TelemetryCron` sees a job container by container: the files and
system calls of `TelemetryPod` are no steps there, an error is one step of a
container, `Fail`, whatever had been stored or posted before it. That this is
what the pod does is not assumed: `ImplementsCronJob` says that `TelemetryPod`,
when it posts from a record directory, implements the first of the jobs of a
`TelemetryCron` (its own clock creates the others, which stay as they are). A
record is there for a `TelemetryCron` when its file is whole, an agent has
"stored" when its `Store` has returned nil, a reporter is at its "answer" when its
POST has left. The property leaves out a path that is not a directory, where
`Store` returns nil and stores nothing (the run `store_not_a_dir`), and the
stdout sink, which the CronJob does not use.

Of the objects of the API servers `KubermaticAgent` keeps names, the names they
refer to, and the fields the conversions decide on: the cloud providers that
are set in a spec (one, none, or more, which is an error), the region, which is
known of some providers, the expose strategy of a seed, which falls back to
that of the configuration and that to the default, an optional boolean of a
cluster (one stands for all, which are alike), and the owner references of a
key. `generateUUID` is taken to be injective. A datacenter that moves between
seeds is two elements of `Datacenters` with one `NameOf`.

`KubernetesAgent` keeps strings where the code concatenates them, as sequences
of characters: `getID` joins three strings without a separator, and what this
can confuse depends on their lengths. All three have any length; machine ID and
system UUID may be empty. `HashOf` is injective. The
iteration over the capacity map is in any order, and sorted after that. One
plain string of a node (`os`) stands for the six the code copies alike.

Definitions marked as mutants (`StoreFailIgnored`, `ReporterMarshalAny`, ...)
are no part of a specification: each is a plausible wrong version of the
definition after it, and `PROJECT.json` names the property that catches it.

## What the runs check

| run | question | bounds |
|---|---|---|
| `store` | do concurrent, dying stores keep each other's records? (`OkMeansStored`, `StoredRecordsKept`) | 2 agents, 2 seconds, 2 random strings; directory, file or nothing at the path |
| `pod_safety` | what does a report hold after any failure? (`OfferedComplete`, `PostIsCurrent`, `NewestLast`, `RetriesRepeat`, `SucceededAnswered`, `SucceededSentAll`), and what can a job do forever? (`CountsDown`) | 2 agents, 2 seconds, 4 random strings, 1 restart |
| `pod_job` | does a job end (`Settles`), and does the pod implement `ReportJob` and a job of `TelemetryCron`? | 1 agent, 1 second, 2 restarts, HTTP |
| `pod_stdout` | does a pod that prints, where a print may fail unnoticed, implement `ReportJob`, and its store `FileStore`? (`ImplementsStore`) | 2 agents, 1 restart |
| `cron` | what do jobs that overlap do to each other? (`RecordsOfRun`, `JobsSettle`, `ImplementsReportJobs`) | 2 agents, 2 hours, 1 restart |
| `kubermatic` | what is in the record while objects come and go? (`StoredWithinInterval`, `LinksResolve`, `DatacentersUnique`) | 2 seeds, a datacenter on either, 2 clusters of which one is malformed, one of each other kind, all changes |
| `kubernetes` | what does an ID identify, and what do records repeat? (`IDsIdentify`, `EntriesRepeat`, `NodesOfOneMoment`) | 2 names, 2 machine IDs, 3 system UUIDs, 3 changes, 2 records |

Why the bounds are enough: two agents are the two of `cronjob.yaml`, and what
they can do to each other needs two. One restart is enough for a second file of
one agent and a second report of one volume, which is what the ordering and
repetition properties compare; two restarts let a reporter fail twice and the
job give up after progress. Two seconds are needed to tell names by their
second from names by their random part. `Suffixes` has one value for each file
a job can make (`PodAssumption`). An object of an API server can be made and
deleted any number of times; two seeds make the loop run twice, let a
cluster of one be missed while the other is listed, and let a datacenter move
from one to the other; the malformed cluster ends the collections it is
listed in. Two hours make two jobs that overlap in all ways, one of which may
have restarted. In `kubernetes`, three changes
register two clones and update one, or let a name be used again by another
machine; two records are what the properties compare. One name and a machine ID make up
the other name, and a machine ID and a system UUID another system UUID, so that
the concatenation does confuse nodes, and `IDsIdentify` is about some that share
an ID, one after the other under one name, and at once under two. `Referential = TRUE` keeps an
object while another names it; `FALSE`, which puts no rule on deletions, is
left to the proofs, which hold for both. `SecondsPerHour`, how many seconds of the
pod's clock make an hour of `TelemetryCron`, is 1 in the runs; the clock of
`pod_job` does not move (with one that does its states are too many for a run that
also checks liveness), so that there TLC looks at what the job itself does, and
the hours that pass meanwhile are left to the proof, which has any clock and any
`SecondsPerHour`.

Runs that show a disagreement (`findings` in `PROJECT.json`):

- `store_not_a_dir`: `Store` returns nil, and stores nothing, when the record
  path is not a directory (`file.go:45-47` returns the nil error of `Stat`).
- `pod_readable`: an agent killed between create and write leaves a file that is
  no record. The restarted agent adds its own beside it; the reporter reads
  both, `json.Marshal` fails, and so it does on every restart of that pod: the
  job gives up and the records it has are never sent. The proposal says the
  reporter aggregates what the agents collected and sends it.
- `pod_delivered`: any answer, a refusal included, makes the job succeed. (With
  `Sink = "stdout"` the same property fails through `stdout.go:38`, where the
  error of `fmt.Println` is ignored: the job succeeds with nothing printed.)
- `kubermatic_projects`: projects are listed before clusters, so a cluster can
  be recorded with the UUID of a project the record does not hold.
- `kubernetes_stable_id`: a node is reported under another ID once its machine
  ID is populated, where the record type asks for a stable one.

Deadlock is not checked where the system stops: a job ends, and so does a
collection (`KubernetesAgent` stops at its bounds). `store`, whose processes
start again, is checked for it.

### Fairness

`FairSpec` assumes that processes take steps that wait for nobody (the system
calls of a store, the exit of a process, the work of the reporter up to the
POST), that an answer that came is read, and that the kubelet goes on with a
pod that is ready to. It assumes nothing of the API server (the steps of an
agent before its store), of the collector and the network, nor of errors and
kills. Under it `Settles` holds: a job ends, or waits forever for the API
server, or for an answer that does not come; these are the two places of the
code without a timeout. Bounded restarts are the job controller's
(`backoffLimit`, default 6; the model's bound is `BackoffLimit`).

`TelemetryCron!FairSpec` assumes that hours pass, that a reporter works while it
waits for nobody, and that the kubelet does its part; nothing of the agents,
which wait for the API server, of the collector, or of failures. Under it
`JobsSettle` holds: every hour has its job, and it ends, waits forever for an
answer, or for the API server in one of its agents, whatever the jobs of the
other hours wait for.

## What is proved

For every value of the constants (any number of agents, clock, set of random
strings, kind of path, sink and number of restarts; any number of hours; any
objects, references and deletions; any names and machines), the four
refinements and every invariant and action property of the passing runs:

| theorem | property |
|---|---|
| `FileStore_proofs!StoreTypeCorrect` | `StoreSpec => []StoreTypeOK` |
| `FileStore_proofs!StoreOkIsStored` | `StoreSpec => []OkMeansStored` |
| `FileStore_proofs!StoredRecordsAreKept` | `StoreSpec => StoredRecordsKept` |
| `TelemetryPod_proofs!PodTypeCorrect` | `Spec => []TypeOK` |
| `TelemetryPod_proofs!OfferedReportsComplete` | `Spec => []OfferedComplete` |
| `TelemetryPod_proofs!SucceededIsAnswered` | `Spec => []SucceededAnswered` |
| `TelemetryPodReports_proofs!PostsAreCurrent` | `Spec => PostIsCurrent` |
| `TelemetryPodReports_proofs!LaterReportsRepeat` | `Spec => []RetriesRepeat` |
| `TelemetryPodReports_proofs!NewestRecordsLast` | `Spec => []NewestLast` |
| `TelemetryPodReports_proofs!SucceededHasSentAll` | `Spec => []SucceededSentAll` |
| `TelemetryPodProgress_proofs!JobCountsDown` | `Spec => CountsDown` |
| `MCTelemetryPod_proofs!PodImplementsReportJob` | `Spec => ImplementsReportJob` |
| `MCTelemetryPod_proofs!PodImplementsCronJob` | `Spec => ImplementsCronJob`, if the sink is http |
| `MCTelemetryPod_proofs!PodImplementsStore` | `Spec => ImplementsStore` |
| `MCTelemetryPod_proofs!PodStoreOkIsStored` | `Spec => []OkMeansStored` |
| `TelemetryCron_proofs!CronTypeCorrect` | `Spec => []TypeOK` |
| `TelemetryCron_proofs!ReportsAreOfTheirRun` | `Spec => []RecordsOfRun` |
| `TelemetryCron_proofs!CronImplementsReportJobs` | `Spec => ImplementsReportJobs` |
| `KubermaticAgent_proofs!AgentTypeCorrect` | `Spec => []TypeOK` |
| `KubermaticAgent_proofs!CollectWithinInterval` | `Spec => []StoredWithinInterval` |
| `KubermaticAgent_proofs!CollectLinks` | `Spec => []LinksResolve` |
| `KubermaticAgent_proofs!CollectDatacentersUnique` | `Spec => []DatacentersUnique` |
| `KubernetesAgent_proofs!NodesTypeCorrect` | `Spec => []TypeOK` |
| `KubernetesAgent_proofs!IDsIdentifyNodes` | `Spec => []IDsIdentify` |
| `KubernetesAgent_proofs!EntriesRepeatAlways` | `Spec => []EntriesRepeat` |
| `KubernetesAgent_proofs!RecordsOfOneMoment` | `Spec => []NodesOfOneMoment` |

They use the assumptions of the modules (`StoreAssumption`, `SinkAssumption`,
`PodAssumption`, `HourAssumption`, `CronAssumption`, `AgentAssumption`,
`NodesAssumption`), which
say what kind of value a constant has, and which TLC evaluates in the runs.
`AgentAssumption` also says that a cluster and its datacenter are on one seed,
and that the empty name is no name; `NodesAssumption` that names, machine IDs
and system UUIDs are strings and a name is not empty, that capacities are finite
and addresses a list, and that nil is no address.

*The store.* `OkMeansStored` is not inductive: a `StoreWrite` of another agent
could replace the file. `StoreInv` adds that files have different names
(`OneFilePerName`), that the file an agent has created is there with what it
has written so far (`OwnFile`), and that two agents that have created a file
have not the same name (`OwnName`). A new name differs from all names present,
so from all targets by `OwnFile`; a write then touches no file but its own,
which is not whole yet: this is also `StoredRecordsKept`.

*The pod.* `OfferedComplete` speaks of requests only. `PodInv` strengthens it
along the life of a record: an agent that ended well has left a whole record
(`AgentsHaveStored`), which needs that one process runs at a time
(`OneAtATime`) and that the file being written is of the agent's own kind
(`TargetIsOwn`, `RecordIsOwn`, `OneFilePerName`); so when the reporter lists
the directory a whole record of every agent is in an unread file, and while it
reads such a record is either still unread or in the report (`ReadsAll`); when
all is read and json.Marshal has refused everything that is not whole, the
report is complete (`PostsComplete`), and the request made of it is. A loss of
the volume destroys records, but starts the pod over, so no agent has ended
well. `AnswerInv` carries the answer from `Response` or `PrintReport` to the
exit of the reporter and the end of the job.

*Its reports against the directory.* While the reporter reads, the files are
those in the report and those still unread (`ReadsDirectory`), so that a report
with nothing unread is the directory: `PostIsCurrent`. The volume holds what the
reports of it hold (`ReportsInVolume`), as whole records leave it only with
the volume (the file an agent writes is not whole, `TargetUnfinished`); a later
report being the directory again, it repeats them: `RetriesRepeat`.
`NewestLast` compares times that were taken at different moments: a record is
stamped after all files of its kind were named and before its own is
(`CallsTimed`, `TargetIsCall`), so that a newer record has no earlier file
name (`NewerLater`), and the report is in the order of the names
(`ReadsInOrder`).

`SucceededSentAll` is about a later moment than `PostIsCurrent`: from the POST to the
end of the job the last request has to stay the last and the directory as it
was. `SentInv` carries this from where a report has left (`HasSent`); it rests on
`OneAtATime`, as only an agent could add a file, and on a start over, which may
empty the volume, taking the reporter with it.

*What is left to do.* `CountsDown` compares six numbers, the most significant
first: whether the job runs, the restarts it is allowed, the containers to
come, what the process has to do, what its call has to do, the files it has not
read. Every action of the pod lowers one and leaves those before it as they
are; a restart, which raises the last four, lowers the second. The proof needs
that the process of a container that is not current does nothing (`OneAtATime`),
so that the call in the measure is the one that is made, and that the directory
is finite (`FiniteInv`), so that a file read is one less to read. It is the
part of `Settles` a prover can show: no behaviour has infinitely many steps of a
job, for any number of agents and restarts, so a job that does not end comes to
a state it does not leave. That such a state is one of those `Settles` names is
what TLC checks.

*The pod as a `ReportJob`.* Under `PodInv` a request that leaves is a complete
report, an `Offer`; under `AnswerInv` the end of the job is a `Succeed`; the
network is a `Resolve`, `GiveUp` a `Fail`, and all other steps change nothing a
`ReportJob` sees.

*The pod as a job of `TelemetryCron`.* One lemma for each action of `TelemetryCron`
says which changes of the pod's own variables make it (`MapsCollect`, `MapsStore`,
..., `MapsStutter`), the functions over the jobs left behind; one for each part
of `Next` then finds the changes a step makes (`AgentIsCron`, `ReporterIsCron`,
`KubeletIsCron`, `DisruptionIsCron`, `ClockIsCron`, `NetworkIsCron`). They need most
of what was proved before: a file that is created adds no record, as its name is
new; a write adds exactly the record of its agent (`StoresARecord`), as what it
replaces was not whole (`TargetUnfinished`) and the record is the agent's own
(`RecordIsOwn`); the report that leaves is the directory (`ReadsDirectory`); the
end of a job follows an answer (`AnswerInv`), which under http is not a print,
good or failed (`NonePrinted`); an agent that was killed, or failed, is at the same place as one
that never began a call (`OneAtATime`). The clock creates a job when the quotient
by `SecondsPerHour` grows, which it does by one at a time (`HourOfTime`).

*The pod's store.* `FileStore` alone lets any agents store at once; the pod composes
its actions with containers and kills. `ImplementsStore` says that this adds
nothing but the loss of the volume: a kill or a start over, which clears the
memory of all processes (`ProcessesGone`), is a `StoreEnd` of the one call in
progress (`OneAtATime`), the memory of the others being blank already
(`CallsBlank`), and a record that is handed over was stamped before
(`stamp <= now`). So `StoreInv` is an invariant of the pod too: a loss of the
volume, the one step that is none of the store's, leaves no call in progress that
relied on a file, and names that differ.

*The CronJob.* `CronInv` says of each job alone that its records are from its
hour on (`OfItsHour`), that the agents it has come past, and one that is done,
have stored (`PastAgentsStored`), what its reports hold (`ReportsOf`), and that who waits for
an answer has sent a report (`HasOffered`). No step of one job changes another,
so an invariant per job is enough; a step of the whole is one step of one
`ReportJob` and a stutter of all others.

*The kubermatic agent.* `AgentInv` says of each list of the master cluster that
it has what was there throughout, and nothing that never was, from when it is
taken (`MasterInv`); and that there is one list of seeds, taken at one moment,
whose elements are to come, or recorded, or in the loop body (`SeedsInv`,
`LoopInv`): the datacenters of one list have different names, which no later
move can undo (`DatacentersUnique`). Clusters are recorded of seeds that are
recorded, or about to be, so that they lead to their seed (`LinksResolve`).

*The kubernetes agent.* The conversion of a node is a function of the node
(`NodeOf`): the keys of a map are the same set in whatever order they are come
upon, and sorting begins from that set (`ConvertedIsNodeOf`). `NodesInv` follows
the loop: the nodes converted are those of the list up to where the rest begins,
in order (`LoopInv`), and the list is one of the moments of the run
(`MomentsInv`); so a record is `NodeOf` of the nodes listed (`RecordsInv`), which
gives `EntriesRepeat` and `NodesOfOneMoment`. `IDsIdentify` then is about one
concatenation: the lengths of three parts add up to that of the whole
(`LengthOfTriple`), so that one part alone cannot have another length; and of two
strings that are equal and end in parts of one length the parts are equal
(`ConcatSplits`), twice. Nothing is assumed of the form of the parts; the comment
that calls the ID unique (`v2/types/record.go:41`) says more than that, and more than
the code does where a part ends and the next begins at another place. `TypeOK` has the capacity sorted and
without a name twice. It is sorted by choosing an ascending sequence, so what is
needed is that there is one: an element of a finite set of numbers has its place
at the number of elements up to it (`AscendingSeqExists`), and no induction.

Only model-checked: `Settles` and `JobsSettle`, as liveness under fairness is
out of the prover's reach. The findings are counterexamples.

## What is not modelled

- Fields of objects that are copied to the record as they are, and the
  optional settings of a cluster but one, which are all converted alike; the
  versions and editions of Kubernetes and Kubermatic a record has.
- The parsing of flags and the construction of clients, but for their failure.
- The location setters of reports: called by the collector, which is not in the
  repository.
- Versions, logging, static manifests, tooling: no state and no behaviour the
  properties of the rest could depend on.

## Plan

1. *Core (done)*: `FileStore`, `FileReporter`, `HTTPStore`, `TelemetryPod`,
   `ReportJob`.
2. *Agents (done)*: `KubermaticAgent` with its conversions, `KubernetesAgent`.
3. *CronJob (done)*: `TelemetryCron` over `ReportJob`.
4. *Proofs (done)*: the safety properties of the runs, and the refinements: the
   pod of a `ReportJob` and of a job of `TelemetryCron`, and each of those of a
   `ReportJob`; the pod's store of a `FileStore`.
5. Worth proving next: that a collection whose API servers do not change stores
   exactly what they hold, for both agents, and that `Collect` as a whole is what
   `AgentStart`, `AgentCollected` and `AgentFail` take it to be.
6. Open: the flags of the commands, if they come to interact; the collector,
   if it becomes part of the repository.
