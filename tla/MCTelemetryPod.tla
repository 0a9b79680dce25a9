--------------------------- MODULE MCTelemetryPod ---------------------------
(***************************************************************************)
(* What TelemetryPod implements: the promise of ReportJob, one of the jobs *)
(* of TelemetryCron, and, as far as its volume keeps files, FileStore.     *)
(***************************************************************************)
EXTENDS TelemetryPod

CONSTANT SecondsPerHour  \* bound: how soon the next job comes

ASSUME HourAssumption == SecondsPerHour \in Nat \ {0}

\* The job seen from outside: its phase, and for every report that left it
\* the kinds of its whole records.
Offers ==
  [i \in 1 .. Len(requests) |->
     [kinds |-> {f.rec.kind : f \in {g \in Records(requests[i].report) : g.whole}},
      state |-> requests[i].state]]

Job == INSTANCE ReportJob WITH status <- phase, offers <- Offers

\* The pod, with everything that can happen to it, keeps the promise of
\* ReportJob.
ImplementsReportJob == Job!Spec

-----------------------------------------------------------------------------
\* The pod is the one of the first hour's job; the clock it runs by makes the
\* jobs of the hours to come, which have not started any container yet.
HourOf(t) == t \div SecondsPerHour + 1

LastHour == HourOf(MaxTime)

OfFirst(x, others) == [j \in 1 .. LastHour |-> IF j = 1 THEN x ELSE others]

StatusOfJobs ==
  [j \in 1 .. LastHour |->
     IF j = 1 THEN phase ELSE IF j <= HourOf(now) THEN "Running" ELSE "None"]

\* How far the container that runs is, to a TelemetryCron: an exit code is
\* known when the call it comes from has returned.
AgentStage(a) ==
  IF proc = "start" THEN "work"
  ELSE IF proc = "exit1" \/ pc[a] = "err" THEN "failed"
  ELSE IF proc = "exit0" \/ pc[a] = "ok" THEN "stored"
  ELSE "collect"

ReporterStage ==
  IF proc = "exit1" \/ rpc = "err" THEN "failed"
  ELSE IF proc = "exit0" \/ rpc \in {"wait", "ok"} THEN "answer"
  ELSE "work"

Stage == IF cur = Reporter THEN ReporterStage ELSE AgentStage(cur)

\* The hour of the record an agent is collecting or storing.
StampHour ==
  IF Stage # "collect" THEN 0
  ELSE HourOf(IF proc = "run" THEN rec[cur].time ELSE stamp)

\* A record as a TelemetryCron has it; a file that is not whole is none.
CronRecords(S) ==
  {[kind |-> f.rec.kind, time |-> HourOf(f.rec.time)] : f \in {g \in S : g.whole}}

CronOffers ==
  [i \in 1 .. Len(requests) |->
     [records |-> CronRecords(Records(requests[i].report)), state |-> requests[i].state]]

Cron == INSTANCE TelemetryCron WITH
  MaxHour  <- LastHour,
  hour     <- HourOf(now),
  status   <- StatusOfJobs,
  cur      <- OfFirst(cur, 1),
  proc     <- OfFirst(Stage, "work"),
  stamp    <- OfFirst(StampHour, 0),
  restarts <- OfFirst(restarts, 0),
  volume   <- OfFirst(CronRecords(files), {}),
  offers   <- OfFirst(CronOffers, <<>>)

\* The first hour has come, and nothing else has happened.
FirstHour ==
  /\ HourOf(now) = 1
  /\ StatusOfJobs = OfFirst("Running", "None")
  /\ cur = 1 /\ Stage = "work" /\ StampHour = 0 /\ restarts = 0
  /\ CronRecords(files) = {} /\ CronOffers = <<>>

\* A pod that posts, with a record directory as in cronjob.yaml, is what
\* TelemetryCron takes a job to be, whatever happens to it: every container
\* leaves a record in the volume exactly when its Store returns nil, is not
\* followed by the next one before, and what is posted is what the volume
\* holds (cronjob.yaml:28-71 with file.go:43-64 and reporter file.go:46-87).
ImplementsCronJob ==
  /\ FirstHour
  /\ [][place = "dir" => Cron!Next]_(Cron!vars)

-----------------------------------------------------------------------------
\* Whatever is killed, restarted or replaced in a pod is to its store a call
\* that begins with a record stamped before, goes on, or is gone, its memory
\* with it and its files not: what FileStore says of Store alone (file.go:40-65)
\* holds in the pod, until its volume loses files.
ImplementsStore == StoreInit /\ [][StoreNext \/ VolumeLoss]_storeVars

=============================================================================
