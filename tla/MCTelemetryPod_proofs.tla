------------------------- MODULE MCTelemetryPod_proofs ------------------------
(***************************************************************************)
(* One run of the job, with all its containers, files and processes, keeps *)
(* the promise of ReportJob, for both sinks, and is a job of TelemetryCron *)
(* if it posts: proved for every number of agents and restarts, every      *)
(* clock and any number of hours.                                          *)
(***************************************************************************)
EXTENDS MCTelemetryPod, TelemetryPodReports_proofs

-----------------------------------------------------------------------------
\* What a ReportJob sees of a request.
OfferOf(q) ==
  [kinds |-> {f.rec.kind : f \in {g \in Records(q.report) : g.whole}},
   state |-> q.state]

OffersOf(s) == [i \in 1 .. Len(s) |-> OfferOf(s[i])]

LEMMA OffersAreOffers == Offers = OffersOf(requests) /\ Offers' = OffersOf(requests')
PROOF
  BY DEF Offers, OffersOf, OfferOf, Records

LEMMA OffersOfAppended ==
  ASSUME NEW s \in Seq(Request), NEW q \in Request
  PROVE  OffersOf(Append(s, q)) = Append(OffersOf(s), OfferOf(q))
PROOF
  <1> DEFINE S == {OfferOf(x) : x \in Request}
             t == OffersOf(s)
  <1>1. \A i \in 1 .. Len(s) : OfferOf(s[i]) \in S
    OBVIOUS
  <1>2. t \in Seq(S) /\ Len(t) = Len(s)
    BY <1>1 DEF OffersOf
  <1>3. OfferOf(q) \in S
    OBVIOUS
  <1> HIDE DEF S
  <1>4. Append(t, OfferOf(q)) =
          [i \in 1 .. Len(s) + 1 |-> IF i = Len(s) + 1 THEN OfferOf(q) ELSE t[i]]
    BY <1>2, <1>3 DEF OffersOf
  <1>5. \A i \in 1 .. Len(s) + 1 :
          Append(s, q)[i] = IF i = Len(s) + 1 THEN q ELSE s[i]
    OBVIOUS
  <1>6. Len(Append(s, q)) = Len(s) + 1
    OBVIOUS
  <1>7. QED
    BY <1>4, <1>5, <1>6 DEF OffersOf

\* A complete report offers the kinds of all agents.
LEMMA CompleteOffersAgents ==
  ASSUME NEW q \in Request, CompleteReport(q.report)
  PROVE  OfferOf(q) = [kinds |-> Agents, state |-> q.state]
PROOF
  <1> DEFINE R == Records(q.report)
  <1>1. \A f \in R : f \in File
    BY DEF Request, Report, Records
  <1>2. /\ \A f \in R : f.whole /\ f.rec.kind \in Agents
        /\ \A a \in Agents : \E f \in R : f.rec.kind = a
    BY <1>1 DEF CompleteReport, File, Record
  <1> HIDE DEF R
  <1>3. {f.rec.kind : f \in {g \in R : g.whole}} = Agents
    BY <1>2
  <1>4. QED
    BY <1>3 DEF OfferOf, R

-----------------------------------------------------------------------------
\* What a step of the pod is to a ReportJob.
RefinementInv == PodInv /\ AnswerInv

LEMMA WorkOffers ==
  ASSUME RefinementInv, ReporterWork
  PROVE  [Job!Next]_(Job!jobVars)
PROOF
  <1>0. /\ requests \in Seq(Request) /\ volume \in Nat /\ report \in Report
        /\ phase = "Running" /\ phase' = phase
    BY PodAssumption
    DEF RefinementInv, PodInv, PodTypeOK, TypeOK, HTTPTypeOK, ReporterTypeOK,
        ReporterWork, At, podVars
  <1>1. CASE UNCHANGED requests
    BY <1>0, <1>1, OffersAreOffers DEF Job!jobVars
  <1>2. ASSUME NEW s \in {"sent", "printed", "unprinted"}, rpc = "post", Leave(volume, s)
        PROVE  Job!Next
    <2> DEFINE q == [volume |-> volume, report |-> report, state |-> s]
               o == [kinds |-> Agents, state |-> s]
    <2>1. requests' = Append(requests, q) /\ q \in Request
      BY <1>0, <1>2 DEF Leave, Request
    <2>2. OfferOf(q) = o
      <3>1. CompleteReport(q.report) /\ q.state = s
        BY <1>2 DEF RefinementInv, PodInv, ReportInv, PostsComplete
      <3> HIDE DEF q
      <3>2. QED
        BY <2>1, <3>1, CompleteOffersAgents
    <2> HIDE DEF q, o
    <2>3. Offers' = Append(Offers, o)
      BY <1>0, <2>1, <2>2, OffersAreOffers, OffersOfAppended
    <2>4. Job!Offer
      BY <1>0, <2>3 DEF Job!Offer, o
    <2>5. QED
      BY <2>4 DEF Job!Next
  <1>3. QED
    BY <1>1, <1>2 DEF ReporterWork, Post, PostFail, PrintReport

LEMMA NetworkResolves ==
  ASSUME RefinementInv, Network
  PROVE  Job!Next
PROOF
  <1>1. PICK i \in 1 .. Len(requests), s \in {"taken", "answered", "lost"} :
          /\ requests' = [requests EXCEPT ![i].state = s]
          /\ requests[i].state = "sent"
    BY DEF Network, Collector, Arrive
  <1>2. requests \in Seq(Request) /\ phase' = phase
    BY DEF RefinementInv, PodInv, PodTypeOK, TypeOK, HTTPTypeOK, Network, podVars
  <1>3. OfferOf([requests[i] EXCEPT !.state = s]) = [OfferOf(requests[i]) EXCEPT !.state = s]
    <2> DEFINE q == requests[i]
               kinds == {f.rec.kind : f \in {g \in Records(q.report) : g.whole}}
    <2>1. q \in Request
      BY <1>2
    <2> HIDE DEF q
    <2>2. [q EXCEPT !.state = s] = [volume |-> q.volume, report |-> q.report, state |-> s]
      BY <2>1 DEF Request
    <2>3. OfferOf([q EXCEPT !.state = s]) = [kinds |-> kinds, state |-> s]
      BY <2>2 DEF OfferOf
    <2>4. OfferOf(q) = [kinds |-> kinds, state |-> q.state]
      BY DEF OfferOf
    <2> HIDE DEF kinds
    <2>5. [OfferOf(q) EXCEPT !.state = s] = [kinds |-> kinds, state |-> s]
      BY <2>4
    <2>6. QED
      BY <2>3, <2>5 DEF q
  <1>4. /\ Len(requests') = Len(requests)
        /\ requests'[i] = [requests[i] EXCEPT !.state = s]
        /\ \A j \in 1 .. Len(requests) : j # i => requests'[j] = requests[j]
    BY <1>1, <1>2
  <1>5. Offers' = [Offers EXCEPT ![i].state = s]
    <2>1. OffersOf(requests') = [OffersOf(requests) EXCEPT ![i].state = s]
      BY <1>3, <1>4 DEF OffersOf
    <2>2. QED
      BY <2>1, OffersAreOffers
  <1>6. Offers[i].state = "sent" /\ i \in 1 .. Len(Offers)
    <2>1. OffersOf(requests)[i] = OfferOf(requests[i])
      BY DEF OffersOf
    <2>2. Len(OffersOf(requests)) = Len(requests)
      BY <1>2 DEF OffersOf
    <2>3. QED
      BY <1>1, <2>1, <2>2, OffersAreOffers DEF OfferOf
  <1>7. Job!Resolve(i)
    BY <1>2, <1>5, <1>6 DEF Job!Resolve, Job!Resolved
  <1>8. QED
    BY <1>6, <1>7 DEF Job!Next

LEMMA KubeletEnds ==
  ASSUME RefinementInv, Kubelet
  PROVE  [Job!Next]_(Job!jobVars)
PROOF
  <1>1. Offers' = Offers
    <2>1. requests' = requests
      BY DEF Kubelet, NextContainer, Complete, RestartContainer, GiveUp
    <2>2. QED
      BY <2>1, OffersAreOffers
  <1>2. CASE NextContainer \/ RestartContainer
    BY <1>1, <1>2 DEF NextContainer, RestartContainer, Job!jobVars
  <1>3. CASE GiveUp
    BY <1>1, <1>3 DEF GiveUp, Job!Fail, Job!Next
  <1>4. CASE Complete
    <2>1. LastAnswered /\ requests \in Seq(Request)
      BY <1>4
      DEF Complete, At, RefinementInv, AnswerInv, PodInv, PodTypeOK, TypeOK, HTTPTypeOK
    <2>2. Len(requests) \in 1 .. Len(requests)
      BY <2>1 DEF LastAnswered
    <2>3. Len(OffersOf(requests)) = Len(requests) /\ OffersOf(requests) # <<>>
      BY <2>1, <2>2 DEF OffersOf
    <2>4. OffersOf(requests)[Len(requests)].state \in {"taken", "answered", "printed", "unprinted"}
      <3>1. OffersOf(requests)[Len(requests)] = OfferOf(requests[Len(requests)])
        BY <2>2 DEF OffersOf
      <3>2. QED
        BY <2>1, <3>1 DEF LastAnswered, OfferOf
    <2>5. Job!Succeed
      BY <1>1, <1>4, <2>3, <2>4, OffersAreOffers DEF Complete, At, Job!Succeed
    <2>6. QED
      BY <2>5 DEF Job!Next
  <1>5. QED
    BY <1>2, <1>3, <1>4 DEF Kubelet

LEMMA StepOfTheJob ==
  ASSUME RefinementInv, [Next]_vars
  PROVE  [Job!Next]_(Job!jobVars)
PROOF
  <1>1. ASSUME UNCHANGED <<requests, phase>>
        PROVE  UNCHANGED Job!jobVars
    BY <1>1, OffersAreOffers DEF Job!jobVars
  <1>2. CASE Clock \/ UNCHANGED vars
    BY <1>1, <1>2 DEF Clock, vars, podVars
  <1>3. ASSUME NEW a \in Agents, AgentNext(a)
        PROVE  UNCHANGED <<requests, phase>>
    BY <1>3
    DEF AgentNext, AgentStart, AgentCollected, AgentFail, AgentStore, AgentExit, podVars
  <1>4. CASE ReporterStart \/ ReporterAnswer \/ ReporterNoAnswer \/ ReporterExit
    BY <1>1, <1>4
    DEF ReporterStart, ReporterAnswer, Response, ReporterNoAnswer, ResponseFail,
        ReporterExit, podVars
  <1>5. CASE Disruption
    BY <1>1, <1>5 DEF Disruption, Kill, SandboxRestart, VolumeLoss, StartOver
  <1>6. QED
    BY <1>1, <1>2, <1>3, <1>4, <1>5, WorkOffers, NetworkResolves, KubeletEnds
    DEF Next, ReporterNext

\* The pod implements ReportJob: it starts as one, and each of its steps is
\* a step of one or changes nothing a ReportJob sees.
THEOREM PodImplementsReportJob == Spec => ImplementsReportJob
PROOF
  <1>1. Init => Job!Init
    <2> SUFFICES ASSUME Init PROVE Job!Init
      OBVIOUS
    <2>1. Offers = <<>>
      BY DEF Init, HTTPInit, Offers
    <2>2. QED
      BY <2>1 DEF Init, Job!Init
  <1>2. Spec => []AnswerInv
    <2>1. Init => AnswerInv
      BY DEF Init, StoreInit, ReporterInit, AnswerInv, OneAtATime
    <2>2. PodInv /\ AnswerInv /\ [Next]_vars => AnswerInv'
      BY AnswerInvNext DEF PodInv
    <2>3. QED
      BY <2>1, <2>2, PodInvariant, PTL DEF Spec
  <1>3. PodInv /\ AnswerInv /\ [Next]_vars => [Job!Next]_(Job!jobVars)
    BY StepOfTheJob DEF RefinementInv
  <1>4. QED
    BY <1>1, <1>2, <1>3, PodInvariant, PTL DEF Spec, ImplementsReportJob, Job!Spec

-----------------------------------------------------------------------------
\* The hours of the clock.
LEMMA DivisionBounds ==
  ASSUME NEW S \in Nat \ {0}, NEW t \in Nat
  PROVE  /\ t \div S \in Nat
         /\ (t \div S) * S <= t
         /\ t < (t \div S) * S + S
PROOF
  OBVIOUS

LEMMA QuotientOfNext ==
  ASSUME NEW S \in Nat \ {0}, NEW t \in Nat, NEW q \in Nat, NEW r \in Nat,
         q * S <= t, t < q * S + S, r * S <= t + 1, t + 1 < r * S + S
  PROVE  r \in {q, q + 1}
PROOF
  OBVIOUS

LEMMA HourOfTime ==
  ASSUME NEW t \in Nat
  PROVE  /\ HourOf(0) = 1
         /\ HourOf(t) \in Nat \ {0}
         /\ HourOf(t + 1) \in {HourOf(t), HourOf(t) + 1}
PROOF
  <1> DEFINE S == SecondsPerHour
             q == t \div S
             r == (t + 1) \div S
  <1>1. S \in Nat \ {0}
    BY HourAssumption
  <1>2. 0 \div S = 0
    BY <1>1
  <1>3. q \in Nat /\ q * S <= t /\ t < q * S + S
    BY <1>1, DivisionBounds
  <1>4. r \in Nat /\ r * S <= t + 1 /\ t + 1 < r * S + S
    BY <1>1, t + 1 \in Nat, DivisionBounds
  <1> HIDE DEF S, q, r
  <1>5. r \in {q, q + 1}
    BY <1>1, <1>3, <1>4, QuotientOfNext
  <1>6. HourOf(0) = 0 \div S + 1 /\ HourOf(t) = q + 1 /\ HourOf(t + 1) = r + 1
    BY DEF HourOf, S, q, r
  <1>7. QED
    BY <1>2, <1>3, <1>5, <1>6

LEMMA QuotientGrows ==
  ASSUME NEW S \in Nat \ {0}, NEW t \in Nat, NEW u \in Nat, NEW q \in Nat, NEW r \in Nat,
         t <= u, q * S <= t, u < r * S + S
  PROVE  q <= r
PROOF
  OBVIOUS

LEMMA HourGrows ==
  ASSUME NEW t \in Nat, NEW u \in Nat, t <= u
  PROVE  HourOf(t) <= HourOf(u)
PROOF
  <1> DEFINE S == SecondsPerHour
             q == t \div S
             r == u \div S
  <1>1. S \in Nat \ {0}
    BY HourAssumption
  <1>2. q \in Nat /\ q * S <= t /\ r \in Nat /\ u < r * S + S
    BY <1>1, DivisionBounds
  <1> HIDE DEF S, q, r
  <1>3. q <= r
    BY <1>1, <1>2, QuotientGrows
  <1>4. QED
    BY <1>2, <1>3 DEF HourOf, S, q, r

LEMMA LastHourType == LastHour \in Nat \ {0} /\ 1 \in 1 .. LastHour
PROOF
  BY StoreAssumption, HourOfTime DEF LastHour

-----------------------------------------------------------------------------
\* A step of the first job, by what it does to the job's own variables.
LEMMA MapsStutter ==
  ASSUME UNCHANGED <<HourOf(now), phase, cur, Stage, StampHour, restarts,
                     CronRecords(files), CronOffers>>
  PROVE  UNCHANGED Cron!vars
PROOF
  BY DEF Cron!vars, Cron!podVars, OfFirst, StatusOfJobs, HourOf

LEMMA MapsCollect ==
  ASSUME NEW a \in Agents, phase = "Running", cur = a, Stage = "work",
         Stage' = "collect", StampHour' = HourOf(now),
         UNCHANGED <<now, phase, cur, restarts, CronRecords(files), CronOffers>>
  PROVE  Cron!Next
PROOF
  <1>1. 1 \in 1 .. LastHour
    BY LastHourType
  <1>2. Cron!AgentCollect(1, a)
    BY <1>1 DEF Cron!AgentCollect, Cron!At, OfFirst, StatusOfJobs, HourOf
  <1>3. QED
    BY <1>1, <1>2 DEF Cron!Next, Cron!Jobs, Cron!Hours, Cron!Agents, Agents

LEMMA MapsStore ==
  ASSUME NEW a \in Agents, phase = "Running", cur = a, Stage = "collect",
         Stage' = "stored", StampHour' = 0,
         CronRecords(files)' = CronRecords(files) \cup {[kind |-> a, time |-> StampHour]},
         UNCHANGED <<now, phase, cur, restarts, CronOffers>>
  PROVE  Cron!Next
PROOF
  <1>1. 1 \in 1 .. LastHour
    BY LastHourType
  <1>2. Cron!AgentStore(1, a)
    BY <1>1 DEF Cron!AgentStore, Cron!At, OfFirst, StatusOfJobs, HourOf
  <1>3. QED
    BY <1>1, <1>2 DEF Cron!Next, Cron!Jobs, Cron!Hours, Cron!Agents, Agents

LEMMA MapsNextContainer ==
  ASSUME phase = "Running", Stage = "stored", Stage' = "work", cur' = cur + 1,
         UNCHANGED <<now, phase, StampHour, restarts, CronRecords(files), CronOffers>>
  PROVE  Cron!Next
PROOF
  <1>1. 1 \in 1 .. LastHour
    BY LastHourType
  <1>2. Cron!NextContainer(1)
    BY <1>1 DEF Cron!NextContainer, OfFirst, StatusOfJobs, HourOf
  <1>3. QED
    BY <1>1, <1>2 DEF Cron!Next, Cron!Jobs, Cron!Hours, Cron!Kubelet

LEMMA MapsReport ==
  ASSUME phase = "Running", cur = Reporter, Stage = "work", Stage' = "answer",
         CronOffers' = Append(CronOffers, [records |-> CronRecords(files), state |-> "sent"]),
         UNCHANGED <<now, phase, cur, StampHour, restarts, CronRecords(files)>>
  PROVE  Cron!Next
PROOF
  <1>1. 1 \in 1 .. LastHour
    BY LastHourType
  <1>2. Cron!Report(1)
    BY <1>1
    DEF Cron!Report, Cron!At, Cron!Reporter, Reporter, OfFirst, StatusOfJobs, HourOf
  <1>3. QED
    BY <1>1, <1>2 DEF Cron!Next, Cron!Jobs, Cron!Hours

LEMMA MapsComplete ==
  ASSUME phase = "Running", cur = Reporter, Stage = "answer", phase' = "Succeeded",
         CronOffers[Len(CronOffers)].state \in {"taken", "answered"},
         UNCHANGED <<now, cur, Stage, StampHour, restarts, CronRecords(files), CronOffers>>
  PROVE  Cron!Next
PROOF
  <1>1. 1 \in 1 .. LastHour
    BY LastHourType
  <1>2. Cron!Complete(1)
    BY <1>1
    DEF Cron!Complete, Cron!Answered, Cron!podVars, Cron!At, Cron!Reporter, Reporter,
        OfFirst, StatusOfJobs, HourOf
  <1>3. QED
    BY <1>1, <1>2 DEF Cron!Next, Cron!Jobs, Cron!Hours, Cron!Kubelet

LEMMA MapsFail ==
  ASSUME phase = "Running", Stage # "failed", Stage' = "failed", StampHour' = 0,
         UNCHANGED <<now, phase, cur, restarts, CronRecords(files), CronOffers>>
  PROVE  Cron!Next
PROOF
  <1>1. 1 \in 1 .. LastHour
    BY LastHourType
  <1>2. Cron!Fail(1)
    BY <1>1 DEF Cron!Fail, OfFirst, StatusOfJobs, HourOf
  <1>3. QED
    BY <1>1, <1>2 DEF Cron!Next, Cron!Jobs, Cron!Hours

LEMMA MapsRestart ==
  ASSUME phase = "Running", Stage = "failed", Stage' = "work",
         restarts < BackoffLimit, restarts' = restarts + 1,
         UNCHANGED <<now, phase, cur, StampHour, CronRecords(files), CronOffers>>
  PROVE  Cron!Next
PROOF
  <1>1. 1 \in 1 .. LastHour
    BY LastHourType
  <1>2. Cron!Restart(1)
    BY <1>1 DEF Cron!Restart, OfFirst, StatusOfJobs, HourOf
  <1>3. QED
    BY <1>1, <1>2 DEF Cron!Next, Cron!Jobs, Cron!Hours, Cron!Kubelet

LEMMA MapsStartOver ==
  ASSUME phase = "Running", Stage' = "work", StampHour' = 0, cur' = 1,
         restarts < BackoffLimit, restarts' = restarts + 1,
         CronRecords(files)' \subseteq CronRecords(files),
         UNCHANGED <<now, phase, CronOffers>>
  PROVE  Cron!Next
PROOF
  <1>1. 1 \in 1 .. LastHour
    BY LastHourType
  <1>2. Cron!StartOver(1)
    BY <1>1 DEF Cron!StartOver, OfFirst, StatusOfJobs, HourOf
  <1>3. QED
    BY <1>1, <1>2 DEF Cron!Next, Cron!Jobs, Cron!Hours

LEMMA MapsGiveUp ==
  ASSUME phase = "Running", Stage = "failed", restarts = BackoffLimit, phase' = "Failed",
         UNCHANGED <<now, cur, Stage, StampHour, restarts, CronRecords(files), CronOffers>>
  PROVE  Cron!Next
PROOF
  <1>1. 1 \in 1 .. LastHour
    BY LastHourType
  <1>2. Cron!GiveUp(1)
    BY <1>1 DEF Cron!GiveUp, Cron!podVars, OfFirst, StatusOfJobs, HourOf
  <1>3. QED
    BY <1>1, <1>2 DEF Cron!Next, Cron!Jobs, Cron!Hours, Cron!Kubelet

LEMMA MapsResolve ==
  ASSUME NEW i \in 1 .. Len(CronOffers), NEW s \in {"taken", "answered", "lost"},
         CronOffers[i].state = "sent", CronOffers' = [CronOffers EXCEPT ![i].state = s],
         DOMAIN CronOffers = 1 .. Len(CronOffers),
         UNCHANGED <<now, phase, cur, Stage, StampHour, restarts, CronRecords(files)>>
  PROVE  Cron!Next
PROOF
  <1>1. 1 \in 1 .. LastHour
    BY LastHourType
  <1>2. Cron!Resolve(1, i)
    BY <1>1 DEF Cron!Resolve, Cron!podVars, OfFirst, StatusOfJobs, HourOf
  <1>3. QED
    BY <1>1, <1>2 DEF Cron!Next, Cron!Jobs, Cron!Hours, OfFirst

LEMMA MapsSchedule ==
  ASSUME now \in Time, now' = now + 1, now' \in Time, HourOf(now') # HourOf(now),
         UNCHANGED <<phase, cur, Stage, StampHour, restarts, CronRecords(files), CronOffers>>
  PROVE  Cron!Next
PROOF
  <1>1. now \in Nat /\ now' \in Nat /\ MaxTime \in Nat /\ now' <= MaxTime
    BY StoreAssumption DEF Time
  <1>2. HourOf(now') = HourOf(now) + 1 /\ HourOf(now) \in Nat \ {0}
    BY <1>1, HourOfTime
  <1>3. HourOf(now') <= LastHour /\ LastHour \in Nat
    BY <1>1, HourGrows, LastHourType DEF LastHour
  <1>4. HourOf(now)' = HourOf(now')
    BY DEF HourOf
  <1>5. StatusOfJobs' = [StatusOfJobs EXCEPT ![HourOf(now) + 1] = "Running"]
    <2> DEFINE f == StatusOfJobs
               g == StatusOfJobs'
    <2>1. f = [j \in 1 .. LastHour |->
            IF j = 1 THEN phase ELSE IF j <= HourOf(now) THEN "Running" ELSE "None"]
      BY DEF StatusOfJobs
    <2>2. g = [j \in 1 .. LastHour |->
            IF j = 1 THEN phase ELSE IF j <= HourOf(now') THEN "Running" ELSE "None"]
      BY DEF StatusOfJobs, HourOf, LastHour
    <2>3. ASSUME NEW j \in 1 .. LastHour
          PROVE  g[j] = IF j = HourOf(now) + 1 THEN "Running" ELSE f[j]
      <3>1. j <= HourOf(now') <=> j <= HourOf(now) \/ j = HourOf(now) + 1
        BY <1>2
      <3>2. j = 1 => j # HourOf(now) + 1
        BY <1>2
      <3> HIDE DEF f, g
      <3>3. QED
        BY <2>1, <2>2, <3>1, <3>2
    <2> HIDE DEF f, g
    <2>4. g = [f EXCEPT ![HourOf(now) + 1] = "Running"]
      BY <2>1, <2>2, <2>3
    <2>5. QED
      BY <2>4 DEF f, g
  <1>6. HourOf(now) < LastHour /\ HourOf(now)' = HourOf(now) + 1
    BY <1>2, <1>3, <1>4
  <1>7. UNCHANGED <<Cron!podVars, OfFirst(CronOffers, <<>>)>>
    BY DEF Cron!podVars, OfFirst
  <1>8. Cron!Schedule
    BY <1>5, <1>6, <1>7 DEF Cron!Schedule
  <1>9. QED
    BY <1>8 DEF Cron!Next

-----------------------------------------------------------------------------
\* What a TelemetryCron sees of the volume and of the requests.
CronOfferOf(q) == [records |-> CronRecords(Records(q.report)), state |-> q.state]

CronOffersOf(s) == [i \in 1 .. Len(s) |-> CronOfferOf(s[i])]

LEMMA CronSees ==
  /\ CronRecords(files)' = CronRecords(files')
  /\ CronOffers = CronOffersOf(requests) /\ CronOffers' = CronOffersOf(requests')
  /\ HourOf(now)' = HourOf(now')
PROOF
  BY DEF CronRecords, CronOffers, CronOffersOf, CronOfferOf, HourOf, Records

LEMMA CronUnseen ==
  /\ UNCHANGED files => UNCHANGED CronRecords(files)
  /\ UNCHANGED requests => UNCHANGED CronOffers
  /\ UNCHANGED now => UNCHANGED HourOf(now)
PROOF
  BY CronSees

LEMMA CronOffersAppended ==
  ASSUME NEW s \in Seq(Request), NEW q \in Request
  PROVE  CronOffersOf(Append(s, q)) = Append(CronOffersOf(s), CronOfferOf(q))
PROOF
  <1> DEFINE S == {CronOfferOf(x) : x \in Request}
             t == CronOffersOf(s)
  <1>1. \A i \in 1 .. Len(s) : CronOfferOf(s[i]) \in S
    OBVIOUS
  <1>2. t \in Seq(S) /\ Len(t) = Len(s)
    BY <1>1 DEF CronOffersOf
  <1>3. CronOfferOf(q) \in S
    OBVIOUS
  <1> HIDE DEF S
  <1>4. Append(t, CronOfferOf(q)) =
          [i \in 1 .. Len(s) + 1 |-> IF i = Len(s) + 1 THEN CronOfferOf(q) ELSE t[i]]
    BY <1>2, <1>3 DEF CronOffersOf
  <1>5. \A i \in 1 .. Len(s) + 1 :
          Append(s, q)[i] = IF i = Len(s) + 1 THEN q ELSE s[i]
    OBVIOUS
  <1>6. Len(Append(s, q)) = Len(s) + 1
    OBVIOUS
  <1>7. QED
    BY <1>4, <1>5, <1>6 DEF CronOffersOf

-----------------------------------------------------------------------------
\* A step of the pod is a step of the job.  Beside the invariants of the other
\* properties it is needed that a pod that posts prints nothing.
NonePrinted ==
  \A i \in 1 .. Len(requests) : requests[i].state \notin {"printed", "unprinted"}

CronInv == RefinementInv /\ ReadsDirectory /\ VolumeInv /\ NonePrinted

LEMMA StageOf ==
  ASSUME OneAtATime
  PROVE  /\ cur \in Agents => Stage = AgentStage(cur)
         /\ cur = Reporter => Stage = ReporterStage
         /\ proc = "start" => Stage = "work"
         /\ proc = "exit1" => Stage = "failed"
         /\ Stage # "collect" => StampHour = 0
PROOF
  BY ReporterIsNoAgent
  DEF Stage, AgentStage, ReporterStage, StampHour, OneAtATime

LEMMA CronInvFacts ==
  ASSUME CronInv
  PROVE  /\ PodTypeOK /\ OneAtATime /\ StoreTypeOK /\ HTTPTypeOK
         /\ requests \in Seq(Request)
         /\ now \in Time /\ restarts \in 0 .. BackoffLimit
         /\ pc \in [Agents -> {"idle", "stat", "create", "write", "ok", "err"}]
         /\ rec \in [Agents -> Record] /\ target \in [Agents -> Name]
PROOF
  BY
  DEF CronInv, RefinementInv, PodInv, DirInv, PodTypeOK, TypeOK, StoreTypeOK,
      HTTPTypeOK

\* The agents' steps.
LEMMA StoresARecord ==
  ASSUME CronInv, NEW a \in Agents, StoreWrite(a), cur = a, proc = "run"
  PROVE  CronRecords(files)' = CronRecords(files) \cup {[kind |-> a, time |-> StampHour]}
PROOF
  <1> DEFINE h == HourOf(rec[a].time)
             old == {f \in files : f.name # target[a]}
             new == [name |-> target[a], rec |-> rec[a], whole |-> TRUE]
             H(f) == HourOf(f.rec.time)
             Rec(f) == [kind |-> f.rec.kind, time |-> H(f)]
  <1>1. StampHour = h
    BY ReporterIsNoAgent DEF StampHour, Stage, AgentStage, StoreWrite
  <1>2. files' = old \cup {new}
    BY DEF StoreWrite
  <1>3. \A f \in files : f.whole => f \in old
    BY DEF CronInv, VolumeInv, TargetUnfinished, StoreWrite
  <1>4. rec[a].kind = a
    BY DEF CronInv, RefinementInv, PodInv, DirInv, RecordIsOwn
  <1>5. new.whole /\ Rec(new) = [kind |-> a, time |-> h]
    BY <1>4
  <1> HIDE DEF old, new, H, h
  <1>6. {Rec(f) : f \in {g \in old \cup {new} : g.whole}} =
          {Rec(f) : f \in {g \in files : g.whole}} \cup {[kind |-> a, time |-> h]}
    <2>1. {g \in old \cup {new} : g.whole} = {g \in files : g.whole} \cup {new}
      BY <1>3, <1>5 DEF old
    <2>2. QED
      BY <1>5, <2>1
  <1>7. QED
    BY <1>1, <1>2, <1>6, CronSees DEF CronRecords, H

LEMMA MakesNoRecord ==
  ASSUME NEW a \in Agents, StoreCreate(a)
  PROVE  UNCHANGED CronRecords(files)
PROOF
  <1>1. PICK n \in Name :
          /\ n \notin Names
          /\ files' = {f \in files : f.name # n}
                        \cup {[name |-> n, rec |-> rec[a], whole |-> FALSE]}
    BY DEF StoreCreate, DrawName
  <1>2. {f \in files : f.name # n} = files
    BY <1>1 DEF Names
  <1>3. {g \in files' : g.whole} = {g \in files : g.whole}
    BY <1>1, <1>2
  <1>4. QED
    BY <1>3, CronSees DEF CronRecords

LEMMA AgentIsCron ==
  ASSUME CronInv, place = "dir", NEW a \in Agents, AgentNext(a)
  PROVE  [Cron!Next]_(Cron!vars)
PROOF
  <1>0. /\ OneAtATime /\ rpc = "idle" /\ a # Reporter
        /\ DOMAIN pc = Agents /\ DOMAIN rec = Agents
        /\ phase = "Running" /\ cur = a
        /\ UNCHANGED <<requests, cur, phase, restarts, rpc>>
    <2>1. OneAtATime /\ DOMAIN pc = Agents /\ DOMAIN rec = Agents
      BY CronInvFacts
    <2>2. phase = "Running" /\ cur = a /\ UNCHANGED <<requests, cur, phase, restarts, rpc>>
      BY DEF AgentNext, AgentStart, AgentCollected, AgentFail, AgentStore, AgentExit, At,
             reporterVars, podVars
    <2>3. QED
      BY <2>1, <2>2, ReporterIsNoAgent DEF OneAtATime
  <1>1. UNCHANGED CronOffers
    BY <1>0, CronUnseen
  <1>2. /\ Stage = AgentStage(a) /\ Stage' = AgentStage(a)'
        /\ Stage # "collect" => StampHour = 0
        /\ Stage' # "collect" => StampHour' = 0
    BY <1>0 DEF Stage, StampHour
  <1>3. CASE AgentStart(a)
    <2>1. UNCHANGED <<now, files, pc>> /\ proc = "start" /\ proc' = "collect" /\ stamp' = now
      BY <1>3 DEF AgentStart, At, storeVars, dirVars, callVars
    <2>2. pc[a] = "idle"
      BY <1>0, <2>1 DEF OneAtATime
    <2>3. Stage = "work" /\ Stage' = "collect"
      BY <1>2, <2>1, <2>2 DEF AgentStage
    <2>4. StampHour' = HourOf(now)
      BY <2>1, <2>3 DEF StampHour, HourOf
    <2>5. QED
      BY <1>0, <1>1, <2>1, <2>3, <2>4, CronUnseen, MapsCollect
  <1>4. CASE AgentCollected(a)
    <2>1. /\ UNCHANGED <<now, files>> /\ proc = "collect" /\ proc' = "run"
          /\ pc[a] = "idle" /\ pc'[a] = "stat" /\ rec'[a].time = stamp
      BY <1>0, <1>4 DEF AgentCollected, At, StoreBegin, dirVars
    <2>2. Stage = "collect" /\ Stage' = "collect"
      BY <1>2, <2>1 DEF AgentStage
    <2>3. UNCHANGED StampHour
      BY <1>0, <2>1, <2>2 DEF StampHour, HourOf
    <2>4. QED
      BY <1>0, <1>1, <2>1, <2>2, <2>3, CronUnseen, MapsStutter
  <1>5. CASE AgentFail(a)
    <2>1. UNCHANGED <<now, files, pc>> /\ proc \in {"start", "collect"} /\ proc' = "exit1"
      BY <1>5 DEF AgentFail, At, storeVars, dirVars, callVars
    <2>2. pc[a] = "idle"
      BY <1>0, <2>1 DEF OneAtATime
    <2>3. Stage # "failed" /\ Stage' = "failed"
      BY <1>2, <2>1, <2>2 DEF AgentStage
    <2>4. QED
      BY <1>0, <1>1, <1>2, <2>1, <2>3, CronUnseen, MapsFail
  <1>6. CASE AgentStore(a)
    <2>1. UNCHANGED <<now, proc, stamp>> /\ proc = "run" /\ StoreStep(a) /\ UNCHANGED rec
      BY <1>6
      DEF AgentStore, At, StoreStep, StoreStat, StoreCreate, StoreWrite, StoreFail, podVars
    <2>2. ASSUME pc[a] \in {"stat", "create"}, pc'[a] \in {"create", "write"},
                 UNCHANGED CronRecords(files)
          PROVE  UNCHANGED Cron!vars
      <3>1. Stage = "collect" /\ Stage' = "collect"
        BY <1>2, <2>1, <2>2 DEF AgentStage
      <3>2. UNCHANGED StampHour
        BY <1>0, <2>1, <3>1 DEF StampHour, HourOf
      <3>3. QED
        BY <1>0, <1>1, <2>1, <2>2, <3>1, <3>2, CronUnseen, MapsStutter
    <2>3. CASE StoreStat(a)
      BY <1>0, <2>2, <2>3, CronUnseen DEF StoreStat, dirVars
    <2>4. CASE StoreCreate(a)
      BY <1>0, <2>2, <2>4, MakesNoRecord DEF StoreCreate
    <2>5. CASE StoreWrite(a)
      <3>1. pc[a] = "write" /\ pc'[a] = "ok"
        BY <1>0, <2>5 DEF StoreWrite
      <3>2. Stage = "collect" /\ Stage' = "stored"
        BY <1>2, <2>1, <3>1 DEF AgentStage
      <3>3. QED
        BY <1>0, <1>1, <1>2, <2>1, <2>5, <3>2, StoresARecord, MapsStore
    <2>6. CASE StoreFail(a)
      <3>1. pc[a] \in {"create", "write"} /\ pc'[a] = "err" /\ UNCHANGED files
        BY <1>0, <2>6 DEF StoreFail, dirVars
      <3>2. Stage # "failed" /\ Stage' = "failed"
        BY <1>2, <2>1, <3>1 DEF AgentStage
      <3>3. QED
        BY <1>0, <1>1, <1>2, <2>1, <3>1, <3>2, CronUnseen, MapsFail
    <2>7. QED
      BY <2>1, <2>3, <2>4, <2>5, <2>6 DEF StoreStep
  <1>7. CASE AgentExit(a)
    <2>1. /\ UNCHANGED <<now, files>> /\ proc = "run" /\ pc[a] \in {"ok", "err"}
          /\ proc' = IF pc[a] = "ok" THEN "exit0" ELSE "exit1"
          /\ pc'[a] = "idle"
      BY <1>0, <1>7 DEF AgentExit, At, StoreGone, dirVars
    <2>2. Stage' = Stage /\ Stage # "collect"
      BY <1>2, <2>1 DEF AgentStage
    <2>3. QED
      BY <1>0, <1>1, <1>2, <2>1, <2>2, CronUnseen, MapsStutter
  <1>8. QED
    BY <1>3, <1>4, <1>5, <1>6, <1>7 DEF AgentNext

\* The reporter's steps.
LEMMA WorkIsCron ==
  ASSUME CronInv, Sink = "http", place = "dir", ReporterWork
  PROVE  [Cron!Next]_(Cron!vars)
PROOF
  <1>0. /\ requests \in Seq(Request) /\ volume \in Nat /\ report \in Report
        /\ phase = "Running" /\ cur = Reporter /\ proc = "run"
        /\ UNCHANGED <<now, files, cur, proc, phase, restarts>>
    BY PodAssumption
    DEF CronInv, RefinementInv, PodInv, PodTypeOK, TypeOK, HTTPTypeOK, ReporterTypeOK,
        ReporterWork, At, podVars, storeVars, dirVars
  <1>1. /\ Stage = IF rpc = "err" THEN "failed"
                  ELSE IF rpc \in {"wait", "ok"} THEN "answer" ELSE "work"
        /\ Stage' = IF rpc' = "err" THEN "failed"
                   ELSE IF rpc' \in {"wait", "ok"} THEN "answer" ELSE "work"
        /\ StampHour = 0 /\ StampHour' = 0
    BY <1>0 DEF Stage, ReporterStage, StampHour
  <1>2. ASSUME rpc \in {"open", "read", "post"}, UNCHANGED requests,
               rpc' \in {"open", "read", "post", "err"}
        PROVE  [Cron!Next]_(Cron!vars)
    <2>1. CASE rpc' = "err"
      <3>1. Stage = "work" /\ Stage' = "failed"
        BY <1>1, <1>2, <2>1
      <3>2. QED
        BY <1>0, <1>1, <1>2, <3>1, CronUnseen, MapsFail
    <2>2. CASE rpc' # "err"
      <3>1. UNCHANGED Stage
        BY <1>1, <1>2, <2>2
      <3>2. QED
        BY <1>0, <1>1, <1>2, <3>1, CronUnseen, MapsStutter
    <2>3. QED
      BY <2>1, <2>2
  <1>3. CASE Post(volume)
    <2> DEFINE q == [volume |-> volume, report |-> report, state |-> "sent"]
    <2>1. requests' = Append(requests, q) /\ q \in Request /\ rpc = "post" /\ rpc' = "wait"
      BY <1>0, <1>3 DEF Post, Leave, Request
    <2>2. CronOfferOf(q) = [records |-> CronRecords(files), state |-> "sent"]
      <3>1. Records(report) = files
        BY <2>1 DEF CronInv, ReadsDirectory
      <3>2. QED
        BY <3>1 DEF CronOfferOf
    <2> HIDE DEF q
    <2>3. CronOffers' = Append(CronOffers, [records |-> CronRecords(files), state |-> "sent"])
      BY <1>0, <2>1, <2>2, CronSees, CronOffersAppended
    <2>4. Stage = "work" /\ Stage' = "answer"
      BY <1>1, <2>1
    <2>5. QED
      BY <1>0, <1>1, <2>3, <2>4, CronUnseen, MapsReport
  <1>4. CASE ReporterStep /\ UNCHANGED requests
    BY <1>2, <1>4
    DEF ReporterStep, ReporterOpen, ReporterOpenFail, ReporterRead, ReporterReadFail,
        ReporterMarshal
  <1>5. QED
    BY <1>2, <1>3, <1>4 DEF ReporterWork, PostFail, PrintReport

LEMMA ReporterIsCron ==
  ASSUME CronInv, Sink = "http", place = "dir", ReporterNext
  PROVE  [Cron!Next]_(Cron!vars)
PROOF
  <1>0. OneAtATime
    BY CronInvFacts
  <1>1. CASE ~ReporterWork
    <2>1. /\ phase = "Running" /\ cur = Reporter
          /\ UNCHANGED <<now, files, cur, phase, restarts, requests>>
      BY <1>1
      DEF ReporterNext, ReporterStart, ReporterAnswer, Response, ReporterNoAnswer,
          ResponseFail, ReporterExit, At, podVars, storeVars, dirVars
    <2>2. /\ Stage = ReporterStage /\ Stage' = ReporterStage'
          /\ StampHour = 0 /\ StampHour' = 0
      BY <2>1 DEF Stage, ReporterStage, StampHour
    <2>3. CASE ReporterStart \/ ReporterAnswer \/ ReporterExit
      <3>1. UNCHANGED Stage
        BY <2>2, <2>3
        DEF ReporterStart, ReporterNew, ReporterAnswer, Response, ReporterExit,
            ReporterGone, ReporterStage, At, podVars
      <3>2. QED
        BY <2>1, <2>2, <3>1, CronUnseen, MapsStutter
    <2>4. CASE ReporterNoAnswer
      <3>1. Stage = "answer" /\ Stage' = "failed"
        BY <2>2, <2>4 DEF ReporterNoAnswer, ResponseFail, ReporterStage, At, podVars
      <3>2. QED
        BY <2>1, <2>2, <3>1, CronUnseen, MapsFail
    <2>5. QED
      BY <1>1, <2>3, <2>4 DEF ReporterNext
  <1>2. QED
    BY <1>1, WorkIsCron

\* Kubernetes.
LEMMA KubeletIsCron ==
  ASSUME CronInv, Kubelet
  PROVE  Cron!Next
PROOF
  <1>0. /\ OneAtATime /\ OneAtATime' /\ AnswerInv /\ requests \in Seq(Request)
        /\ phase = "Running" /\ cur \in 1 .. Reporter
        /\ UNCHANGED <<now, files, requests>>
    <2>1. phase = "Running" /\ UNCHANGED <<now, files, requests>>
      BY DEF Kubelet, NextContainer, Complete, RestartContainer, GiveUp, At, storeVars,
             dirVars
    <2>2. Next /\ PodTypeOK /\ OneAtATime /\ AnswerInv
      BY CronInvFacts DEF CronInv, RefinementInv, Next
    <2>3. QED
      BY <2>1, <2>2, CronInvFacts, OneAtATimeNext DEF PodTypeOK, TypeOK
  <1>1. UNCHANGED <<CronRecords(files), CronOffers>>
    BY <1>0, CronUnseen
  <1>2. /\ Stage # "collect" => StampHour = 0
        /\ Stage' # "collect" => StampHour' = 0
    BY DEF StampHour
  <1>3. CASE NextContainer
    <2>1. /\ proc = "exit0" /\ proc' = "start" /\ cur' = cur + 1
          /\ cur \in Agents
          /\ UNCHANGED <<phase, restarts>>
      BY <1>0, <1>3, StoreAssumption DEF NextContainer, Agents, Reporter
    <2>2. pc[cur] = "idle" /\ rpc' = "idle"
      BY <1>0, <2>1 DEF OneAtATime
    <2>3. Stage = "stored" /\ Stage' = "work"
      BY <2>1, <2>2, ReporterIsNoAgent DEF Stage, AgentStage, ReporterStage
    <2>4. QED
      BY <1>0, <1>1, <1>2, <2>1, <2>3, MapsNextContainer
  <1>4. CASE Complete
    <2>1. /\ proc = "exit0" /\ cur = Reporter /\ phase' = "Succeeded"
          /\ UNCHANGED <<cur, proc, pc, rpc, stamp, rec, restarts>>
      BY <1>4
      DEF Complete, At, storeVars, callVars, reporterVars
    <2>2. rpc = "idle" /\ LastAnswered
      BY <1>0, <2>1 DEF OneAtATime, AnswerInv
    <2>3. Stage = "answer" /\ Stage' = "answer"
      BY <2>1, <2>2 DEF Stage, ReporterStage
    <2>4. CronOffers[Len(CronOffers)].state \in {"taken", "answered"}
      <3>1. Len(requests) \in 1 .. Len(requests)
        BY <1>0, <2>2 DEF LastAnswered
      <3>2. Len(CronOffersOf(requests)) = Len(requests)
        BY <1>0 DEF CronOffersOf
      <3>3. CronOffersOf(requests)[Len(requests)] = CronOfferOf(requests[Len(requests)])
        BY <3>1 DEF CronOffersOf
      <3>4. requests[Len(requests)].state \in {"taken", "answered"}
        BY <2>2, <3>1 DEF LastAnswered, CronInv, NonePrinted
      <3>5. QED
        BY <3>2, <3>3, <3>4, CronSees DEF CronOfferOf
    <2>5. QED
      BY <1>0, <1>1, <1>2, <2>1, <2>3, <2>4, MapsComplete
  <1>5. CASE RestartContainer
    <2>1. /\ proc = "exit1" /\ proc' = "start" /\ restarts < BackoffLimit
          /\ restarts' = restarts + 1
          /\ UNCHANGED <<cur, phase, pc, rpc>>
      BY <1>5 DEF RestartContainer, storeVars, callVars, reporterVars
    <2>2. rpc' = "idle"
      BY <1>0, <2>1 DEF OneAtATime
    <2>3. Stage = "failed" /\ Stage' = "work"
      BY <2>1, <2>2 DEF Stage, AgentStage, ReporterStage
    <2>4. QED
      BY <1>0, <1>1, <1>2, <2>1, <2>3, MapsRestart
  <1>6. CASE GiveUp
    <2>1. /\ proc = "exit1" /\ proc' = "exit1" /\ restarts = BackoffLimit
          /\ phase' = "Failed" /\ UNCHANGED <<cur, restarts>>
      BY <1>6 DEF GiveUp
    <2>2. Stage = "failed" /\ Stage' = "failed"
      BY <2>1 DEF Stage, AgentStage, ReporterStage
    <2>3. QED
      BY <1>0, <1>1, <1>2, <2>1, <2>2, MapsGiveUp
  <1>7. QED
    BY <1>3, <1>4, <1>5, <1>6 DEF Kubelet

LEMMA DisruptionIsCron ==
  ASSUME CronInv, Disruption
  PROVE  [Cron!Next]_(Cron!vars)
PROOF
  <1>0. phase = "Running" /\ UNCHANGED <<now, requests, phase>> /\ OneAtATime
    BY CronInvFacts DEF Disruption, Kill, SandboxRestart, VolumeLoss, StartOver
  <1>1. UNCHANGED CronOffers /\ (Stage # "collect" => StampHour = 0)
          /\ (Stage' # "collect" => StampHour' = 0)
    BY <1>0, CronUnseen DEF StampHour
  <1>2. CASE Kill
    <2>1. proc' = "exit1" /\ UNCHANGED <<files, cur, restarts>>
      BY <1>2 DEF Kill, dirVars
    <2>2. Stage' = "failed"
      BY <2>1 DEF Stage, AgentStage, ReporterStage
    <2>3. CASE Stage = "failed"
      BY <1>0, <1>1, <2>1, <2>2, <2>3, CronUnseen, MapsStutter
    <2>4. CASE Stage # "failed"
      BY <1>0, <1>1, <2>1, <2>2, <2>4, CronUnseen, MapsFail
    <2>5. QED
      BY <2>3, <2>4
  <1>3. CASE SandboxRestart \/ VolumeLoss
    <2>1. StartOver
      BY <1>3 DEF SandboxRestart, VolumeLoss
    <2>2. /\ cur' = 1 /\ proc' = "start" /\ 1 # Reporter
          /\ restarts < BackoffLimit /\ restarts' = restarts + 1
      BY <2>1, StoreAssumption DEF StartOver, Reporter
    <2>3. Stage' = "work"
      BY <2>2 DEF Stage, AgentStage
    <2>4. CronRecords(files)' \subseteq CronRecords(files)
      <3>1. CASE SandboxRestart
        BY <3>1, CronUnseen DEF SandboxRestart
      <3>2. CASE VolumeLoss
        <4>1. PICK kept, cut \in SUBSET files :
                files' = kept \cup {[f EXCEPT !.whole = FALSE] : f \in cut \ kept}
          BY <3>2 DEF VolumeLoss
        <4>2. ASSUME NEW f \in cut
              PROVE  ~[f EXCEPT !.whole = FALSE].whole
          <5>1. f \in File
            BY CronInvFacts DEF StoreTypeOK
          <5>2. QED
            BY <5>1 DEF File
        <4>3. {g \in files' : g.whole} \subseteq {g \in files : g.whole}
          BY <4>1, <4>2
        <4>4. QED
          BY <4>3, CronSees DEF CronRecords
      <3>3. QED
        BY <1>3, <3>1, <3>2
    <2>5. QED
      BY <1>0, <1>1, <2>2, <2>3, <2>4, MapsStartOver
  <1>4. QED
    BY <1>2, <1>3 DEF Disruption

LEMMA ClockIsCron ==
  ASSUME CronInv, Clock
  PROVE  [Cron!Next]_(Cron!vars)
PROOF
  <1>1. now < MaxTime /\ now' = now + 1 /\ now \in Time /\ now' \in Time
    BY CronInvFacts, StoreAssumption DEF Clock, Tick, Time
  <1>2. UNCHANGED <<files, pc, rec, rpc, requests, cur, proc, stamp, phase, restarts>>
    BY DEF Clock, Tick, dirVars, callVars, reporterVars, podVars
  <1>3. UNCHANGED <<Stage, StampHour, CronRecords(files), CronOffers>>
    BY <1>2, CronUnseen DEF Stage, StampHour, AgentStage, ReporterStage, HourOf
  <1>4. CASE HourOf(now') = HourOf(now)
    BY <1>2, <1>3, <1>4, CronSees, MapsStutter
  <1>5. CASE HourOf(now') # HourOf(now)
    BY <1>1, <1>2, <1>3, <1>5, MapsSchedule
  <1>6. QED
    BY <1>4, <1>5

LEMMA NetworkIsCron ==
  ASSUME CronInv, Network
  PROVE  Cron!Next
PROOF
  <1>1. PICK i \in 1 .. Len(requests), s \in {"taken", "answered", "lost"} :
          /\ requests' = [requests EXCEPT ![i].state = s]
          /\ requests[i].state = "sent"
    BY DEF Network, Collector, Arrive
  <1>2. /\ requests \in Seq(Request)
        /\ UNCHANGED <<now, files, pc, rec, rpc, cur, proc, stamp, phase, restarts>>
    BY CronInvFacts
    DEF Network, Collector, Arrive, reporterVars, podVars, storeVars, dirVars, callVars
  <1>3. UNCHANGED <<Stage, StampHour, CronRecords(files)>>
    BY <1>2, CronUnseen DEF Stage, StampHour, AgentStage, ReporterStage, HourOf
  <1>4. CronOfferOf([requests[i] EXCEPT !.state = s]) =
          [CronOfferOf(requests[i]) EXCEPT !.state = s]
    <2> DEFINE q == requests[i]
               records == CronRecords(Records(q.report))
    <2>1. q \in Request
      BY <1>2
    <2> HIDE DEF q
    <2>2. [q EXCEPT !.state = s] =
            [volume |-> q.volume, report |-> q.report, state |-> s]
      BY <2>1 DEF Request
    <2>3. CronOfferOf([q EXCEPT !.state = s]) = [records |-> records, state |-> s]
      BY <2>2 DEF CronOfferOf
    <2>4. CronOfferOf(q) = [records |-> records, state |-> q.state]
      BY DEF CronOfferOf
    <2> HIDE DEF records
    <2>5. [CronOfferOf(q) EXCEPT !.state = s] = [records |-> records, state |-> s]
      BY <2>4
    <2>6. QED
      BY <2>3, <2>5 DEF q
  <1>5. /\ Len(requests') = Len(requests)
        /\ requests'[i] = [requests[i] EXCEPT !.state = s]
        /\ \A j \in 1 .. Len(requests) : j # i => requests'[j] = requests[j]
    BY <1>1, <1>2
  <1>6. CronOffers' = [CronOffers EXCEPT ![i].state = s]
    <2>1. CronOffersOf(requests') = [CronOffersOf(requests) EXCEPT ![i].state = s]
      BY <1>4, <1>5 DEF CronOffersOf
    <2>2. QED
      BY <2>1, CronSees
  <1>7. /\ CronOffers[i].state = "sent" /\ i \in 1 .. Len(CronOffers)
        /\ DOMAIN CronOffers = 1 .. Len(CronOffers)
    <2>1. CronOffersOf(requests)[i] = CronOfferOf(requests[i])
      BY DEF CronOffersOf
    <2>2. /\ Len(CronOffersOf(requests)) = Len(requests)
          /\ DOMAIN CronOffersOf(requests) = 1 .. Len(requests)
      BY <1>2 DEF CronOffersOf
    <2>3. QED
      BY <1>1, <2>1, <2>2, CronSees DEF CronOfferOf
  <1>8. QED
    BY <1>2, <1>3, <1>6, <1>7, MapsResolve

LEMMA StepOfTheCronJob ==
  ASSUME CronInv, Sink = "http", [Next]_vars, place = "dir"
  PROVE  [Cron!Next]_(Cron!vars)
PROOF
  <1>1. CASE UNCHANGED vars
    <2>1. UNCHANGED <<now, files, pc, rec, rpc, requests, cur, proc, stamp, phase, restarts>>
      BY <1>1 DEF vars, storeVars, dirVars, callVars, reporterVars, podVars
    <2>2. UNCHANGED <<Stage, StampHour>>
      BY <2>1 DEF Stage, StampHour, AgentStage, ReporterStage, HourOf
    <2>3. QED
      BY <2>1, <2>2, CronUnseen, MapsStutter
  <1>2. QED
    BY <1>1, ClockIsCron, NetworkIsCron, AgentIsCron, ReporterIsCron, KubeletIsCron,
       DisruptionIsCron
    DEF Next

LEMMA NonePrintedNext ==
  ASSUME Sink = "http", PodInv, NonePrinted, [Next]_vars
  PROVE  NonePrinted'
PROOF
  <1>0. HTTPTypeOK /\ requests \in Seq(Request)
    BY DEF PodInv, PodTypeOK, TypeOK, HTTPTypeOK
  <1>1. CASE UNCHANGED requests
    BY <1>1 DEF NonePrinted
  <1>2. CASE Collector
    <2>1. PICK i \in 1 .. Len(requests), s \in {"taken", "answered", "lost"} :
            requests' = [requests EXCEPT ![i].state = s]
      BY <1>2 DEF Collector, Arrive
    <2>2. [requests[i] EXCEPT !.state = s].state = s
      BY <1>0 DEF Request
    <2>3. QED
      BY <1>0, <2>1, <2>2 DEF NonePrinted
  <1>3. CASE ReporterWork
    <2>1. UNCHANGED requests \/ Leave(volume, "sent")
      BY <1>3 DEF ReporterWork, Post, PostFail, PrintReport
    <2>2. CASE Leave(volume, "sent")
      <3>1. /\ Len(requests') = Len(requests) + 1
            /\ \A i \in 1 .. Len(requests) : requests'[i] = requests[i]
            /\ requests'[Len(requests')].state = "sent"
        BY <1>0, <2>2, LeaveAppends
      <3>2. \A i \in 1 .. Len(requests') :
              i \in 1 .. Len(requests) \/ i = Len(requests')
        BY <1>0, <3>1
      <3>3. QED
        BY <3>1, <3>2 DEF NonePrinted
    <2>3. QED
      BY <1>1, <2>1, <2>2
  <1>4. QED
    BY <1>1, <1>2, <1>3, ReporterSees

LEMMA FirstHourInit ==
  ASSUME Init
  PROVE  FirstHour
PROOF
  <1>1. HourOf(now) = 1 /\ HourOf(0) = 1
    BY HourOfTime DEF Init, StoreInit
  <1>2. StatusOfJobs = OfFirst("Running", "None")
    BY <1>1, LastHourType DEF StatusOfJobs, OfFirst, Init
  <1>3. cur = 1 /\ Stage = "work" /\ StampHour = 0 /\ restarts = 0
    BY StoreAssumption DEF Init, Stage, AgentStage, StampHour, Reporter
  <1>4. CronRecords(files) = {} /\ CronOffers = <<>>
    BY DEF Init, StoreInit, HTTPInit, CronRecords, CronOffers
  <1>5. QED
    BY <1>1, <1>2, <1>3, <1>4 DEF FirstHour

\* A pod that posts implements a job of TelemetryCron, whatever happens to
\* it, if its record directory is one.
THEOREM PodImplementsCronJob ==
  ASSUME Sink = "http"
  PROVE  Spec => ImplementsCronJob
PROOF
  <1>1. Init => FirstHour /\ AnswerInv /\ VolumeInv /\ NonePrinted
    BY FirstHourInit
    DEF Init, StoreInit, ReporterInit, HTTPInit, AnswerInv, OneAtATime, VolumeInv,
        TargetUnfinished, ReportsInVolume, RetriesRepeat, NonePrinted
  <1>2. PodInv /\ ReadsDirectory /\ AnswerInv /\ VolumeInv /\ NonePrinted /\ [Next]_vars
          => AnswerInv' /\ VolumeInv' /\ NonePrinted'
    BY AnswerInvNext, VolumeInvNext, NonePrintedNext DEF PodInv
  <1>3. PodInv /\ ReadsDirectory /\ AnswerInv /\ VolumeInv /\ NonePrinted /\ [Next]_vars
          => [place = "dir" => Cron!Next]_(Cron!vars)
    BY StepOfTheCronJob DEF CronInv, RefinementInv
  <1>4. QED
    BY <1>1, <1>2, <1>3, ReadsDirectoryInvariant, PTL DEF Spec, ImplementsCronJob

-----------------------------------------------------------------------------
\* The store of the pod.  A call that is not in progress has no memory, so that
\* ending all of them ends the one there is; a record is not of the future.
CallsBlank ==
  /\ \A a \in Agents : pc[a] = "idle" => rec[a] = NoRecord(a) /\ target[a] = NoName
  /\ stamp <= now

LEMMA GoneIsEnd ==
  ASSUME StoreTypeOK, OneAtATime, CallsBlank, ProcessesGone, UNCHANGED <<now, dirVars>>
  PROVE  [StoreNext]_storeVars
PROOF
  <1>1. CASE \A a \in Agents : pc[a] = "idle"
    <2>1. pc' = pc /\ rec' = rec /\ target' = target
      BY <1>1 DEF ProcessesGone, CallsBlank, StoreTypeOK
    <2>2. QED
      BY <2>1 DEF storeVars, callVars
  <1>2. ASSUME NEW a \in Agents, pc[a] # "idle"
        PROVE  StoreNext
    <2>1. \A b \in Agents : b # a => pc[b] = "idle"
      BY <1>2 DEF OneAtATime
    <2>2. /\ pc' = [pc EXCEPT ![a] = "idle"]
          /\ rec' = [rec EXCEPT ![a] = NoRecord(a)]
          /\ target' = [target EXCEPT ![a] = NoName]
      BY <2>1 DEF ProcessesGone, CallsBlank, StoreTypeOK
    <2>3. StoreEnd(a)
      BY <1>2, <2>2 DEF StoreEnd, StoreGone
    <2>4. QED
      BY <2>3 DEF StoreNext
  <1>3. QED
    BY <1>1, <1>2

LEMMA BlankPrimed ==
  CallsBlank' <=>
    /\ \A a \in Agents : pc'[a] = "idle" => rec'[a] = NoRecord(a) /\ target'[a] = NoName
    /\ stamp' <= now'
PROOF
  BY DEF CallsBlank, NoRecord, NoName

LEMMA CallsBlankNext ==
  ASSUME PodTypeOK, CallsBlank, [Next]_vars
  PROVE  CallsBlank'
PROOF
  <1>0. /\ now \in Nat /\ stamp \in Nat /\ stamp <= now
        /\ DOMAIN pc = Agents /\ DOMAIN rec = Agents /\ DOMAIN target = Agents
        /\ place \in Places
        /\ \A a \in Agents : pc[a] = "idle" => rec[a] = NoRecord(a) /\ target[a] = NoName
    BY StoreAssumption DEF PodTypeOK, TypeOK, StoreTypeOK, Time, CallsBlank
  <1>1. ASSUME UNCHANGED <<callVars, stamp>>, now' \in {now, now + 1}
        PROVE  CallsBlank'
    BY <1>0, <1>1, BlankPrimed DEF callVars
  <1>2. ASSUME NEW a \in Agents, AgentNext(a)
        PROVE  CallsBlank'
    <2>1. now' = now /\ stamp' \in {stamp, now, 0}
      BY <1>2
      DEF AgentNext, AgentStart, AgentCollected, AgentFail, AgentStore, AgentExit,
          StoreBegin, StoreStep, StoreStat, StoreCreate, StoreWrite, StoreFail,
          storeVars, podVars
    <2>2. \A b \in Agents : b # a =>
            pc'[b] = pc[b] /\ rec'[b] = rec[b] /\ target'[b] = target[b]
      BY <1>0, <1>2
      DEF AgentNext, AgentStart, AgentCollected, AgentFail, AgentStore, AgentExit,
          StoreBegin, StoreStep, StoreStat, StoreCreate, StoreWrite, StoreFail,
          StoreGone, storeVars, callVars
    <2>3. \/ pc'[a] # "idle"
          \/ pc'[a] = pc[a] /\ rec'[a] = rec[a] /\ target'[a] = target[a]
          \/ rec'[a] = NoRecord(a) /\ target'[a] = NoName
      <3>1. CASE AgentStart(a) \/ AgentFail(a)
        BY <3>1 DEF AgentStart, AgentFail, storeVars, callVars
      <3>2. CASE AgentCollected(a)
        BY <1>0, <3>2 DEF AgentCollected, StoreBegin
      <3>3. CASE AgentStore(a)
        BY <1>0, <3>3, StoreAssumption
        DEF AgentStore, StoreStep, StoreStat, StoreCreate, StoreWrite, StoreFail
      <3>4. CASE AgentExit(a)
        BY <1>0, <3>4 DEF AgentExit, StoreGone
      <3>5. QED
        BY <1>2, <3>1, <3>2, <3>3, <3>4 DEF AgentNext
    <2>4. \A b \in Agents : pc'[b] = "idle" => rec'[b] = NoRecord(b) /\ target'[b] = NoName
      BY <1>0, <2>2, <2>3
    <2>5. QED
      BY <1>0, <2>1, <2>4, BlankPrimed
  <1>3. CASE ReporterNext \/ Kubelet \/ Network \/ Clock \/ UNCHANGED vars
    <2>1. UNCHANGED <<callVars, stamp>> /\ now' \in {now, now + 1}
      BY <1>3
      DEF ReporterNext, ReporterStart, ReporterWork, ReporterAnswer, ReporterNoAnswer,
          ReporterExit, Kubelet, NextContainer, Complete, RestartContainer, GiveUp,
          Network, Clock, Tick, vars, podVars, storeVars
    <2>2. QED
      BY <1>1, <2>1
  <1>4. CASE Disruption
    <2>1. ProcessesGone /\ now' = now
      BY <1>4 DEF Disruption, Kill, SandboxRestart, VolumeLoss, StartOver
    <2>2. QED
      BY <1>0, <2>1, BlankPrimed DEF ProcessesGone
  <1>5. QED
    BY <1>2, <1>3, <1>4 DEF Next

LEMMA StepOfTheStore ==
  ASSUME PodTypeOK, OneAtATime, CallsBlank, [Next]_vars
  PROVE  [StoreNext \/ VolumeLoss]_storeVars
PROOF
  <1>1. CASE ReporterNext \/ Kubelet \/ Network \/ UNCHANGED vars
    BY <1>1
    DEF ReporterNext, ReporterStart, ReporterWork, ReporterAnswer, ReporterNoAnswer,
        ReporterExit, Kubelet, NextContainer, Complete, RestartContainer, GiveUp, Network,
        vars
  <1>2. CASE Clock
    BY <1>2 DEF Clock, StoreNext
  <1>3. ASSUME NEW a \in Agents, AgentNext(a)
        PROVE  [StoreNext]_storeVars
    <2>1. CASE AgentStart(a) \/ AgentFail(a)
      BY <2>1 DEF AgentStart, AgentFail
    <2>2. CASE AgentCollected(a)
      <3>1. stamp \in 0 .. now
        BY StoreAssumption DEF CallsBlank, PodTypeOK, TypeOK, StoreTypeOK, Time
      <3>2. QED
        BY <2>2, <3>1 DEF AgentCollected, StoreNext
    <2>3. CASE AgentStore(a)
      BY <2>3 DEF AgentStore, StoreNext
    <2>4. CASE AgentExit(a)
      BY <2>4 DEF AgentExit, StoreEnd, StoreNext
    <2>5. QED
      BY <1>3, <2>1, <2>2, <2>3, <2>4 DEF AgentNext
  <1>4. CASE Disruption
    BY <1>4, GoneIsEnd
    DEF Disruption, Kill, SandboxRestart, VolumeLoss, StartOver, dirVars, PodTypeOK, TypeOK
  <1>5. QED
    BY <1>1, <1>2, <1>3, <1>4 DEF Next

LEMMA CallsInvariant == Spec => [](PodInv /\ CallsBlank)
PROOF
  <1>1. Init => CallsBlank
    BY DEF Init, StoreInit, CallsBlank
  <1>2. PodInv /\ CallsBlank /\ [Next]_vars => CallsBlank'
    BY CallsBlankNext DEF PodInv
  <1>3. QED
    BY <1>1, <1>2, PodInvariant, PTL DEF Spec

\* The store of a pod is a FileStore until its volume loses files.
THEOREM PodImplementsStore == Spec => ImplementsStore
PROOF
  <1>1. Init => StoreInit
    BY DEF Init
  <1>2. PodInv /\ CallsBlank /\ [Next]_vars => [StoreNext \/ VolumeLoss]_storeVars
    BY StepOfTheStore DEF PodInv, DirInv
  <1>3. QED
    BY <1>1, <1>2, CallsInvariant, PTL DEF Spec, ImplementsStore

\* So the invariant of the store holds in the pod, where a volume that loses
\* files ends the calls that relied on them: a Store that returned nil has its
\* record on disk there too (file.go:52-64).
THEOREM PodStoreOkIsStored == Spec => []OkMeansStored
PROOF
  <1>1. Init => StoreInv
    BY StoreInvInit DEF Init
  <1>2. ASSUME PodInv, CallsBlank, StoreInv, [Next]_vars, (PodInv)'
        PROVE  StoreInv'
    <2>1. CASE [StoreNext]_storeVars
      BY <1>2, <2>1, StoreInvNext
    <2>2. CASE VolumeLoss
      <3>1. StoreTypeOK' /\ OneFilePerName'
        BY <1>2 DEF PodInv, PodTypeOK, TypeOK, DirInv
      <3>2. \A a \in Agents : pc'[a] = "idle"
        BY <2>2 DEF VolumeLoss, StartOver, ProcessesGone
      <3>3. QED
        BY <3>1, <3>2 DEF StoreInv, OwnFile, OwnName, Created
    <2>3. QED
      BY <1>2, <2>1, <2>2, StepOfTheStore DEF PodInv, DirInv
  <1>3. PodInv /\ CallsBlank /\ StoreInv /\ [Next]_vars /\ (PodInv)' => StoreInv'
    BY <1>2
  <1>4. StoreInv => OkMeansStored
    BY DEF StoreInv, OwnFile, Created, OkMeansStored
  <1>5. QED
    BY <1>1, <1>3, <1>4, CallsInvariant, PTL DEF Spec

=============================================================================
