------------------------------ MODULE ReportJob ------------------------------
(***************************************************************************)
(* What a run of the telemetry CronJob promises, without its containers,   *)
(* files and processes: it offers reports to a collector, each of them     *)
(* with a record of every agent; it succeeds only when the last one it     *)
(* offered was answered, or was to be printed; it may fail at any time.    *)
(* It promises neither a report at most once, nor that a report was kept   *)
(* by who answered, nor that a print did not fail.                         *)
(***************************************************************************)
EXTENDS Naturals, Sequences

CONSTANT Agents

VARIABLES
  status,  \* of the job
  offers   \* the reports offered, oldest first: the kinds of their records
           \* and what became of them

jobVars == <<status, offers>>

Resolved == {"taken", "answered", "lost"}

Init ==
  /\ status = "Running"
  /\ offers = <<>>

Offer ==
  /\ status = "Running"
  /\ \E s \in {"sent", "printed", "unprinted"} :
       offers' = Append(offers, [kinds |-> Agents, state |-> s])
  /\ UNCHANGED status

\* An offer may be resolved after the job that made it has ended.
Resolve(i) ==
  /\ offers[i].state = "sent"
  /\ \E s \in Resolved : offers' = [offers EXCEPT ![i].state = s]
  /\ UNCHANGED status

Succeed ==
  /\ status = "Running" /\ offers # <<>>
  /\ offers[Len(offers)].state \in {"taken", "answered", "printed", "unprinted"}
  /\ status' = "Succeeded"
  /\ UNCHANGED offers

Fail ==
  /\ status = "Running"
  /\ status' = "Failed"
  /\ UNCHANGED offers

Next ==
  \/ Offer
  \/ \E i \in 1 .. Len(offers) : Resolve(i)
  \/ Succeed
  \/ Fail

Spec == Init /\ [][Next]_jobVars

=============================================================================
