------------------------------ MODULE HTTPStore ------------------------------
(***************************************************************************)
(* The data stores of the reporter: datastore.httpStore, which posts the   *)
(* report to the collector, and datastore.stdout, which prints it.         *)
(*                                                                         *)
(* Collector and network are not part of the repository: they are modelled *)
(* as far as http.go tells their doings apart.  A request that left the    *)
(* process outlives it; the collector may take it, answer it with any      *)
(* other status (http.go does not look at the status), or it may get lost; *)
(* and the connection may break before an answer is read in each case.     *)
(* http.DefaultClient has no timeout: an answer that does not come keeps   *)
(* the reporter waiting.                                                   *)
(***************************************************************************)
EXTENDS FileReporter

CONSTANT
  Sink  \* the reporter's sub-command

ASSUME SinkAssumption == Sink \in {"http", "stdout"}

VARIABLE
  requests  \* all reports a data store was given to send or print, but for
            \* those no request could be made of; oldest first

\* "sent": on its way.  "taken": the collector has stored it and answers 2xx.
\* "answered": it was answered, and not stored.  "printed": to stdout, whole.
\* "unprinted": stdout.Store had it to print, and the print failed.
Request == [volume : Nat, report : Report,
            state : {"sent", "taken", "answered", "lost", "printed", "unprinted"}]

HTTPTypeOK == requests \in Seq(Request)

HTTPInit == requests = <<>>

Leave(v, state) ==
  requests' = Append(requests, [volume |-> v, report |-> report, state |-> state])

\* httpStore.Store sends the request and waits.
Post(v) ==
  /\ Sink = "http" /\ rpc = "post"
  /\ Leave(v, "sent")
  /\ rpc' = "wait"
  /\ UNCHANGED <<unread, report>>

\* No request can be made of the URL, or no connection to it.
PostFail ==
  /\ Sink = "http" /\ rpc = "post"
  /\ rpc' = "err"
  /\ UNCHANGED <<unread, report, requests>>

\* Do has a response: Store returns nil whatever its status.
Response ==
  /\ rpc = "wait"
  /\ requests[Len(requests)].state \in {"taken", "answered"}
  /\ rpc' = "ok"
  /\ UNCHANGED <<unread, report, requests>>

\* Mutant of ResponseFail: the error of Do is not returned.
ResponseFailIgnored ==
  /\ rpc = "wait"
  /\ rpc' = "ok"
  /\ UNCHANGED <<unread, report, requests>>

\* Another: the report is sent again.
ResponseFailRetries ==
  /\ rpc = "wait"
  /\ rpc' = "post"
  /\ UNCHANGED <<unread, report, requests>>

\* Do fails after the request was sent, taken or not.
ResponseFail ==
  /\ rpc = "wait"
  /\ rpc' = "err"
  /\ UNCHANGED <<unread, report, requests>>

\* stdout.Store indents the report, which is JSON and so does not fail, and
\* prints it.  The error of fmt.Println is not looked at: Store returns nil
\* whether the report was printed or, in part or in whole, was not.
PrintReport(v) ==
  /\ Sink = "stdout" /\ rpc = "post"
  /\ \E s \in {"printed", "unprinted"} : Leave(v, s)
  /\ rpc' = "ok"
  /\ UNCHANGED <<unread, report>>

\* Collector and network: what becomes of a request on its way.
Arrive(i, state) ==
  /\ requests[i].state = "sent"
  /\ requests' = [requests EXCEPT ![i].state = state]
  /\ UNCHANGED reporterVars

Collector ==
  \E i \in 1 .. Len(requests) :
    Arrive(i, "taken") \/ Arrive(i, "answered") \/ Arrive(i, "lost")

=============================================================================
