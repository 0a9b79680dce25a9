---------------------------- MODULE FileReporter ----------------------------
(***************************************************************************)
(* reporter.fileReporter: reads every file of the record directory, in the *)
(* order of their names, into one report and hands it to its data store.   *)
(* The directory is listed once; the files are read one by one afterwards, *)
(* by name, so what a file holds is what it holds when its turn comes.     *)
(*                                                                         *)
(* A report keeps the file each of its records was read from: the JSON     *)
(* holds the records alone, the names are what the properties relate.      *)
(***************************************************************************)
EXTENDS FileStore, Sequences

Report == [time : Time, records : Seq(File)]

VARIABLES
  rpc,     \* where the reporter process is
  unread,  \* the names ReadDir returned that are still to be read
  report   \* the report in the making

reporterVars == <<rpc, unread, report>>

NoReport == [time |-> 0, records |-> <<>>]

ReporterTypeOK ==
  /\ rpc \in {"idle", "open", "read", "post", "wait", "ok", "err"}
  /\ unread \subseteq Name
  /\ report \in Report

ReporterInit ==
  /\ rpc = "idle"
  /\ unread = {}
  /\ report = NoReport

\* Mutant of Before: the order of the random part.
BeforeBySuffix(m, n) == m.suffix < n.suffix

\* The order of file names: record-<second>-<random>.json.
Before(m, n) ==
  \/ m.sec < n.sec
  \/ m.sec = n.sec /\ m.suffix < n.suffix

-----------------------------------------------------------------------------
\* NewFileReporter refuses a path that os.Stat does not find.
ReporterNew ==
  /\ rpc = "idle"
  /\ rpc' = IF place = "absent" THEN "err" ELSE "open"
  /\ UNCHANGED <<unread, report>>

\* Mutant of ReporterOpen: files of an earlier second are left out.
ReporterOpenRecent ==
  /\ rpc = "open" /\ place = "dir"
  /\ rpc' = "read"
  /\ unread' = {n \in Names : n.sec = now}
  /\ report' = [time |-> now, records |-> <<>>]

\* Report lists the directory and stamps the report.
ReporterOpen ==
  /\ rpc = "open" /\ place = "dir"
  /\ rpc' = "read"
  /\ unread' = Names
  /\ report' = [time |-> now, records |-> <<>>]

\* A path that is a file is joined with its own name, and reading that
\* fails; so may Stat and ReadDir of a directory.
ReporterOpenFail ==
  /\ rpc = "open"
  /\ rpc' = "err"
  /\ UNCHANGED <<unread, report>>

ReporterRead ==
  /\ rpc = "read"
  /\ \E n \in unread :
       /\ \A m \in unread \ {n} : Before(n, m)
       /\ \E f \in files :
            /\ f.name = n
            /\ report' = [report EXCEPT !.records = Append(@, f)]
       /\ unread' = unread \ {n}
  /\ UNCHANGED rpc

\* The file is gone, or reading it fails.
ReporterReadFail ==
  /\ rpc = "read" /\ unread # {}
  /\ rpc' = "err"
  /\ UNCHANGED <<unread, report>>

\* Mutants of ReporterMarshal: the records are taken as they are; a record
\* that is not whole is waited for, or left out.
ReporterMarshalAny ==
  /\ rpc = "read" /\ unread = {}
  /\ rpc' = "post"
  /\ UNCHANGED <<unread, report>>

ReporterMarshalWaits ==
  /\ rpc = "read" /\ unread = {}
  /\ \A i \in 1 .. Len(report.records) : report.records[i].whole
  /\ rpc' = "post"
  /\ UNCHANGED <<unread, report>>

ReporterMarshalSkips ==
  /\ rpc = "read" /\ unread = {}
  /\ rpc' = "post"
  /\ report' = [report EXCEPT !.records = SelectSeq(@, LAMBDA f : f.whole)]
  /\ UNCHANGED unread

\* json.Marshal takes the records as raw JSON: one of them that is not a
\* whole document makes it fail.
ReporterMarshal ==
  /\ rpc = "read" /\ unread = {}
  /\ rpc' = IF \A i \in 1 .. Len(report.records) : report.records[i].whole
              THEN "post" ELSE "err"
  /\ UNCHANGED <<unread, report>>

ReporterGone ==
  /\ rpc' = "idle"
  /\ unread' = {}
  /\ report' = NoReport

\* The steps that leave the report with the data store, or fail before it.
ReporterStep ==
  /\ \/ ReporterOpen
     \/ ReporterOpenFail
     \/ ReporterRead
     \/ ReporterReadFail
     \/ ReporterMarshal

=============================================================================
