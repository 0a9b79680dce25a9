------------------------------ MODULE FileStore ------------------------------
(***************************************************************************)
(* datastore.fileStore: an agent process stores one record as one new file *)
(* of the record directory.  Several processes may have a Store call in    *)
(* progress on the same directory; each of them can be killed between any  *)
(* two system calls and leaves behind what it had already done.            *)
(*                                                                         *)
(* A record is its kind and its time: the fields that tell records apart.  *)
(* The bytes of a file are abstracted to whether they are the whole record *)
(* (os.Create makes an empty file, a failed or interrupted Write a prefix; *)
(* neither is a JSON document, so the model does not tell them apart).     *)
(***************************************************************************)
EXTENDS Naturals, FiniteSets

CONSTANTS
  NumAgents,  \* agent i is the i-th init container of the pod
  MaxTime,    \* bound: the last second of the wall clock
  Suffixes,   \* the values of rand.String(6), in their string order
  Places      \* what os.Stat may find at the record directory

ASSUME StoreAssumption ==
  /\ NumAgents \in Nat \ {0}
  /\ MaxTime \in Nat
  /\ Suffixes \subseteq Nat /\ Suffixes # {}
  /\ Places \subseteq {"dir", "file", "absent"}

Agents == 1 .. NumAgents
Time   == 0 .. MaxTime

Name   == [sec : Time, suffix : Suffixes]
Record == [kind : Agents, time : Time]
File   == [name : Name, rec : Record, whole : BOOLEAN]

VARIABLES
  now,    \* the wall clock, in seconds
  place,  \* what the path of the store is: a directory, a file, nothing
  files,  \* the files of the record directory
  pc,     \* pc[a]: where the Store call of agent a is
  rec,    \* rec[a]: the record that call stores
  target  \* target[a]: the file name it has drawn

dirVars   == <<place, files>>
callVars  == <<pc, rec, target>>
storeVars == <<now, dirVars, callVars>>

NoRecord(a) == [kind |-> a, time |-> 0]
NoName == [sec |-> 0, suffix |-> CHOOSE s \in Suffixes : TRUE]

Names == {f.name : f \in files}

StoreTypeOK ==
  /\ now \in Time
  /\ place \in Places
  /\ files \subseteq File
  /\ pc \in [Agents -> {"idle", "stat", "create", "write", "ok", "err"}]
  /\ rec \in [Agents -> Record]
  /\ target \in [Agents -> Name]

StoreInit ==
  /\ now = 0
  /\ place \in Places
  /\ files = {}
  /\ pc = [a \in Agents |-> "idle"]
  /\ rec = [a \in Agents |-> NoRecord(a)]
  /\ target = [a \in Agents |-> NoName]

-----------------------------------------------------------------------------
\* The clock the names and the record times are read from does not go back.
Tick ==
  /\ now < MaxTime
  /\ now' = now + 1
  /\ UNCHANGED <<dirVars, callVars>>

\* Mutant of StoreBegin: the kind of the record is off by one.
StoreBeginNextKind(a, t) ==
  /\ pc[a] = "idle"
  /\ pc' = [pc EXCEPT ![a] = "stat"]
  /\ rec' = [rec EXCEPT ![a] = [kind |-> a + 1, time |-> t]]
  /\ UNCHANGED <<now, dirVars, target>>

\* Collect hands its record, stamped at time t, to Store.
StoreBegin(a, t) ==
  /\ pc[a] = "idle"
  /\ pc' = [pc EXCEPT ![a] = "stat"]
  /\ rec' = [rec EXCEPT ![a] = [kind |-> a, time |-> t]]
  /\ UNCHANGED <<now, dirVars, target>>

\* os.Stat.  A path that is not a directory makes Store return the nil error
\* of the Stat that succeeded.
StoreStat(a) ==
  /\ pc[a] = "stat"
  /\ pc' = [pc EXCEPT ![a] = CASE place = "absent" -> "err"
                               [] place = "file"   -> "ok"
                               [] place = "dir"    -> "create"]
  /\ UNCHANGED <<now, dirVars, rec, target>>

\* Mutant of DrawName: the second alone makes the name.
DrawNameOfSecond(a, n) ==
  n = [sec |-> now, suffix |-> CHOOSE s \in Suffixes : TRUE]

\* The file name drawn by agent a: the second of the clock and a random
\* string, taken to differ from the ones drawn before.
DrawName(a, n) ==
  \E s \in Suffixes : n = [sec |-> now, suffix |-> s] /\ n \notin Names

\* os.Create truncates a file of that name, or makes an empty one.
StoreCreate(a) ==
  /\ pc[a] = "create"
  /\ \E n \in Name :
       /\ DrawName(a, n)
       /\ files' = {f \in files : f.name # n}
                     \cup {[name |-> n, rec |-> rec[a], whole |-> FALSE]}
       /\ target' = [target EXCEPT ![a] = n]
  /\ pc' = [pc EXCEPT ![a] = "write"]
  /\ UNCHANGED <<now, place, rec>>

StoreWrite(a) ==
  /\ pc[a] = "write"
  /\ files' = {f \in files : f.name # target[a]}
                \cup {[name |-> target[a], rec |-> rec[a], whole |-> TRUE]}
  /\ pc' = [pc EXCEPT ![a] = "ok"]
  /\ UNCHANGED <<now, place, rec, target>>

\* Mutant of StoreFail: the error is not returned.
StoreFailIgnored(a) ==
  /\ pc[a] \in {"create", "write"}
  /\ pc' = [pc EXCEPT ![a] = "ok"]
  /\ UNCHANGED <<now, dirVars, rec, target>>

\* os.Create or Write fails; a file that was created stays as it is.
StoreFail(a) ==
  /\ pc[a] \in {"create", "write"}
  /\ pc' = [pc EXCEPT ![a] = "err"]
  /\ UNCHANGED <<now, dirVars, rec, target>>

\* The process of agent a is gone: it returned from Store and exited, or it
\* was killed.  Its memory goes with it, its files do not.
StoreGone(a) ==
  /\ pc' = [pc EXCEPT ![a] = "idle"]
  /\ rec' = [rec EXCEPT ![a] = NoRecord(a)]
  /\ target' = [target EXCEPT ![a] = NoName]

StoreStep(a) == StoreStat(a) \/ StoreCreate(a) \/ StoreWrite(a) \/ StoreFail(a)

-----------------------------------------------------------------------------
\* The store on its own: agent processes that start, store and end or are
\* killed in any interleaving.
StoreEnd(a) ==
  /\ pc[a] # "idle"
  /\ StoreGone(a)
  /\ UNCHANGED <<now, dirVars>>

StoreNext ==
  \/ Tick
  \/ \E a \in Agents :
       \/ \E t \in 0 .. now : StoreBegin(a, t)
       \/ StoreStep(a)
       \/ StoreEnd(a)

StoreSpec == StoreInit /\ [][StoreNext]_storeVars

-----------------------------------------------------------------------------
\* Store returns nil only when the record is on disk and whole, whatever
\* the other processes that store in the same directory do meanwhile
\* (file.go:52-64); the record directory being a directory.
OkMeansStored ==
  \A a \in Agents :
    pc[a] = "ok" /\ place = "dir" =>
      [name |-> target[a], rec |-> rec[a], whole |-> TRUE] \in files

\* No Store, and no death of a process that is storing, takes away or
\* damages a record that is whole in the directory (file.go:50-58: the
\* truncation of os.Create and the names it is given).
StoredRecordsKept ==
  [][\A f \in files : f.whole => f \in files']_files

\* "recordDir is the directory to save all records files from agents"
\* (pkg/cli/kubernetes-agent/agent.go:45): an agent whose Store returned nil
\* has saved its record there.
StoreOkMeansSaved ==
  \A a \in Agents :
    pc[a] = "ok" => \E f \in files : f.rec = rec[a] /\ f.whole

=============================================================================
