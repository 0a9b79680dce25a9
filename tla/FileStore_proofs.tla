--------------------------- MODULE FileStore_proofs ---------------------------
(***************************************************************************)
(* What the file store promises, proved for every number of agents, clock, *)
(* set of random strings and kind of path: a Store that returned nil has   *)
(* its record on disk, and no Store takes a record away.                   *)
(***************************************************************************)
EXTENDS FileStore, TLAPS

\* The initial values of a call's memory are values of the right type.
LEMMA IdleCallType ==
  /\ NoName \in Name
  /\ 0 \in Time
  /\ \A a \in Agents : NoRecord(a) \in Record
PROOF
  <1>1. (CHOOSE s \in Suffixes : TRUE) \in Suffixes
    BY StoreAssumption
  <1>2. 0 \in Time
    BY StoreAssumption DEF Time
  <1>3. NoName \in Name
    BY <1>1, <1>2 DEF NoName, Name
  <1>4. \A a \in Agents : NoRecord(a) \in Record
    BY <1>2 DEF NoRecord, Record
  <1>5. QED
    BY <1>2, <1>3, <1>4

\* The steps of one Store call keep the types, whoever else takes them.
LEMMA StoreStepType ==
  ASSUME StoreTypeOK, NEW a \in Agents, StoreStep(a)
  PROVE  StoreTypeOK'
PROOF
  <1> USE DEF StoreTypeOK
  <1>1. CASE StoreStat(a)
    BY <1>1, StoreAssumption DEF StoreStat, dirVars
  <1>2. CASE StoreCreate(a)
    <2>1. PICK n \in Name :
            /\ files' = {f \in files : f.name # n}
                          \cup {[name |-> n, rec |-> rec[a], whole |-> FALSE]}
            /\ target' = [target EXCEPT ![a] = n]
      BY <1>2 DEF StoreCreate
    <2>2. [name |-> n, rec |-> rec[a], whole |-> FALSE] \in File
      BY DEF File
    <2>3. files' \subseteq File
      BY <2>1, <2>2
    <2>4. QED
      BY <1>2, <2>1, <2>3 DEF StoreCreate
  <1>3. CASE StoreWrite(a)
    <2>1. [name |-> target[a], rec |-> rec[a], whole |-> TRUE] \in File
      BY DEF File
    <2>2. QED
      BY <1>3, <2>1 DEF StoreWrite
  <1>4. CASE StoreFail(a)
    BY <1>4 DEF StoreFail, dirVars
  <1>5. QED
    BY <1>1, <1>2, <1>3, <1>4, StoreStep(a) DEF StoreStep

\* Beginning and end of a call keep the types.
LEMMA StoreCallType ==
  ASSUME StoreTypeOK, UNCHANGED <<now, dirVars>>, NEW a \in Agents,
         StoreGone(a) \/ \E t \in Time : StoreBegin(a, t)
  PROVE  StoreTypeOK'
PROOF
  <1>1. CASE StoreGone(a)
    BY <1>1, IdleCallType DEF StoreGone, StoreTypeOK, dirVars
  <1>2. ASSUME NEW t \in Time, StoreBegin(a, t)
        PROVE  StoreTypeOK'
    <2>1. [kind |-> a, time |-> t] \in Record
      BY DEF Record
    <2>2. QED
      BY <1>2, <2>1 DEF StoreBegin, StoreTypeOK, dirVars
  <1>3. QED
    BY <1>1, <1>2

\* The clock keeps the types.
LEMMA TickType ==
  ASSUME StoreTypeOK, Tick
  PROVE  StoreTypeOK'
PROOF
  BY StoreAssumption DEF StoreTypeOK, Tick, Time, dirVars, callVars

-----------------------------------------------------------------------------
\* Files have different names; the file an agent has created and not left
\* yet is there, is whole when Store has returned nil, and is the file of no
\* other agent.
OneFilePerName == \A f, g \in files : f.name = g.name => f = g

Created(a) == pc[a] = "write" \/ (pc[a] = "ok" /\ place = "dir")

OwnFile ==
  \A a \in Agents : Created(a) =>
    [name |-> target[a], rec |-> rec[a], whole |-> pc[a] = "ok"] \in files

OwnName ==
  \A a, b \in Agents :
    Created(a) /\ Created(b) /\ target[a] = target[b] => a = b

StoreInv == StoreTypeOK /\ OneFilePerName /\ OwnFile /\ OwnName

\* StoreInv holds at the start and every step of the store keeps it.
LEMMA StoreInvInit == StoreInit => StoreInv
PROOF
  BY IdleCallType DEF StoreInit, StoreInv, StoreTypeOK, OneFilePerName, OwnFile,
     OwnName, Created

LEMMA StoreTypeNext ==
  ASSUME StoreTypeOK, [StoreNext]_storeVars
  PROVE  StoreTypeOK'
PROOF
  <1>1. CASE Tick
    BY <1>1, TickType
  <1>2. ASSUME NEW a \in Agents, NEW t \in 0 .. now, StoreBegin(a, t)
        PROVE  StoreTypeOK'
    <2>1. t \in Time
      BY StoreAssumption DEF StoreTypeOK, Time
    <2>2. UNCHANGED <<now, dirVars>>
      BY <1>2 DEF StoreBegin, dirVars
    <2>3. QED
      BY <1>2, <2>1, <2>2, StoreCallType
  <1>3. ASSUME NEW a \in Agents, StoreStep(a)
        PROVE  StoreTypeOK'
    BY <1>3, StoreStepType
  <1>4. ASSUME NEW a \in Agents, StoreEnd(a)
        PROVE  StoreTypeOK'
    BY <1>4, StoreCallType DEF StoreEnd
  <1>5. CASE UNCHANGED storeVars
    BY <1>5 DEF storeVars, dirVars, callVars, StoreTypeOK
  <1>6. QED
    BY <1>1, <1>2, <1>3, <1>4, <1>5 DEF StoreNext

LEMMA StoreInvNext ==
  ASSUME StoreInv, [StoreNext]_storeVars
  PROVE  StoreInv'
PROOF
  <1> USE DEF StoreInv
  <1>1. StoreTypeOK'
    BY StoreTypeNext
  <1>2. ASSUME NEW a \in Agents, StoreCreate(a)
        PROVE  (OneFilePerName /\ OwnFile /\ OwnName)'
    <2>1. PICK n \in Name :
            /\ n \notin Names
            /\ files' = {f \in files : f.name # n}
                          \cup {[name |-> n, rec |-> rec[a], whole |-> FALSE]}
            /\ target' = [target EXCEPT ![a] = n]
      BY <1>2 DEF StoreCreate, DrawName
    <2>2. /\ pc' = [pc EXCEPT ![a] = "write"] /\ pc[a] = "create"
          /\ UNCHANGED <<place, rec>>
      BY <1>2 DEF StoreCreate
    <2>3. OneFilePerName'
      <3> DEFINE new == [name |-> n, rec |-> rec[a], whole |-> FALSE]
      <3>1. new.name = n
        OBVIOUS
      <3>2. files' = {f \in files : f.name # n} \cup {new}
        BY <2>1
      <3> HIDE DEF new
      <3>3. QED
        BY <3>1, <3>2 DEF OneFilePerName
    <2>4. \A b \in Agents : Created(b) => b # a /\ target[b] # n
      <3>1. ~Created(a)
        BY <2>2 DEF Created
      <3>2. ASSUME NEW b \in Agents, Created(b)
            PROVE  target[b] \in Names
        <4> DEFINE own == [name |-> target[b], rec |-> rec[b], whole |-> pc[b] = "ok"]
        <4>1. own \in files /\ own.name = target[b]
          BY <3>2 DEF OwnFile
        <4> HIDE DEF own
        <4>2. QED
          BY <4>1 DEF Names
      <3>3. QED
        BY <2>1, <3>1, <3>2
    <2>5. \A b \in Agents : Created(b)' <=> b = a \/ Created(b)
      BY <1>1, <2>2 DEF Created, StoreTypeOK
    <2>6. OwnFile'
      BY <1>1, <2>1, <2>2, <2>4, <2>5 DEF OwnFile, StoreTypeOK
    <2>7. OwnName'
      BY <2>1, <2>4, <2>5 DEF OwnName, StoreTypeOK
    <2>8. QED
      BY <2>3, <2>6, <2>7
  <1>3. ASSUME NEW a \in Agents, StoreWrite(a)
        PROVE  (OneFilePerName /\ OwnFile /\ OwnName)'
    <2>1. /\ pc[a] = "write" /\ pc' = [pc EXCEPT ![a] = "ok"]
          /\ UNCHANGED <<place, rec, target>>
          /\ files' = {f \in files : f.name # target[a]}
                \cup {[name |-> target[a], rec |-> rec[a], whole |-> TRUE]}
      BY <1>3 DEF StoreWrite
    <2>2. \A b \in Agents : Created(b)' => Created(b)
      BY <2>1 DEF Created, StoreTypeOK
    <2>3. OneFilePerName'
      <3> DEFINE new == [name |-> target[a], rec |-> rec[a], whole |-> TRUE]
      <3>1. new.name = target[a]
        OBVIOUS
      <3>2. files' = {f \in files : f.name # target[a]} \cup {new}
        BY <2>1
      <3> HIDE DEF new
      <3>3. QED
        BY <3>1, <3>2 DEF OneFilePerName
    <2>4. OwnName'
      BY <2>1, <2>2 DEF OwnName
    <2>5. ASSUME NEW b \in Agents, Created(b)', b # a
          PROVE  [name |-> target[b], rec |-> rec[b], whole |-> pc[b] = "ok"]
                   \in files'
      BY <2>1, <2>2, <2>5 DEF OwnFile, OwnName, Created
    <2>6. OwnFile'
      BY <2>1, <2>5 DEF OwnFile, StoreTypeOK
    <2>7. QED
      BY <2>3, <2>4, <2>6
  <1>4. ASSUME /\ UNCHANGED <<files, place>>
               /\ \A b \in Agents : Created(b)' =>
                    /\ Created(b) /\ pc'[b] = pc[b]
                    /\ target'[b] = target[b] /\ rec'[b] = rec[b]
        PROVE  (OneFilePerName /\ OwnFile /\ OwnName)'
    BY <1>4 DEF OneFilePerName, OwnFile, OwnName
  <1>5. CASE Tick \/ UNCHANGED storeVars
    BY <1>1, <1>4, <1>5 DEF Tick, storeVars, dirVars, callVars, Created
  <1>6. ASSUME NEW a \in Agents,
               StoreStat(a) \/ StoreFail(a) \/ StoreEnd(a)
                 \/ \E t \in 0 .. now : StoreBegin(a, t)
        PROVE  (OneFilePerName /\ OwnFile /\ OwnName)'
    <2>1. UNCHANGED <<files, place>>
      BY <1>6 DEF StoreStat, StoreFail, StoreEnd, StoreBegin, dirVars
    <2>2. ~Created(a)'
      BY <1>6, <2>1, StoreAssumption
      DEF StoreStat, StoreFail, StoreEnd, StoreGone, StoreBegin, Created, StoreTypeOK
    <2>3. ASSUME NEW b \in Agents, b # a
          PROVE  pc'[b] = pc[b] /\ target'[b] = target[b] /\ rec'[b] = rec[b]
      BY <1>6, <2>3
      DEF StoreStat, StoreFail, StoreEnd, StoreGone, StoreBegin, StoreTypeOK, dirVars
    <2>4. QED
      BY <1>4, <2>1, <2>2, <2>3 DEF Created
  <1>7. QED
    BY <1>1, <1>2, <1>3, <1>5, <1>6 DEF StoreNext, StoreStep

\* The types of the store (file.go:40-65).
THEOREM StoreTypeCorrect == StoreSpec => []StoreTypeOK
PROOF
  <1>1. StoreInit => StoreTypeOK
    BY StoreInvInit DEF StoreInv
  <1>2. StoreTypeOK /\ [StoreNext]_storeVars => StoreTypeOK'
    BY StoreTypeNext
  <1>3. QED
    BY <1>1, <1>2, PTL DEF StoreSpec

LEMMA StoreInvariant == StoreSpec => []StoreInv
PROOF
  <1>1. StoreInv /\ [StoreNext]_storeVars => StoreInv'
    BY StoreInvNext
  <1>2. QED
    BY <1>1, StoreInvInit, PTL DEF StoreSpec

-----------------------------------------------------------------------------
\* A Store that returned nil into a directory has its record there, whole,
\* however many agents store at once (file.go:52-64).
THEOREM StoreOkIsStored == StoreSpec => []OkMeansStored
PROOF
  <1>1. StoreInv => OkMeansStored
    BY DEF StoreInv, OwnFile, Created, OkMeansStored
  <1>2. QED
    BY <1>1, StoreInvariant, PTL

\* A record that is whole in the directory stays there as it is, whatever
\* the agents do (file.go:49-60).
THEOREM StoredRecordsAreKept == StoreSpec => StoredRecordsKept
PROOF
  <1> DEFINE Kept == \A f \in files : f.whole => f \in files'
  <1>1. ASSUME StoreInv, [StoreNext]_storeVars
        PROVE  [Kept]_files
    <2>1. ASSUME NEW a \in Agents, StoreCreate(a)
          PROVE  Kept
      BY <2>1 DEF StoreCreate, DrawName, Names
    <2>2. ASSUME NEW a \in Agents, StoreWrite(a)
          PROVE  Kept
      <3>1. [name |-> target[a], rec |-> rec[a], whole |-> FALSE] \in files
        BY <1>1, <2>2 DEF StoreWrite, StoreInv, OwnFile, Created
      <3>2. \A f \in files : f.whole => f.name # target[a]
        BY <1>1, <3>1 DEF StoreInv, OneFilePerName
      <3>3. QED
        BY <2>2, <3>2 DEF StoreWrite
    <2>3. QED
      BY <1>1, <2>1, <2>2
      DEF StoreNext, StoreStep, Tick, StoreBegin, StoreStat, StoreFail, StoreEnd,
          storeVars, dirVars
  <1>2. QED
    BY <1>1, StoreInvariant, PTL DEF StoreSpec, StoredRecordsKept

=============================================================================
