------------------------ MODULE FileContract_proofs ------------------------
(***************************************************************************)
(* The file storage keeps the contract of EzStorageContract, for any       *)
(* values, indexes, kinds of call and number of deaths: what run           *)
(* `file_storage` checks on a small instance.                              *)
(***************************************************************************)
EXTENDS FileStorage_proofs

Disks == [meta : Cell, logs : [Index -> Cell], snap : Cell]

\* What a path held when the call began.
Old(p) == CASE p = MetaPath     -> before.meta
            [] p = SnapshotPath -> before.snap
            [] OTHER            -> before.logs[p[2]]

\* What is read now, whoever died.  Within a call a path has what it held or
\* what the call may leave; a deletion has deleted before it returns; nothing
\* is stored under a directory that may go.
HoldsInv == call # NoOp => \A p \in ReadPath : content[p] \in {Old(p)} \cup MayLeave(call, p)
GoneInv == call \in Deletes /\ pc = "return" => \A i \in Deleted(call) : content[LogPath(i)] = NoFile
BareInv == pc \in Opening => \A p \in ReadPath : ~Durable(Depth(p)) => content[p] = NoFile

ReadsInv == before \in Disks /\ HoldsInv /\ GoneInv /\ BareInv

\* What a power loss may bring back, as long as no process has died since the
\* last.  Between calls nothing is unsettled; a deletion is unsettled only in
\* the names it took away, until it flushes them.
QuietInv == call = NoOp => \A p \in ReadPath : Remains(p) = {content[p]}
BusyInv == call # NoOp => \A p \in ReadPath : Remains(p) \subseteq {Old(p)} \cup MayLeave(call, p)
NamesInv == call \in Deletes =>
  \A p \in ReadPath :
     /\ bytes[p] = {content[p]}
     /\ ~deleted \/ pc = "return" \/ p \notin LogsDir => names[p] \subseteq {content[p]}

FlushInv == QuietInv /\ BusyInv /\ NamesInv

ContractInv == ReadsInv /\ (deaths = 0 => FlushInv)

-----------------------------------------------------------------------------
(* What load and read_logs make of the files.                              *)

ViewOf(c) == [meta |-> c[MetaPath], logs |-> [i \in Index |-> c[LogPath(i)]], snap |-> c[SnapshotPath]]

LEMMA ViewIsDisk ==
  ASSUME NEW c \in [Path -> Cell]
  PROVE  ViewOf(c) \in Disks
  <1>1. MetaPath \in Path /\ SnapshotPath \in Path /\ \A i \in Index : LogPath(i) \in Path
    BY PathFacts DEF ReadPath
  <1> QED BY <1>1 DEF ViewOf, Disks

LEMMA OldFacts ==
  /\ Old(MetaPath) = before.meta /\ Old(SnapshotPath) = before.snap
  /\ \A i \in Index : Old(LogPath(i)) = before.logs[i]
  <1>1. \A i \in Index : LogPath(i)[2] = i
    BY DEF LogPath
  <1> QED BY <1>1, PathFacts DEF Old

-----------------------------------------------------------------------------
(* A call's outcomes are the contract's.                                   *)

\* What the call leaves where it may, and elsewhere what there was.
LEMMA EachPath ==
  ASSUME NEW op \in Writes \cup Deletes
  PROVE  /\ op \in Writes => \A p \in Path : p # Target(op) => MayLeave(op, p) = {}
         /\ op \in Deletes => /\ \A p \in Path : p \notin LogsDir => MayLeave(op, p) = {}
                              /\ \A i \in Index : MayLeave(op, LogPath(i)) = IF i \in Deleted(op) THEN {NoFile} ELSE {}
  <1>1. CASE op \in Writes
    BY <1>1, WriteFacts, DeleteFacts DEF MayLeave
  <1>2. CASE op \in Deletes
    <2>1. op.kind = "DeleteLogs" /\ op \notin Writes /\ \A i \in Deleted(op) : i \in Index
      BY <1>2, DeleteFacts, WriteFacts
    <2>2. \A p : MayLeave(op, p) = IF \E i \in Deleted(op) : p = LogPath(i) THEN {NoFile} ELSE {}
      BY <2>1 DEF MayLeave
    <2>3. \A i \in Index : LogPath(i) \in LogsDir
      BY PathFacts
    <2>4. \A i, j \in Index : LogPath(i) = LogPath(j) => i = j
      BY PathFacts
    <2>5. \A p \in Path : p \notin LogsDir => MayLeave(op, p) = {}
      BY <2>1, <2>2, <2>3
    <2>6. \A i \in Index : MayLeave(op, LogPath(i)) = IF i \in Deleted(op) THEN {NoFile} ELSE {}
      BY <2>1, <2>2, <2>4
    <2> QED BY <2>1, <2>5, <2>6
  <1> QED BY <1>1, <1>2

LEMMA WriteKinds ==
  ASSUME NEW op \in Writes
  PROVE  \/ op.kind = "Meta" /\ Target(op) = MetaPath /\ NewContent(op) = op.meta
            /\ MayLeave(op, MetaPath) = {op.meta}
         \/ op.kind = "Snapshot" /\ Target(op) = SnapshotPath /\ NewContent(op) = op.snap
            /\ MayLeave(op, SnapshotPath) = {op.snap}
         \/ op.kind = "LogEntry" /\ op.index \in Index /\ Target(op) = LogPath(op.index)
            /\ NewContent(op) = op.entry /\ MayLeave(op, LogPath(op.index)) = {Torn, op.entry}
  <1>1. CASE op.kind = "Meta"
    BY <1>1 DEF Target, NewContent, MayLeave
  <1>2. CASE op.kind = "Snapshot"
    BY <1>2 DEF Target, NewContent, MayLeave
  <1>3. CASE op.kind = "LogEntry"
    <2>1. op.index \in Index
      BY <1>3 DEF Writes, MetaOp, SnapshotOp, LogEntryOp
    <2> QED BY <1>3, <2>1 DEF Target, NewContent, MayLeave
  <1> QED BY <1>1, <1>2, <1>3, WriteFacts

\* A write that completed.
LEMMA WriteResult ==
  ASSUME before \in Disks, call \in Writes, NEW c \in [Path -> Cell],
         c[Target(call)] = NewContent(call),
         \A p \in ReadPath : p # Target(call) => c[p] = Old(p)
  PROVE  ViewOf(c) = Contract!Apply(before, call)
  <1>0. MetaPath \in ReadPath /\ SnapshotPath \in ReadPath /\ \A i \in Index : LogPath(i) \in ReadPath
    BY PathFacts DEF ReadPath
  <1>1. before.logs \in [Index -> Cell]
    BY DEF Disks
  <1>2. CASE call.kind = "Meta" /\ Target(call) = MetaPath /\ NewContent(call) = call.meta
    <2>1. c[MetaPath] = call.meta /\ c[SnapshotPath] = before.snap /\ \A i \in Index : c[LogPath(i)] = before.logs[i]
      BY <1>0, <1>2, OldFacts, PathFacts
    <2>2. [i \in Index |-> c[LogPath(i)]] = before.logs
      BY <1>1, <2>1
    <2> QED BY <1>2, <2>1, <2>2 DEF ViewOf, Contract!Apply, Contract!WithMeta
  <1>3. CASE call.kind = "Snapshot" /\ Target(call) = SnapshotPath /\ NewContent(call) = call.snap
    <2>1. c[SnapshotPath] = call.snap /\ c[MetaPath] = before.meta /\ \A i \in Index : c[LogPath(i)] = before.logs[i]
      BY <1>0, <1>3, OldFacts, PathFacts
    <2>2. [i \in Index |-> c[LogPath(i)]] = before.logs
      BY <1>1, <2>1
    <2> QED BY <1>3, <2>1, <2>2 DEF ViewOf, Contract!Apply, Contract!WithSnap
  <1>4. CASE call.kind = "LogEntry" /\ call.index \in Index /\ Target(call) = LogPath(call.index) /\ NewContent(call) = call.entry
    <2>1. /\ c[SnapshotPath] = before.snap /\ c[MetaPath] = before.meta /\ c[LogPath(call.index)] = call.entry
          /\ \A i \in Index : i # call.index => c[LogPath(i)] = before.logs[i]
      BY <1>0, <1>4, OldFacts, PathFacts
    <2>2. [i \in Index |-> c[LogPath(i)]] = [before.logs EXCEPT ![call.index] = call.entry]
      BY <1>1, <1>4, <2>1
    <2> QED BY <1>4, <2>1, <2>2 DEF ViewOf, Contract!Apply, Contract!WithLogs, Contract!Put
  <1> QED BY <1>2, <1>3, <1>4, WriteKinds

\* A deletion, of which the files in `gone` went.
LEMMA DeleteResult ==
  ASSUME before \in Disks, NEW c \in [Path -> Cell], NEW gone,
         c[MetaPath] = before.meta, c[SnapshotPath] = before.snap,
         \A i \in Index : c[LogPath(i)] = IF i \in gone THEN NoFile ELSE before.logs[i]
  PROVE  ViewOf(c) = Contract!WithLogs(before, Contract!Without(before.logs, gone))
  <1>1. [i \in Index |-> c[LogPath(i)]] = [i \in Index |-> IF i \in gone THEN NoFile ELSE before.logs[i]]
    OBVIOUS
  <1> QED BY <1>1 DEF ViewOf, Contract!WithLogs, Contract!Without, Contract!Index, Contract!Absent, Index, NoFile, Absent

\* What a power loss makes of a call under way.
LEMMA CutShort ==
  ASSUME before \in Disks, call \in Writes \cup Deletes, NEW c \in [Path -> Cell],
         \A p \in ReadPath : c[p] \in {Old(p)} \cup MayLeave(call, p)
  PROVE  ViewOf(c) \in Contract!Interrupted(before, call)
  <1>0. MetaPath \in ReadPath /\ SnapshotPath \in ReadPath /\ \A i \in Index : LogPath(i) \in ReadPath
    BY PathFacts DEF ReadPath
  <1>00. ReadPath \subseteq Path
    BY PathFacts
  <1>1. CASE call \in Writes
    <2>1. Target(call) \in ReadPath /\ \A p \in ReadPath : p # Target(call) => c[p] = Old(p)
      BY <1>1, <1>00, EachPath, WriteFacts
    <2>2. CASE c[Target(call)] = NewContent(call)
      <3>1. ViewOf(c) = Contract!Apply(before, call)
        BY <1>1, <2>1, <2>2, WriteResult
      <3>2. call.kind # "DeleteLogs"
        BY <1>1, WriteFacts
      <3> QED BY <3>1, <3>2 DEF Contract!Interrupted
    <2>3. CASE c[Target(call)] = Old(Target(call))
      <3>1. c[MetaPath] = before.meta /\ c[SnapshotPath] = before.snap /\ \A i \in Index : c[LogPath(i)] = before.logs[i]
        BY <1>0, <2>1, <2>3, OldFacts
      <3>2. ViewOf(c) = before
        <4>1. before.logs \in [Index -> Cell] /\ before = [meta |-> before.meta, logs |-> before.logs, snap |-> before.snap]
          BY DEF Disks
        <4>2. [i \in Index |-> c[LogPath(i)]] = before.logs
          BY <3>1, <4>1
        <4> QED BY <3>1, <4>1, <4>2 DEF ViewOf
      <3>3. call.kind # "DeleteLogs"
        BY <1>1, WriteFacts
      <3> QED BY <3>2, <3>3 DEF Contract!Interrupted
    <2>4. CASE /\ call.kind = "LogEntry" /\ call.index \in Index /\ Target(call) = LogPath(call.index)
               /\ c[Target(call)] = Torn
      <3>1. /\ c[SnapshotPath] = before.snap /\ c[MetaPath] = before.meta /\ c[LogPath(call.index)] = Torn
            /\ \A i \in Index : i # call.index => c[LogPath(i)] = before.logs[i]
        BY <1>0, <2>1, <2>4, OldFacts, PathFacts
      <3>2. [i \in Index |-> c[LogPath(i)]] = [before.logs EXCEPT ![call.index] = Torn]
        <4>1. before.logs \in [Index -> Cell]
          BY DEF Disks
        <4> QED BY <2>4, <3>1, <4>1
      <3>3. ViewOf(c) = Contract!WithLogs(before, Contract!Put(before.logs, call.index, Contract!Torn))
        BY <3>1, <3>2 DEF ViewOf, Contract!WithLogs, Contract!Put, Contract!Torn, Torn
      <3> QED BY <2>4, <3>3 DEF Contract!Interrupted
    <2> QED BY <1>1, <2>1, <2>2, <2>3, <2>4, WriteKinds
  <1>2. CASE call \in Deletes
    <2> DEFINE gone == {i \in Deleted(call) : before.logs[i] # NoFile /\ c[LogPath(i)] = NoFile}
    <2>1. c[MetaPath] = before.meta /\ c[SnapshotPath] = before.snap
      BY <1>0, <1>00, <1>2, EachPath, OldFacts, PathFacts
    <2>2. \A i \in Index : c[LogPath(i)] = IF i \in gone THEN NoFile ELSE before.logs[i]
      BY <1>0, <1>2, EachPath, OldFacts
    <2>3. gone \in SUBSET {i \in Contract!Deleted(call) : before.logs[i] # Contract!Absent}
      BY DEF Deleted, Contract!Deleted, Contract!Absent, Absent, NoFile, Contract!Index, Index
    <2>4. ViewOf(c) = Contract!WithLogs(before, Contract!Without(before.logs, gone))
      <3> HIDE DEF gone
      <3> QED BY <2>1, <2>2, DeleteResult
    <2>5. call.kind = "DeleteLogs"
      BY <1>2, DeleteFacts
    <2> HIDE DEF gone
    <2> QED BY <2>3, <2>4, <2>5 DEF Contract!Interrupted
  <1> QED BY <1>1, <1>2
-----------------------------------------------------------------------------
(* The invariant is kept.                                                  *)

LEMMA ViewNow == View = ViewOf(content) /\ View' = ViewOf(content')
  BY DEF View, ViewOf

\* A call is made when every directory is durable.
LEMMA AllDurable ==
  ASSUME IInv, Lasting
  PROVE  pc \notin Opening => \A p \in ReadPath : Durable(Depth(p))
  <1> SUFFICES ASSUME pc \notin Opening, NEW p \in ReadPath PROVE Durable(Depth(p))
    OBVIOUS
  <1>1. kept = 1 .. Logs
    BY DEF IInv, LastingInv, DirInv, Opening
  <1>2. Depth(p) \in {Base, Logs}
    BY PathFacts, DepthFacts
  <1> QED BY <1>1, <1>2 DEF Durable, Dirs, Shared, Base, Logs

LEMMA ContractInit == Init => ContractInv
  <1> SUFFICES ASSUME Init PROVE ContractInv
    OBVIOUS
  <1>1. Types /\ ReadPath \subseteq Path
    BY InitInv, PathFacts DEF IInv
  <1>2. before \in Disks
    BY <1>1, ViewIsDisk, ViewNow DEF Init, Types
  <1>3. QuietInv /\ BareInv
    BY <1>1 DEF Init, QuietInv, BareInv, Remains
  <1>4. HoldsInv /\ GoneInv /\ BusyInv /\ NamesInv
    BY NoOpFacts DEF Init, HoldsInv, GoneInv, BusyInv, NamesInv
  <1> QED BY <1>2, <1>3, <1>4 DEF ContractInv, ReadsInv, FlushInv

LEMMA OpenReads ==
  ASSUME IInv, ReadsInv, FindMissing \/ MakeDir \/ FlushParent
  PROVE  ReadsInv' /\ call = NoOp /\ call' = NoOp /\ View' = View /\ deaths' = deaths
  <1>1. Untouched /\ kept \subseteq kept'
    BY OpenTouches
  <1>2. call = NoOp /\ call' = NoOp /\ View' = View /\ before' = before /\ deaths' = deaths
    BY <1>1, ViewNow DEF Untouched, ghostVars
  <1>3. BareInv'
    <2>1. pc \in Opening
      BY DEF FindMissing, MakeDir, FlushParent, Opening
    <2>2. \A d : Durable(d) => Durable(d)'
      BY <1>1 DEF Durable
    <2> QED BY <1>1, <2>1, <2>2 DEF ReadsInv, BareInv, Untouched
  <1>4. HoldsInv' /\ GoneInv' /\ before' \in Disks
    BY <1>2, NoOpFacts DEF HoldsInv, GoneInv, ReadsInv
  <1> QED BY <1>2, <1>3, <1>4 DEF ReadsInv

LEMMA OpenFlush ==
  ASSUME IInv, FlushInv, FindMissing \/ MakeDir \/ FlushParent
  PROVE  FlushInv'
  <1>1. Untouched
    BY OpenTouches
  <1>2. QuietInv'
    <2> SUFFICES ASSUME NEW p \in ReadPath PROVE Remains(p)' = {content'[p]}
      BY DEF QuietInv
    <2>1. bytes'[p] # {} /\ p \in Path
      BY <1>1, PathFacts DEF Untouched, IInv, Types
    <2>2. Remains(p)' \subseteq {content'[p]}
      BY <1>1, <2>1 DEF Untouched, FlushInv, QuietInv
    <2> QED BY <2>1, <2>2 DEF Remains
  <1>3. BusyInv' /\ NamesInv'
    BY <1>1, NoOpFacts DEF Untouched, BusyInv, NamesInv
  <1> QED BY <1>2, <1>3 DEF FlushInv

LEMMA BeginReads ==
  ASSUME IInv, ReadsInv, Begins
  PROVE  /\ ReadsInv' /\ call = NoOp /\ call' \in Writes \cup Deletes /\ before' = View /\ deaths' = deaths
         /\ \A p \in ReadPath : Old(p)' = content[p]
         /\ pc' # "return" /\ deleted' = FALSE /\ UNCHANGED <<content, bytes, names>>
  <1>1. PICK op \in Writes \cup Deletes : PersistBegins(op)
    BY DEF Begins, Writes, Deletes
  <1>2. /\ pc = "idle" /\ call' = op /\ deleted' = FALSE /\ before' = View
        /\ UNCHANGED <<content, bytes, names, deaths>>
    BY <1>1 DEF PersistBegins, fsVars
  <1>3. call = NoOp
    BY <1>2, NoOpFacts DEF IInv, CallInv, Opening
  <1>4. before' \in Disks
    BY <1>2, ViewIsDisk, ViewNow DEF IInv, Types
  <1>5. \A p \in ReadPath : Old(p)' = content[p]
    <2>1. \A p \in ReadPath : p = MetaPath \/ p = SnapshotPath \/ \E i \in Index : p = LogPath(i)
      BY DEF ReadPath, LogsDir
    <2>2. Old(MetaPath)' = content[MetaPath] /\ Old(SnapshotPath)' = content[SnapshotPath]
      BY <1>2, PathFacts DEF Old, View
    <2>3. ASSUME NEW i \in Index PROVE Old(LogPath(i))' = content[LogPath(i)]
      <3>1. LogPath(i)[2] = i /\ LogPath(i) # MetaPath /\ LogPath(i) # SnapshotPath
        BY PathFacts DEF LogPath
      <3> QED BY <1>2, <3>1 DEF Old, View
    <2> QED BY <2>1, <2>2, <2>3
  <1>6. pc' \notin Opening \cup {"return"}
    BY <1>1, AfterFacts, DeleteFacts DEF PersistBegins, FirstStep, Opening
  <1>7. HoldsInv' /\ GoneInv' /\ BareInv'
    BY <1>2, <1>5, <1>6 DEF HoldsInv, GoneInv, BareInv
  <1> QED BY <1>2, <1>3, <1>4, <1>5, <1>6, <1>7 DEF ReadsInv

LEMMA BeginFlush ==
  ASSUME IInv, ReadsInv, FlushInv, Begins
  PROVE  FlushInv'
  <1>1. /\ call = NoOp /\ call' # NoOp /\ deleted' = FALSE /\ pc' # "return"
        /\ UNCHANGED <<content, bytes, names>> /\ \A p \in ReadPath : Old(p)' = content[p]
    BY BeginReads, NoOpFacts
  <1>2. ASSUME NEW p \in ReadPath
        PROVE  bytes[p] = {content[p]} /\ names[p] \subseteq {content[p]}
    <2>1. bytes[p] \cup names[p] = {content[p]} /\ bytes[p] # {}
      BY <1>1, PathFacts DEF FlushInv, QuietInv, Remains, IInv, Types
    <2> QED BY <2>1
  <1>3. BusyInv'
    <2> SUFFICES ASSUME NEW p \in ReadPath
                 PROVE  (Remains(p) \subseteq {Old(p)} \cup MayLeave(call, p))'
      BY DEF BusyInv
    <2>1. Remains(p)' = {content[p]}
      BY <1>1, <1>2 DEF Remains
    <2> QED BY <1>1, <2>1
  <1>4. NamesInv' /\ QuietInv'
    BY <1>1, <1>2 DEF NamesInv, QuietInv
  <1> QED BY <1>3, <1>4 DEF FlushInv

\* A step inside a call brings to a path only what the call may leave there.
Inside == \A p \in ReadPath : content'[p] \in {content[p]} \cup MayLeave(call, p)

LEMMA InsideKeeps ==
  ASSUME ReadsInv, call # NoOp, Inside, call' = call, before' = before
  PROVE  HoldsInv' /\ before' \in Disks
  <1>1. ASSUME NEW p \in ReadPath
        PROVE  (content[p] \in {Old(p)} \cup MayLeave(call, p))'
    <2>1. content[p] \in {Old(p)} \cup MayLeave(call, p)
      BY DEF ReadsInv, HoldsInv
    <2>2. Old(p)' = Old(p) /\ MayLeave(call, p)' = MayLeave(call, p)
      BY DEF Old
    <2> QED BY <2>1, <2>2 DEF Inside
  <1> QED BY <1>1 DEF HoldsInv, ReadsInv

LEMMA BusyKept ==
  ASSUME ReadsInv, FlushInv, call # NoOp, Spreads, call' = call, before' = before
  PROVE  BusyInv' /\ QuietInv'
  <1>1. ASSUME NEW p \in ReadPath
        PROVE  (Remains(p) \subseteq {Old(p)} \cup MayLeave(call, p))'
    <2>1. Remains(p)' \subseteq Around(p)
      BY DEF Spreads
    <2>2. Around(p) \subseteq {Old(p)} \cup MayLeave(call, p)
      BY DEF Around, ReadsInv, HoldsInv, FlushInv, BusyInv
    <2>3. Old(p)' = Old(p) /\ MayLeave(call, p)' = MayLeave(call, p)
      BY DEF Old
    <2> QED BY <2>1, <2>2, <2>3
  <1> QED BY <1>1 DEF BusyInv, QuietInv

LEMMA WriteInside ==
  ASSUME IInv, WriteStep
  PROVE  Inside
  <1> SUFFICES ASSUME NEW p \in ReadPath PROVE content'[p] \in {content[p]} \cup MayLeave(call, p)
    BY DEF Inside
  <1>1. /\ p \in Path /\ content \in [Path -> Cell] /\ call \in Writes
        /\ Written(call) \in Path /\ Target(call) \in Path
        /\ NewContent(call) \in MayLeave(call, Target(call))
        /\ Replaces(call) => Written(call) # p
        /\ ~Replaces(call) => Written(call) = Target(call) /\ Torn \in MayLeave(call, Target(call))
    BY WriteShape, WriteFacts, PathFacts DEF IInv, Types
  <1>2. CASE Step("syncdir")
    BY <1>2 DEF WriteStep, Step, SyncDir
  <1>3. CASE Step("create")
    <2>1. content' = [content EXCEPT ![Written(call)] = Torn]
      BY <1>3 DEF WriteStep, Step, Create
    <2> QED BY <1>1, <2>1
  <1>4. CASE Step("write")
    <2>1. content' = [content EXCEPT ![Written(call)] = NewContent(call)]
      BY <1>4 DEF WriteStep, Step, WriteAll
    <2> QED BY <1>1, <2>1
  <1>5. CASE Step("fsync")
    BY <1>5 DEF WriteStep, Step, SyncFile
  <1>6. CASE Step("rename")
    <2>1. content' = [content EXCEPT ![Target(call)] = content[Tmp(Target(call))], ![Tmp(Target(call))] = NoFile]
      BY <1>6 DEF WriteStep, Step, Rename
    <2>2. Replaces(call) /\ Tmp(Target(call)) = Written(call) /\ content[Written(call)] = NewContent(call)
      BY <1>6, WriteFacts, NoOpFacts DEF Step, IInv, CallInv, WriteInv, Opening
    <2> QED BY <1>1, <2>1, <2>2
  <1> QED BY <1>2, <1>3, <1>4, <1>5, <1>6 DEF WriteStep

LEMMA WriteReads ==
  ASSUME IInv, ReadsInv, WriteStep
  PROVE  ReadsInv' /\ call # NoOp /\ call' = call /\ before' = before /\ deaths' = deaths
  <1>1. call \in Writes /\ call' = call /\ before' = before /\ deaths' = deaths
    BY WriteShape DEF WriteStep, ghostVars
  <1>2. call # NoOp /\ call \notin Deletes
    BY <1>1, NoOpFacts, WriteFacts, DeleteFacts
  <1>3. HoldsInv' /\ before' \in Disks
    BY <1>1, <1>2, WriteInside, InsideKeeps
  <1>4. CallInv'
    BY WriteKeeps DEF IInv
  <1>5. GoneInv' /\ BareInv'
    BY <1>1, <1>2, <1>4 DEF CallInv, GoneInv, BareInv, Opening
  <1> QED BY <1>1, <1>2, <1>3, <1>5 DEF ReadsInv

LEMMA WriteFlush ==
  ASSUME IInv, ReadsInv, FlushInv, WriteStep
  PROVE  FlushInv'
  <1>1. call \in Writes /\ call # NoOp /\ call' = call /\ before' = before
    BY WriteShape, WriteReads
  <1>2. BusyInv' /\ QuietInv'
    BY <1>1, WriteKeeps, BusyKept
  <1>3. NamesInv'
    BY <1>1, WriteFacts, DeleteFacts DEF NamesInv
  <1> QED BY <1>2, <1>3 DEF FlushInv

LEMMA RemoveReads ==
  ASSUME IInv, ReadsInv, RemoveOne
  PROVE  ReadsInv' /\ call # NoOp /\ call' = call /\ before' = before /\ deaths' = deaths
  <1>1. pc = "unlink" /\ pc' = "unlink" /\ call' = call /\ before' = before /\ deaths' = deaths
    BY DEF RemoveOne, ghostVars
  <1>2. call \in Deletes /\ call # NoOp
    BY <1>1, NoOpFacts DEF IInv, CallInv, Opening
  <1>3. Inside
    <2>1. PICK i \in Listed : Unlink(LogPath(i))
      BY DEF RemoveOne
    <2>2. i \in Index /\ i \in Deleted(call)
      BY <1>2, <2>1, DeleteFacts DEF Listed
    <2> SUFFICES ASSUME NEW p \in ReadPath PROVE content'[p] \in {content[p]} \cup MayLeave(call, p)
      BY DEF Inside
    <2>3. p \in Path /\ content' = [content EXCEPT ![LogPath(i)] = NoFile] /\ content \in [Path -> Cell]
      BY <2>1, PathFacts DEF Unlink, IInv, Types
    <2>4. p = LogPath(i) => NoFile \in MayLeave(call, p)
      BY <1>2, <2>2, <2>3, MayLeaveFacts
    <2> QED BY <2>3, <2>4
  <1>4. HoldsInv' /\ before' \in Disks
    BY <1>1, <1>2, <1>3, InsideKeeps
  <1>5. GoneInv' /\ BareInv'
    BY <1>1 DEF GoneInv, BareInv, Opening
  <1> QED BY <1>1, <1>2, <1>4, <1>5 DEF ReadsInv

LEMMA RemoveFlush ==
  ASSUME IInv, ReadsInv, FlushInv, RemoveOne
  PROVE  FlushInv'
  <1>1. pc' = "unlink" /\ deleted' = TRUE /\ call' = call /\ before' = before /\ call # NoOp
    BY RemoveReads DEF RemoveOne
  <1>2. call \in Deletes
    BY NoOpFacts DEF RemoveOne, IInv, CallInv, Opening
  <1>3. BusyInv' /\ QuietInv'
    BY <1>1, RemoveKeeps, BusyKept
  <1>4. NamesInv'
    <2>1. PICK i \in Listed : Unlink(LogPath(i))
      BY DEF RemoveOne
    <2>2. LogPath(i) \in LogsDir
      BY <1>2, <2>1, DeleteFacts, PathFacts DEF Listed
    <2> SUFFICES ASSUME NEW p \in ReadPath
                 PROVE  bytes'[p] = {content'[p]} /\ (p \notin LogsDir => names'[p] \subseteq {content'[p]})
      BY <1>1 DEF NamesInv
    <2>3. p \in Path /\ bytes[p] = {content[p]} /\ (p \notin LogsDir => names[p] \subseteq {content[p]})
      BY <1>2, PathFacts DEF FlushInv, NamesInv
    <2>4. CASE p = LogPath(i)
      BY <2>1, <2>2, <2>3, <2>4 DEF Unlink, IInv, Types
    <2>5. CASE p # LogPath(i)
      BY <2>1, <2>3, <2>5 DEF Unlink, IInv, Types
    <2> QED BY <2>4, <2>5
  <1> QED BY <1>3, <1>4 DEF FlushInv

LEMMA RemoveEndsReads ==
  ASSUME IInv, ReadsInv, RemoveEnds
  PROVE  /\ ReadsInv' /\ call # NoOp /\ call' = call /\ before' = before /\ deaths' = deaths
         /\ content' = content
  <1>1. /\ pc = "unlink" /\ pc' = "return" /\ call' = call /\ before' = before /\ deaths' = deaths
        /\ Listed = {}
    BY DEF RemoveEnds, ghostVars
  <1>2. call \in Deletes /\ call # NoOp
    BY <1>1, NoOpFacts DEF IInv, CallInv, Opening
  <1>3. content' = content
    BY DEF RemoveEnds, SyncDir, fsVars
  <1>4. HoldsInv' /\ before' \in Disks
    BY <1>1, <1>2, <1>3, InsideKeeps DEF Inside
  <1>5. GoneInv' /\ BareInv'
    BY <1>1, <1>3 DEF GoneInv, BareInv, Opening, Listed
  <1> QED BY <1>1, <1>2, <1>3, <1>4, <1>5 DEF ReadsInv

LEMMA RemoveEndsFlush ==
  ASSUME IInv, ReadsInv, FlushInv, RemoveEnds
  PROVE  FlushInv'
  <1>1. pc' = "return" /\ call' = call /\ before' = before /\ call # NoOp /\ content' = content
    BY RemoveEndsReads DEF RemoveEnds
  <1>2. call \in Deletes
    BY NoOpFacts DEF RemoveEnds, IInv, CallInv, Opening
  <1>3. BusyInv' /\ QuietInv'
    BY <1>1, RemoveEndsKeeps, BusyKept
  <1>4. NamesInv'
    <2>1. \A p \in ReadPath : /\ p \in Path /\ bytes[p] = {content[p]}
                              /\ ~deleted \/ p \notin LogsDir => names[p] \subseteq {content[p]}
      BY <1>2, PathFacts DEF FlushInv, NamesInv
    <2>2. CASE deleted
      <3>1. SyncDir(Logs) /\ Types
        BY <2>2 DEF RemoveEnds, IInv
      <3>2. bytes' = bytes /\ \A p \in Path : names'[p] = IF Depth(p) = Logs THEN {} ELSE names[p]
        BY <3>1, SyncFacts
      <3> QED BY <1>1, <2>1, <3>2, DepthFacts DEF NamesInv
    <2>3. CASE ~deleted
      BY <1>1, <2>1, <2>3 DEF RemoveEnds, fsVars, NamesInv
    <2> QED BY <2>2, <2>3
  <1> QED BY <1>3, <1>4 DEF FlushInv

LEMMA ReturnReads ==
  ASSUME IInv, ReadsInv, PersistReturns
  PROVE  ReadsInv' /\ call # NoOp /\ call' = NoOp /\ View' = Contract!Apply(before, call) /\ deaths' = deaths
  <1>1. /\ pc = "return" /\ call' = NoOp /\ pc' = "idle" /\ before' = View
        /\ UNCHANGED <<content, deaths>>
    BY DEF PersistReturns, fsVars
  <1>2. call \in Writes \cup Deletes /\ call # NoOp
    BY <1>1, NoOpFacts DEF IInv, CallInv, Opening
  <1>3. \A p \in ReadPath : p \in Path /\ content[p] \in {Old(p)} \cup MayLeave(call, p)
    BY <1>2, PathFacts DEF ReadsInv, HoldsInv
  <1>4. content \in [Path -> Cell] /\ before \in Disks
    BY DEF IInv, Types, ReadsInv
  <1>5. MetaPath \in ReadPath /\ SnapshotPath \in ReadPath /\ \A i \in Index : LogPath(i) \in ReadPath
    BY PathFacts DEF ReadPath
  <1>6. ASSUME call \in Writes
        PROVE  View = Contract!Apply(before, call)
    <2>1. content[Target(call)] = NewContent(call)
      BY <1>1, <1>6 DEF IInv, WriteInv
    <2>2. \A p \in ReadPath : p # Target(call) => content[p] = Old(p)
      BY <1>3, <1>6, EachPath
    <2> QED BY <1>4, <1>6, <2>1, <2>2, WriteResult, ViewNow
  <1>7. ASSUME call \in Deletes
        PROVE  View = Contract!Apply(before, call)
    <2>1. content[MetaPath] = before.meta /\ content[SnapshotPath] = before.snap
      BY <1>3, <1>5, <1>7, EachPath, OldFacts, PathFacts
    <2>2. \A i \in Index : content[LogPath(i)] = IF i \in Deleted(call) THEN NoFile ELSE before.logs[i]
      BY <1>1, <1>3, <1>5, <1>7, EachPath, OldFacts DEF ReadsInv, GoneInv
    <2>3. View = Contract!WithLogs(before, Contract!Without(before.logs, Deleted(call)))
      BY <1>4, <2>1, <2>2, DeleteResult, ViewNow
    <2>4. Contract!Deleted(call) = Deleted(call) /\ call.kind = "DeleteLogs"
      BY <1>7, DeleteFacts DEF Deleted, Contract!Deleted, Contract!Index, Index
    <2> QED BY <2>3, <2>4 DEF Contract!Apply
  <1>8. View' = View
    BY <1>1, ViewNow
  <1>9. ReadsInv'
    <2>1. before' \in Disks
      BY <1>1, <1>4, ViewIsDisk, ViewNow
    <2>2. HoldsInv' /\ GoneInv' /\ BareInv'
      BY <1>1, NoOpFacts DEF HoldsInv, GoneInv, BareInv, Opening
    <2> QED BY <2>1, <2>2 DEF ReadsInv
  <1> QED BY <1>1, <1>2, <1>6, <1>7, <1>8, <1>9

LEMMA ReturnFlush ==
  ASSUME IInv, ReadsInv, FlushInv, PersistReturns
  PROVE  FlushInv'
  <1>1. pc = "return" /\ call' = NoOp /\ UNCHANGED <<content, bytes, names>>
    BY DEF PersistReturns, fsVars
  <1>2. call \in Writes \cup Deletes /\ call # NoOp
    BY <1>1, NoOpFacts DEF IInv, CallInv, Opening
  <1>3. ASSUME NEW p \in ReadPath PROVE Remains(p) = {content[p]}
    <2>1. /\ p \in Path /\ bytes[p] # {} /\ content[p] \in {Old(p)} \cup MayLeave(call, p)
          /\ Remains(p) \subseteq {Old(p)} \cup MayLeave(call, p)
      BY <1>2, PathFacts DEF ReadsInv, HoldsInv, FlushInv, BusyInv, IInv, Types
    <2>2. CASE call \in Deletes
      BY <1>1, <2>2 DEF FlushInv, NamesInv, Remains
    <2>3. CASE call \in Writes /\ p = Target(call)
      BY <1>1, <2>3 DEF IInv, WriteInv
    <2>4. CASE call \in Writes /\ p # Target(call)
      <3>1. MayLeave(call, p) = {}
        BY <2>1, <2>4, EachPath
      <3> QED BY <2>1, <3>1 DEF Remains
    <2> QED BY <1>2, <2>2, <2>3, <2>4
  <1>4. QuietInv'
    BY <1>1, <1>3 DEF QuietInv, Remains
  <1>5. BusyInv' /\ NamesInv'
    BY <1>1, NoOpFacts DEF BusyInv, NamesInv
  <1> QED BY <1>4, <1>5 DEF FlushInv

\* A process that dies leaves what the kernel holds: an outcome of its call.
LEMMA DiesReads ==
  ASSUME IInv, ReadsInv, Lasting, ProcessDies
  PROVE  /\ ReadsInv' /\ call' = NoOp /\ deaths' # 0
         /\ call = NoOp => View' = View
         /\ call # NoOp => View' \in Contract!Interrupted(before, call)
  <1>1. /\ call' = NoOp /\ before' = View /\ deaths' = deaths + 1 /\ deaths \in Nat
        /\ UNCHANGED <<content, kept>>
    BY DEF ProcessDies, Reopened, fsVars, dirVars, IInv, Types
  <1>2. content \in [Path -> Cell] /\ View' = View
    BY <1>1, ViewNow DEF IInv, Types
  <1>3. before' \in Disks
    BY <1>1, <1>2, ViewIsDisk, ViewNow
  <1>4. HoldsInv' /\ GoneInv'
    BY <1>1, NoOpFacts DEF HoldsInv, GoneInv
  <1>5. BareInv'
    <2>1. \A p \in ReadPath : ~Durable(Depth(p)) => content[p] = NoFile
      BY AllDurable DEF ReadsInv, BareInv
    <2> QED BY <1>1, <2>1 DEF BareInv, Durable
  <1>6. ASSUME call # NoOp PROVE View \in Contract!Interrupted(before, call)
    <2>1. call \in Writes \cup Deletes
      BY <1>6 DEF IInv, CallInv
    <2>2. before \in Disks /\ \A p \in ReadPath : content[p] \in {Old(p)} \cup MayLeave(call, p)
      BY <1>6 DEF ReadsInv, HoldsInv
    <2> QED BY <1>2, <2>1, <2>2, CutShort, ViewNow
  <1> QED BY <1>1, <1>2, <1>3, <1>4, <1>5, <1>6 DEF ReadsInv

\* After a power loss everything read is settled, whatever was lost.
LEMMA PowerSettles ==
  ASSUME IInv, PowerLoss
  PROVE  ReadsInv' /\ FlushInv' /\ call' = NoOp /\ deaths' = 0
  <1>1. /\ call' = NoOp /\ before' = View' /\ deaths' = 0
        /\ bytes' = [p \in Path |-> {content'[p]}] /\ names' = [p \in Path |-> {}]
    BY DEF PowerLoss, Reopened
  <1>2. content' \in [Path -> Cell] /\ \A p \in ReadPath : ~Durable(Depth(p))' => content'[p] = NoFile
    BY PowerKeeps DEF IInv, Types
  <1>3. before' \in Disks
    BY <1>1, <1>2, ViewIsDisk, ViewNow
  <1>4. QuietInv'
    BY <1>1, PathFacts DEF QuietInv, Remains
  <1>5. HoldsInv' /\ GoneInv' /\ BareInv' /\ BusyInv' /\ NamesInv'
    BY <1>1, <1>2, NoOpFacts DEF HoldsInv, GoneInv, BareInv, BusyInv, NamesInv
  <1> QED BY <1>1, <1>3, <1>4, <1>5 DEF ReadsInv, FlushInv

LEMMA PowerContract ==
  ASSUME IInv, ReadsInv, FlushInv, Lasting, PowerLoss
  PROVE  /\ call = NoOp => View' = View
         /\ call # NoOp => View' \in Contract!Interrupted(before, call)
  <1>1. made' \in 0 .. made /\ made' + 1 \notin kept
    BY DEF PowerLoss
  <1>2. PICK back \in [Unsettled -> Cell] :
           /\ \A p \in Unsettled : back[p] \in Remains(p)
           /\ content' = [p \in Path |-> IF Depth(p) > made' THEN NoFile
                                        ELSE IF p \in Unsettled THEN back[p] ELSE content[p]]
    BY DEF PowerLoss, Cell
  <1>3. content' \in [Path -> Cell]
    BY PowerKeeps DEF IInv, Types
  <1>4. ReadPath \subseteq Path
    BY PathFacts
  <1>5. \A p \in ReadPath : Depth(p) <= made' \/ ~Durable(Depth(p))
    <2>1. made' \in 0 .. Logs
      BY <1>1 DEF IInv, DirInv, Logs
    <2>2. \A p \in ReadPath : Depth(p) \in {Base, Logs}
      BY <1>4, DepthFacts
    <2> SUFFICES ASSUME NEW p \in ReadPath, Depth(p) > made'
                 PROVE  ~Durable(Depth(p))
      BY <2>1, <2>2 DEF Base, Logs
    <2>3. made' + 1 \in Dirs /\ made' + 1 <= Depth(p)
      <3>1. \A d \in 0 .. 3, e \in {2, 3} : e > d => d + 1 \in {1, 2, 3} /\ d + 1 <= e
        OBVIOUS
      <3> QED BY <2>1, <2>2, <3>1 DEF Dirs, Shared, Base, Logs
    <2> QED BY <1>1, <2>3 DEF Durable
  <1>6. pc \notin Opening => \A p \in ReadPath : Durable(Depth(p))
    BY AllDurable
  <1>7. ASSUME call = NoOp PROVE View' = View
    <2>1. ASSUME NEW p \in ReadPath PROVE content'[p] = content[p]
      <3>1. p \in Path /\ p \notin Unsettled
        BY <1>4, <1>7 DEF FlushInv, QuietInv, Unsettled
      <3>2. CASE Durable(Depth(p))
        <4>1. ~(Depth(p) > made')
          <5>1. Depth(p) \in {Base, Logs} /\ made' \in 0 .. Logs
            BY <1>1, <3>1, DepthFacts DEF IInv, DirInv, Logs
          <5> QED BY <1>5, <3>2, <5>1 DEF Base, Logs
        <4> QED BY <1>2, <3>1, <4>1
      <3>3. CASE ~Durable(Depth(p))
        <4>1. content[p] = NoFile
          BY <1>6, <3>3 DEF ReadsInv, BareInv
        <4> QED BY <1>2, <3>1, <4>1
      <3> QED BY <3>2, <3>3
    <2>2. MetaPath \in ReadPath /\ SnapshotPath \in ReadPath /\ \A i \in Index : LogPath(i) \in ReadPath
      BY PathFacts DEF ReadPath
    <2> QED BY <2>1, <2>2, ViewNow DEF ViewOf
  <1>8. ASSUME call # NoOp PROVE View' \in Contract!Interrupted(before, call)
    <2>1. call \in Writes \cup Deletes /\ pc \notin Opening
      BY <1>8, NoOpFacts DEF IInv, CallInv, Opening
    <2>2. ASSUME NEW p \in ReadPath PROVE content'[p] \in {Old(p)} \cup MayLeave(call, p)
      <3>1. p \in Path /\ ~(Depth(p) > made')
        <4>1. p \in Path /\ Depth(p) \in {Base, Logs} /\ made' \in 0 .. Logs
          BY <1>1, <1>4, DepthFacts DEF IInv, DirInv, Logs
        <4> QED BY <1>5, <1>6, <2>1, <4>1 DEF Base, Logs
      <3>2. content'[p] \in {content[p]} \cup Remains(p)
        BY <1>2, <3>1
      <3> QED BY <1>8, <3>2 DEF ReadsInv, HoldsInv, FlushInv, BusyInv
    <2>3. before \in Disks
      BY DEF ReadsInv
    <2> QED BY <1>3, <2>1, <2>2, <2>3, CutShort, ViewNow
  <1> QED BY <1>7, <1>8

-----------------------------------------------------------------------------
(* The refinement.                                                         *)

LEMMA SameOps == Contract!NoOp = NoOp /\ Contract!PersistOps = Writes \cup Deletes
  BY DEF Contract!NoOp, NoOp, Contract!PersistOps, Writes, Deletes, Contract!MetaOp, MetaOp, Contract!SnapshotOp,
         SnapshotOp, Contract!LogEntryOp, LogEntryOp, Contract!DeleteLogsOp, DeleteLogsOp, Contract!Index, Index

LEMMA InitRefines == Init => Contract!Init
  <1>1. Init => View = Contract!EmptyDisk
    <2>1. MetaPath \in Path /\ SnapshotPath \in Path /\ \A i \in Index : LogPath(i) \in Path
      BY PathFacts DEF ReadPath
    <2> QED BY <2>1 DEF Init, View, Contract!EmptyDisk, Contract!Index, Index, Contract!Absent, Absent, NoFile
  <1> QED BY <1>1, SameOps DEF Init, Contract!Init, Disk

LEMMA StepRefines ==
  ASSUME Lasting, IInv, ContractInv, [Next]_vars
  PROVE  ContractInv' /\ [LosesUnread \/ Contract!Next]_<<Disk, call>>
  <1>0. ReadsInv /\ (deaths = 0 => FlushInv)
    BY DEF ContractInv
  <1>1. CASE FindMissing \/ MakeDir \/ FlushParent
    BY <1>0, <1>1, OpenReads, OpenFlush DEF ContractInv, Disk
  <1>2. CASE Begins
    <2>1. /\ ReadsInv' /\ call = NoOp /\ call' \in Writes \cup Deletes /\ before' = View /\ deaths' = deaths
          /\ deaths = 0 => FlushInv'
      BY <1>0, <1>2, BeginReads, BeginFlush
    <2>2. Disk' = Disk
      BY <2>1, NoOpFacts DEF Disk
    <2> QED BY <2>1, <2>2, SameOps DEF Contract!Next, Contract!Begin, ContractInv
  <1>3. CASE WriteStep \/ RemoveOne \/ RemoveEnds
    <2>1. ReadsInv' /\ call # NoOp /\ call' = call /\ before' = before /\ deaths' = deaths
      BY <1>0, <1>3, WriteReads, RemoveReads, RemoveEndsReads
    <2>2. deaths = 0 => FlushInv'
      BY <1>0, <1>3, WriteFlush, RemoveFlush, RemoveEndsFlush
    <2> QED BY <2>1, <2>2 DEF ContractInv, Disk
  <1>4. CASE PersistReturns
    <2>1. ReadsInv' /\ call # NoOp /\ call' = NoOp /\ View' = Contract!Apply(before, call) /\ deaths' = deaths
      BY <1>0, <1>4, ReturnReads
    <2>2. deaths = 0 => FlushInv'
      BY <1>0, <1>4, ReturnFlush
    <2> QED BY <2>1, <2>2, SameOps DEF Contract!Next, Contract!Return, Disk, ContractInv
  <1>5. CASE ProcessDies
    <2>1. /\ ReadsInv' /\ call' = NoOp /\ deaths' # 0
          /\ call = NoOp => View' = View
          /\ call # NoOp => View' \in Contract!Interrupted(before, call)
      BY <1>0, <1>5, DiesReads
    <2> QED BY <2>1, SameOps DEF Contract!Next, Contract!Stop, Disk, ContractInv
  <1>6. CASE PowerLoss
    <2>1. ReadsInv' /\ FlushInv' /\ call' = NoOp /\ deaths' = 0
      BY <1>6, PowerSettles
    <2>2. CASE deaths # 0
      BY <2>1, <2>2 DEF ContractInv, LosesUnread
    <2>3. CASE deaths = 0
      <3>1. /\ call = NoOp => View' = View
            /\ call # NoOp => View' \in Contract!Interrupted(before, call)
        BY <1>0, <1>6, <2>3, PowerContract
      <3> QED BY <2>1, <3>1, SameOps DEF Contract!Next, Contract!Stop, Disk, ContractInv
    <2> QED BY <2>2, <2>3
  <1>7. CASE UNCHANGED vars
    <2>1. UNCHANGED <<made, kept, content, bytes, names, call, pc, deleted, before, deaths>>
      BY <1>7 DEF vars, dirVars, fsVars, ghostVars
    <2>2. View' = View
      BY <2>1, ViewNow
    <2>3. ReadsInv'
      BY <1>0, <2>1 DEF ReadsInv, HoldsInv, GoneInv, BareInv, Old, Durable
    <2>4. deaths = 0 => FlushInv'
      BY <1>0, <2>1 DEF FlushInv, QuietInv, BusyInv, NamesInv, Remains, Old
    <2> QED BY <2>1, <2>2, <2>3, <2>4 DEF ContractInv, Disk
  <1> QED BY <1>1, <1>2, <1>3, <1>4, <1>5, <1>6, <1>7 DEF Next

\* ImplementsContract for any instance in which every directory is made durable
\* before the node goes on: file_storage.rs keeps what storage/mod.rs asks of a
\* storage, directories that it makes included, through any number of deaths
\* and power losses.
THEOREM FileImplements ==
  ASSUME Lasting
  PROVE  Spec => ImplementsContract
  <1>1. IInv /\ ContractInv /\ [Next]_vars => ContractInv' /\ [LosesUnread \/ Contract!Next]_<<Disk, call>>
    BY StepRefines
  <1>2. Spec => [](IInv /\ ContractInv)
    BY Invariant, ContractInit, <1>1, PTL DEF Spec
  <1>3. Spec => Contract!Init /\ [][LosesUnread \/ Contract!Next]_<<Disk, call>>
    BY InitRefines, <1>1, <1>2, PTL DEF Spec
  <1> QED BY <1>3 DEF ImplementsContract

=============================================================================
