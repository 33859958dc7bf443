------------------------- MODULE FileStorage_proofs -------------------------
(***************************************************************************)
(* Theorems about the file storage, for any values, indexes, kinds of call *)
(* and number of deaths: the state keeps its shape, and what a write stored *)
(* before it returned is what every later power loss brings back.          *)
(***************************************************************************)
EXTENDS FileStorage, SequenceTheorems, TLAPS

-----------------------------------------------------------------------------
(* Paths and operations.                                                   *)

\* The files load and read_logs read: all but the temporary ones.
ReadPath == LogsDir \cup {MetaPath, SnapshotPath}

Writes == {MetaOp(v) : v \in Value} \cup {SnapshotOp(v) : v \in Value}
          \cup {LogEntryOp(i, v) : i \in Index, v \in Value}
Deletes == {DeleteLogsOp(from, to) : from \in Index, to \in 1 .. MaxIndex + 1}
Cell == Content \cup {NoFile}

LEMMA PathFacts ==
  /\ ReadPath \subseteq Path /\ Path = ReadPath \cup {Tmp(MetaPath), Tmp(SnapshotPath)}
  /\ \A i \in Index : LogPath(i) \in LogsDir /\ LogPath(i) # MetaPath /\ LogPath(i) # SnapshotPath
  /\ \A i, j \in Index : LogPath(i) = LogPath(j) => i = j
  /\ \A t \in {Tmp(MetaPath), Tmp(SnapshotPath)} : t \in Path /\ t \notin ReadPath
  /\ MetaPath # SnapshotPath /\ MetaPath \notin LogsDir /\ SnapshotPath \notin LogsDir
<1>1. /\ MetaPath[1] = "meta.json" /\ SnapshotPath[1] = "snapshot"
      /\ Len(MetaPath) = 1 /\ Len(SnapshotPath) = 1
  BY DEF MetaPath, SnapshotPath
<1> DEFINE Names == {"meta.json", "snapshot", ".tmp"}
<1>2. MetaPath \in Seq(Names) /\ SnapshotPath \in Seq(Names) /\ ".tmp" \in Names
  BY DEF MetaPath, SnapshotPath
<1>3. /\ Tmp(MetaPath)[1] = "meta.json" /\ Tmp(SnapshotPath)[1] = "snapshot"
      /\ Len(Tmp(MetaPath)) = 2 /\ Len(Tmp(SnapshotPath)) = 2
  <2> HIDE DEF Names
  <2>1. ASSUME NEW T, NEW s \in Seq(T), NEW e \in T, Len(s) = 1
        PROVE  Append(s, e)[1] = s[1] /\ Len(Append(s, e)) = 2
    <3>1. Len(Append(s, e)) = Len(s) + 1 /\ \A i \in 1 .. Len(s) : Append(s, e)[i] = s[i]
      BY AppendProperties
    <3> QED BY <2>1, <3>1
  <2> QED BY <1>1, <1>2, <2>1 DEF Tmp
<1>4. \A i \in Index : LogPath(i)[1] = "logs" /\ LogPath(i)[2] = i
  BY DEF LogPath
<1>5. \A i \in Index : LogPath(i) # MetaPath /\ LogPath(i) # SnapshotPath
                       /\ LogPath(i) # Tmp(MetaPath) /\ LogPath(i) # Tmp(SnapshotPath)
  BY <1>1, <1>3, <1>4
<1>6. /\ MetaPath # SnapshotPath
      /\ \A t \in {Tmp(MetaPath), Tmp(SnapshotPath)} : t # MetaPath /\ t # SnapshotPath
  BY <1>1, <1>3
<1>7. \A i, j \in Index : LogPath(i) = LogPath(j) => i = j
  BY <1>4
<1> QED BY <1>5, <1>6, <1>7 DEF ReadPath, Path, BaseDir, LogsDir

LEMMA DepthFacts ==
  /\ \A p \in Path : Depth(p) \in {Base, Logs}
  /\ \A p \in LogsDir : Depth(p) = Logs
  /\ \A p \in Path \ LogsDir : Depth(p) = Base
BY DEF Depth

LEMMA WriteFacts ==
  ASSUME NEW op \in Writes
  PROVE  /\ op.kind \in {"Meta", "Snapshot", "LogEntry"}
         /\ Target(op) \in ReadPath /\ Written(op) \in Path
         /\ NewContent(op) \in Value
         /\ Replaces(op) => /\ Written(op) = Tmp(Target(op)) /\ Written(op) \notin ReadPath
                            /\ op.kind # "LogEntry"
         /\ ~Replaces(op) => /\ Written(op) = Target(op)
                             /\ op.kind = "LogEntry" /\ NewContent(op) = op.entry
<1>1. CASE \E v \in Value : op = MetaOp(v)
  <2>1. PICK v \in Value : op = MetaOp(v)
    BY <1>1
  <2>2. op.kind = "Meta" /\ op.meta = v
    BY <2>1 DEF MetaOp
  <2> QED BY <2>2, PathFacts DEF Target, NewContent, Written, Replaces, ReadPath
<1>2. CASE \E v \in Value : op = SnapshotOp(v)
  <2>1. PICK v \in Value : op = SnapshotOp(v)
    BY <1>2
  <2>2. op.kind = "Snapshot" /\ op.snap = v
    BY <2>1 DEF SnapshotOp
  <2> QED BY <2>2, PathFacts DEF Target, NewContent, Written, Replaces, ReadPath
<1>3. CASE \E i \in Index, v \in Value : op = LogEntryOp(i, v)
  <2>1. PICK i \in Index, v \in Value : op = LogEntryOp(i, v)
    BY <1>3
  <2>2. op.kind = "LogEntry" /\ op.index = i /\ op.entry = v
    BY <2>1 DEF LogEntryOp
  <2> QED BY <2>2, PathFacts DEF Target, NewContent, Written, Replaces, ReadPath
<1> QED BY <1>1, <1>2, <1>3 DEF Writes

LEMMA DeleteFacts ==
  ASSUME NEW op \in Deletes
  PROVE  op.kind = "DeleteLogs" /\ \A i \in Deleted(op) : i \in Index
BY DEF Deletes, DeleteLogsOp, Deleted

LEMMA NoOpFacts == /\ NoOp.kind = "none" /\ NoOp \notin Writes /\ NoOp \notin Deletes
BY WriteFacts, DeleteFacts DEF NoOp

\* The order of a write's steps.
LEMMA AfterFacts ==
  ASSUME NEW op \in Writes
  PROVE  /\ FirstStep(op) = "create"
         /\ After(op, "create") = "write" /\ After(op, "write") = "fsync"
         /\ After(op, "fsync") = IF Replaces(op) THEN "rename" ELSE "syncdir"
         /\ Replaces(op) => After(op, "rename") = "syncdir"
         /\ After(op, "syncdir") = "return"
<1>0. op.kind # "DeleteLogs"
  BY WriteFacts
<1>1. CASE Replaces(op)
  <2> DEFINE steps == <<"create", "write", "fsync", "rename", "syncdir">>
  <2>1. WriteSteps(op) = steps
    BY <1>1 DEF WriteSteps
  <2>2. /\ DOMAIN steps = 1 .. 5 /\ Len(steps) = 5
        /\ steps[1] = "create" /\ steps[2] = "write" /\ steps[3] = "fsync"
        /\ steps[4] = "rename" /\ steps[5] = "syncdir"
    OBVIOUS
  <2> HIDE DEF steps
  <2>3. /\ (CHOOSE k \in DOMAIN steps : steps[k] = "create") = 1
        /\ (CHOOSE k \in DOMAIN steps : steps[k] = "write") = 2
        /\ (CHOOSE k \in DOMAIN steps : steps[k] = "fsync") = 3
        /\ (CHOOSE k \in DOMAIN steps : steps[k] = "rename") = 4
        /\ (CHOOSE k \in DOMAIN steps : steps[k] = "syncdir") = 5
    BY <2>2
  <2> QED BY <1>0, <1>1, <2>1, <2>2, <2>3 DEF After, FirstStep
<1>2. CASE ~Replaces(op)
  <2> DEFINE steps == <<"create", "write", "fsync", "syncdir">>
  <2>1. WriteSteps(op) = steps
    BY <1>2 DEF WriteSteps
  <2>2. /\ DOMAIN steps = 1 .. 4 /\ Len(steps) = 4
        /\ steps[1] = "create" /\ steps[2] = "write" /\ steps[3] = "fsync" /\ steps[4] = "syncdir"
    OBVIOUS
  <2> HIDE DEF steps
  <2>3. /\ (CHOOSE k \in DOMAIN steps : steps[k] = "create") = 1
        /\ (CHOOSE k \in DOMAIN steps : steps[k] = "write") = 2
        /\ (CHOOSE k \in DOMAIN steps : steps[k] = "fsync") = 3
        /\ (CHOOSE k \in DOMAIN steps : steps[k] = "syncdir") = 4
    BY <2>2
  <2> QED BY <1>0, <1>2, <2>1, <2>2, <2>3 DEF After, FirstStep
<1> QED BY <1>1, <1>2

-----------------------------------------------------------------------------
(* The invariant, in parts.                                                *)

Types ==
  /\ content \in [Path -> Cell] /\ settled \in [Path -> Cell]
  /\ bytes \in [Path -> SUBSET Cell] /\ \A p \in Path : bytes[p] # {}
  /\ names \in [Path -> SUBSET Cell] /\ begun \in [Path -> SUBSET Cell]
  /\ deleted \in BOOLEAN /\ deaths \in 0 .. MaxDeaths

\* The step belongs to the call.
CallInv ==
  \/ pc \in Opening \cup {"idle"} /\ call = NoOp
  \/ pc \in {"create", "write", "fsync", "syncdir", "return"} /\ call \in Writes
  \/ pc = "rename" /\ call \in Writes /\ Replaces(call)
  \/ pc \in {"unlink", "return"} /\ call \in Deletes

\* The directories are made one below the other, and all before a call.
DirInv ==
  /\ made \in 0 .. Logs /\ kept \subseteq 1 .. made
  /\ opening \in [target : {Base, Logs}, at : Dirs] /\ opening.at <= opening.target
  /\ pc = "missing" /\ opening.target = Logs => made >= Base
  /\ pc = "mkdir" => opening.at = made + 1
  /\ pc = "mkdurable" => opening.at = made
  /\ pc \notin Opening => made = Logs

\* What is stored, or may come back, at a path was settled or has begun since.
Allowed(p) == {settled[p]} \cup begun[p]
SafeInv == \A p \in ReadPath : content[p] \in Allowed(p) /\ Remains(p) \subseteq Allowed(p)

\* What the call may leave has begun.
LeaveInv == call # NoOp => \A p \in ReadPath : MayLeave(call, p) \subseteq begun[p]

\* What a write has stored by now.
WriteInv ==
  /\ pc \in {"fsync", "rename"} => content[Written(call)] = NewContent(call)
  /\ pc = "rename" => bytes[Written(call)] = {NewContent(call)}
  /\ pc = "syncdir" => bytes[Target(call)] = {NewContent(call)} /\ content[Target(call)] = NewContent(call)
  /\ pc = "return" /\ call \in Writes =>
        Remains(Target(call)) = {NewContent(call)} /\ content[Target(call)] = NewContent(call)

\* Every directory is made durable before the node goes on: it is there from the
\* start, or the path has a parent and no process dies between making a
\* directory and flushing the one that names it.
Lasting == Standing = Logs \/ (Rooted /\ (MaxDeaths = 0 \/ ~Orphans))

LastingInv ==
  /\ pc # "mkdurable" => kept = 1 .. made
  /\ pc = "mkdurable" => 1 .. made - 1 \subseteq kept
  /\ Standing = Logs => made = Logs /\ pc \notin {"mkdir", "mkdurable"}
  /\ \A p \in ReadPath : ~Durable(Depth(p)) => settled[p] = NoFile

IInv == /\ Types /\ CallInv /\ DirInv /\ SafeInv /\ LeaveInv /\ WriteInv
        /\ Lasting => LastingInv

-----------------------------------------------------------------------------
(* The file system's operations, on what they touch.                       *)

\* What a step does to the files keeps everything allowed, paths apart.
LEMMA SyncFacts ==
  ASSUME Types, NEW dir, SyncDir(dir)
  PROVE  /\ content' = content /\ bytes' = bytes /\ made' = made
         /\ names' \in [Path -> SUBSET Cell]
         /\ \A p \in Path : names'[p] = IF Depth(p) = dir THEN {} ELSE names[p]
         /\ \A p \in Path : Remains(p)' \subseteq Remains(p)
  <1>1. names' = [p \in Path |-> IF Depth(p) = dir THEN {} ELSE names[p]]
    BY DEF SyncDir
  <1>2. content' = content /\ bytes' = bytes /\ made' = made
    BY DEF SyncDir
  <1> QED BY <1>1, <1>2 DEF Types, Remains

\* The names of the calls, and the state before any.
LEMMA InitInv == Init => IInv
  <1> SUFFICES ASSUME Init PROVE IInv
    OBVIOUS
  <1>1. ReadPath \subseteq Path
    BY PathFacts
  <1>2. Types
    <2>1. NoFile \in Cell /\ 0 \in 0 .. MaxDeaths
      BY FileAssumption DEF Cell
    <2> QED BY <2>1 DEF Init, Types
  <1>3. CallInv
    BY DEF Init, CallInv, Opening
  <1>4. DirInv
    BY DirsAssumption DEF Init, DirInv, Opens, Opening, Dirs, Base, Logs, Shared
  <1>5. SafeInv
    BY <1>1 DEF Init, SafeInv, Allowed, Remains
  <1>6. LeaveInv /\ WriteInv
    BY DEF Init, LeaveInv, WriteInv
  <1>7. LastingInv
    BY <1>1 DEF Init, LastingInv, Depth
  <1> QED BY <1>2, <1>3, <1>4, <1>5, <1>6, <1>7 DEF IInv

-----------------------------------------------------------------------------
(* Opening the directories.                                                *)

\* Such a step leaves the calls and the files alone, but for names that settle.
Untouched ==
  /\ call = NoOp /\ UNCHANGED <<content, bytes, call, deleted, ghostVars, deaths>>
  /\ names' \in [Path -> SUBSET Cell] /\ \A p \in Path : Remains(p)' \subseteq Remains(p)
  /\ pc' \in Opening \cup {"idle"}

LEMMA UntouchedKeeps ==
  ASSUME IInv, Untouched
  PROVE  Types' /\ CallInv' /\ SafeInv' /\ LeaveInv' /\ WriteInv'
  <1>1. ReadPath \subseteq Path
    BY PathFacts
  <1>2. Types'
    BY DEF Untouched, IInv, Types, ghostVars
  <1>3. CallInv'
    BY DEF Untouched, IInv, CallInv
  <1>4. SafeInv'
    BY <1>1 DEF Untouched, IInv, SafeInv, Allowed, ghostVars
  <1>5. LeaveInv' /\ WriteInv'
    BY DEF Untouched, IInv, LeaveInv, WriteInv, Opening
  <1> QED BY <1>2, <1>3, <1>4, <1>5

LEMMA OpenTouches ==
  ASSUME IInv, FindMissing \/ MakeDir \/ FlushParent
  PROVE  Untouched /\ kept \subseteq kept'
  <1>1. Types /\ CallInv /\ DirInv
    BY DEF IInv
  <1>2. CASE FindMissing
    BY <1>1, <1>2 DEF FindMissing, Untouched, CallInv, Opening, GoesOn, Types, Remains, fsVars, dirVars
  <1>3. CASE MakeDir
    BY <1>1, <1>3 DEF MakeDir, Untouched, CallInv, Opening, Types, Remains, fsVars
  <1>4. CASE FlushParent
    <2>1. /\ content' = content /\ bytes' = bytes /\ kept \subseteq kept'
          /\ names' \in [Path -> SUBSET Cell] /\ \A p \in Path : Remains(p)' \subseteq Remains(p)
      <3>1. CASE opening.at # Shared \/ Rooted
        <4>1. SyncDir(opening.at - 1)
          BY <1>4, <3>1 DEF FlushParent
        <4> QED BY <1>1, <4>1, SyncFacts DEF SyncDir
      <3>2. CASE ~(opening.at # Shared \/ Rooted)
        BY <1>1, <1>4, <3>2 DEF FlushParent, dirVars, fsVars, Types, Remains
      <3> QED BY <3>1, <3>2
    <2> QED BY <1>1, <1>4, <2>1 DEF FlushParent, Untouched, CallInv, Opening, GoesOn
  <1> QED BY <1>2, <1>3, <1>4

LEMMA OpenKeeps ==
  ASSUME IInv, FindMissing \/ MakeDir \/ FlushParent
  PROVE  IInv'
  <1>1. Types /\ CallInv /\ DirInv /\ Untouched
    BY OpenTouches DEF IInv
  <1>3. CASE FindMissing
    <2> DEFINE dir == IF made < opening.target THEN made ELSE opening.target
    <2>1. GoesOn(dir) /\ pc = "missing"
      BY <1>3 DEF FindMissing
    <2>3. made' = made /\ kept' = kept
      BY <1>3 DEF FindMissing, dirVars
    <2>4. DirInv'
      BY <1>1, <2>1, <2>3 DEF DirInv, GoesOn, Opens, Opening, Dirs, Base, Logs, Shared
    <2>5. Lasting => LastingInv'
      <3> SUFFICES ASSUME Lasting PROVE LastingInv'
        OBVIOUS
      <3>1. pc' \in {"mkdir", "missing", "idle"} /\ (made = Logs => pc' # "mkdir")
        BY <1>1, <2>1 DEF DirInv, GoesOn, Base, Logs
      <3>2. settled' = settled /\ \A d : Durable(d)' = Durable(d)
        BY <1>1, <2>3 DEF Untouched, ghostVars, Durable
      <3> QED BY <2>1, <2>3, <3>1, <3>2 DEF IInv, LastingInv
    <2> QED BY <1>1, <2>4, <2>5, UntouchedKeeps DEF IInv
  <1>4. CASE MakeDir
    <2>2. /\ made' = opening.at /\ kept' = kept /\ opening' = opening
          /\ pc = "mkdir" /\ pc' = "mkdurable" /\ opening.at = made + 1
      BY <1>1, <1>4 DEF MakeDir, DirInv
    <2>3. DirInv'
      BY <1>1, <2>2 DEF DirInv, Opening, Dirs, Base, Logs, Shared
    <2>4. Lasting => LastingInv'
      <3> SUFFICES ASSUME Lasting PROVE LastingInv'
        OBVIOUS
      <3>1. settled' = settled /\ \A d : Durable(d)' = Durable(d)
        BY <1>1, <2>2 DEF Untouched, ghostVars, Durable
      <3>2. made \in Int
        BY <1>1 DEF DirInv, Logs
      <3> QED BY <2>2, <3>1, <3>2 DEF IInv, LastingInv
    <2> QED BY <1>1, <2>3, <2>4, UntouchedKeeps DEF IInv
  <1>5. CASE FlushParent
    <2>0. pc = "mkdurable" /\ GoesOn(opening.at) /\ opening.at = made
      BY <1>1, <1>5 DEF FlushParent, DirInv
    <2>1. made' = made
      BY <1>5 DEF FlushParent, SyncDir, dirVars
    <2>3. /\ kept' = kept \/ kept' = kept \cup {made}
          /\ Rooted => kept' = kept \cup {made}
      <3>1. CASE opening.at # Shared \/ Rooted
        <4>1. kept' = kept \cup {d \in Dirs : d <= made /\ d = (made - 1) + 1}
          BY <1>5, <2>0, <3>1 DEF FlushParent, SyncDir
        <4>2. made \in Dirs
          BY <1>1, <2>0 DEF DirInv
        <4>3. {d \in Dirs : d <= made /\ d = (made - 1) + 1} = {made}
          BY <4>2 DEF Dirs, Shared, Base, Logs
        <4> QED BY <4>1, <4>3
      <3>2. CASE ~(opening.at # Shared \/ Rooted)
        BY <1>5, <3>2 DEF FlushParent, dirVars
      <3> QED BY <3>1, <3>2
    <2>4. DirInv'
      <3>1. kept' \subseteq 1 .. made
        <4>1. made \in 1 .. 3 /\ kept \subseteq 1 .. made
          BY <1>1, <2>0 DEF DirInv, Dirs, Shared, Base, Logs
        <4>2. made \in 1 .. made
          BY <4>1
        <4> QED BY <2>3, <4>1, <4>2
      <3> QED BY <1>1, <2>0, <2>1, <3>1 DEF DirInv, GoesOn, Opens, Opening, Dirs, Base, Logs, Shared
    <2>5. Lasting => LastingInv'
      <3> SUFFICES ASSUME Lasting PROVE LastingInv'
        OBVIOUS
      <3>1. LastingInv /\ Standing # Logs /\ Rooted
        BY <2>0 DEF IInv, Lasting, LastingInv
      <3>2. kept' = 1 .. made
        <4>1. 1 .. made - 1 \subseteq kept /\ kept \subseteq 1 .. made /\ made \in Dirs
          BY <1>1, <2>0, <3>1 DEF LastingInv, DirInv
        <4>2. kept' = kept \cup {made}
          BY <2>3, <3>1
        <4>3. 1 .. made = (1 .. made - 1) \cup {made}
          BY <4>1 DEF Dirs, Shared, Base, Logs
        <4> QED BY <4>1, <4>2, <4>3
      <3>3. settled' = settled /\ \A d : Durable(d) => Durable(d)'
        BY <1>1, <2>3 DEF Untouched, ghostVars, Durable
      <3>4. pc' # "mkdurable"
        BY <2>0 DEF GoesOn
      <3> QED BY <2>1, <3>1, <3>2, <3>3, <3>4 DEF LastingInv
    <2> QED BY <1>1, <2>4, <2>5, UntouchedKeeps DEF IInv
  <1> QED BY <1>3, <1>4, <1>5

-----------------------------------------------------------------------------
(* The calls.                                                              *)

\* A step of a call brings to a path at most what the call may leave there.
Around(p) == {content[p]} \cup Remains(p) \cup MayLeave(call, p)
Spreads == \A p \in ReadPath : content'[p] \in Around(p) /\ Remains(p)' \subseteq Around(p)

LEMMA SpreadsSafely ==
  ASSUME IInv, call # NoOp, Spreads, settled' = settled, begun' = begun
  PROVE  SafeInv'
  <1> SUFFICES ASSUME NEW p \in ReadPath
               PROVE  content'[p] \in Allowed(p)' /\ Remains(p)' \subseteq Allowed(p)'
    BY DEF SafeInv
  <1>1. MayLeave(call, p) \subseteq begun[p]
    BY DEF IInv, LeaveInv
  <1>2. Around(p) \subseteq Allowed(p)
    BY <1>1 DEF Around, Allowed, IInv, SafeInv
  <1>3. Allowed(p)' = Allowed(p)
    BY DEF Allowed
  <1> QED BY <1>2, <1>3 DEF Spreads

\* What a step of a call leaves alone of what the parts say beside it.
Within ==
  /\ pc \notin Opening /\ pc' \notin Opening
  /\ made' = made /\ opening' = opening /\ kept \subseteq kept' /\ kept' \subseteq 1 .. made
  /\ deaths' = deaths

LEMMA WithinKeeps ==
  ASSUME IInv, Within, \A p \in ReadPath : settled'[p] = settled[p]
  PROVE  DirInv' /\ (Lasting => LastingInv')
  <1>1. DirInv'
    BY DEF IInv, Within, DirInv, Opening
  <1>2. ASSUME Lasting PROVE LastingInv'
    <2>1. LastingInv /\ DirInv /\ kept = 1 .. made /\ made = Logs
      BY <1>2 DEF IInv, LastingInv, DirInv, Within, Opening
    <2>2. kept' = 1 .. made'
      BY <2>1 DEF Within
    <2>3. \A p \in ReadPath : Durable(Depth(p)) /\ Durable(Depth(p))'
      BY <2>1, <2>2, PathFacts, DepthFacts DEF Within, Durable, Dirs, Shared, Base, Logs
    <2> QED BY <2>1, <2>2, <2>3 DEF LastingInv, Within, Opening
  <1> QED BY <1>1, <1>2

\* A call that may leave something leaves what it is to write, or nothing.
LEMMA MayLeaveFacts ==
  ASSUME NEW op \in Writes \cup Deletes, NEW p \in Path
  PROVE  /\ MayLeave(op, p) \subseteq Cell
         /\ op \in Writes /\ p = Target(op) => NewContent(op) \in MayLeave(op, p)
         /\ op \in Writes /\ p = Target(op) /\ ~Replaces(op) => Torn \in MayLeave(op, p)
         /\ \A i \in Index : op \in Deletes /\ i \in Deleted(op) /\ p = LogPath(i) => NoFile \in MayLeave(op, p)
  <1>1. CASE op \in Writes
    BY <1>1, WriteFacts, DeleteFacts DEF MayLeave, Cell, Content, NewContent, Replaces
  <1>2. CASE op \in Deletes
    BY <1>2, WriteFacts, DeleteFacts DEF MayLeave, Cell
  <1> QED BY <1>1, <1>2

LEMMA BeginsKeeps ==
  ASSUME IInv, Begins
  PROVE  IInv'
  <1>1. PICK op \in Writes \cup Deletes : PersistBegins(op)
    BY DEF Begins, Writes, Deletes
  <1>2. /\ pc = "idle" /\ call' = op /\ pc' = FirstStep(op) /\ deleted' = FALSE
        /\ UNCHANGED <<made, kept, opening, content, bytes, names, settled, deaths>>
        /\ begun' = [p \in Path |-> begun[p] \cup MayLeave(op, p)]
    BY <1>1 DEF PersistBegins, dirVars, fsVars
  <1>3. (pc' = "create" /\ op \in Writes) \/ (pc' = "unlink" /\ op \in Deletes)
    <2>1. op \in Writes => pc' = "create"
      BY <1>2, AfterFacts
    <2>2. op \in Deletes => pc' = "unlink"
      BY <1>2, DeleteFacts DEF FirstStep
    <2> QED BY <2>1, <2>2
  <1>4. ReadPath \subseteq Path
    BY PathFacts
  <1>5. Types'
    <2>1. \A p \in Path : MayLeave(op, p) \subseteq Cell
      BY MayLeaveFacts
    <2> QED BY <1>2, <2>1 DEF IInv, Types
  <1>6. CallInv'
    BY <1>2, <1>3 DEF CallInv
  <1>7. SafeInv'
    BY <1>2, <1>4 DEF IInv, Types, SafeInv, Allowed, Remains
  <1>8. LeaveInv' /\ WriteInv'
    BY <1>2, <1>3, <1>4 DEF LeaveInv, WriteInv
  <1>9. DirInv' /\ (Lasting => LastingInv')
    <2>1. Within
      BY <1>2, <1>3 DEF Within, Opening, IInv, DirInv
    <2>2. \A p \in ReadPath : settled'[p] = settled[p]
      BY <1>2
    <2> QED BY <2>1, <2>2, WithinKeeps
  <1> QED BY <1>5, <1>6, <1>7, <1>8, <1>9 DEF IInv

LEMMA ReturnKeeps ==
  ASSUME IInv, PersistReturns
  PROVE  IInv'
  <1>1. /\ pc = "return" /\ call' = NoOp /\ pc' = "idle" /\ deleted' = FALSE
        /\ UNCHANGED <<made, kept, opening, content, bytes, names, deaths>>
    BY DEF PersistReturns, dirVars, fsVars
  <1>2. ReadPath \subseteq Path
    BY PathFacts
  <1>3. call \in Writes \/ (call \in Deletes /\ call.kind = "DeleteLogs")
    <2>1. call \in Writes \/ call \in Deletes
      BY <1>1 DEF IInv, CallInv, Opening
    <2> QED BY <2>1, DeleteFacts
  <1>4. \/ settled' = settled /\ begun' = begun
        \/ /\ call \in Writes
           /\ settled' = [settled EXCEPT ![Target(call)] = NewContent(call)]
           /\ begun' = [begun EXCEPT ![Target(call)] = {}]
    BY <1>3 DEF PersistReturns
  <1>5. Types'
    <2>1. call \in Writes => NewContent(call) \in Cell
      BY WriteFacts DEF Cell, Content
    <2> QED BY <1>1, <1>4, <2>1 DEF IInv, Types
  <1>6. CallInv' /\ LeaveInv' /\ WriteInv'
    BY <1>1 DEF CallInv, LeaveInv, WriteInv
  <1>7. SafeInv'
    <2>1. CASE settled' = settled /\ begun' = begun
      BY <1>1, <2>1 DEF IInv, SafeInv, Allowed, Remains
    <2>2. CASE /\ call \in Writes
               /\ settled' = [settled EXCEPT ![Target(call)] = NewContent(call)]
               /\ begun' = [begun EXCEPT ![Target(call)] = {}]
      <3>1. Remains(Target(call)) = {NewContent(call)} /\ content[Target(call)] = NewContent(call)
        BY <1>1, <2>2 DEF IInv, WriteInv
      <3>2. \A p \in ReadPath : \/ p = Target(call) /\ settled'[p] = NewContent(call)
                                \/ settled'[p] = settled[p] /\ begun'[p] = begun[p]
        <4>1. settled \in [Path -> Cell] /\ begun \in [Path -> SUBSET Cell]
          BY DEF IInv, Types
        <4> SUFFICES ASSUME NEW p \in ReadPath
                     PROVE  \/ p = Target(call) /\ settled'[p] = NewContent(call)
                            \/ settled'[p] = settled[p] /\ begun'[p] = begun[p]
          OBVIOUS
        <4>2. p \in Path
          BY <1>2
        <4> QED BY <2>2, <4>1, <4>2
      <3>3. \A p \in ReadPath : content'[p] = content[p] /\ Remains(p)' = Remains(p)
        BY <1>1 DEF Remains
      <3> QED BY <3>1, <3>2, <3>3 DEF IInv, SafeInv, Allowed
    <2> QED BY <1>4, <2>1, <2>2
  <1>8. DirInv' /\ (Lasting => LastingInv')
    <2>1. DirInv'
      BY <1>1 DEF IInv, DirInv, Opening
    <2>2. ASSUME Lasting PROVE LastingInv'
      <3>1. LastingInv /\ kept = 1 .. Logs /\ made = Logs
        BY <1>1, <2>2 DEF IInv, LastingInv, DirInv, Opening
      <3>2. \A p \in ReadPath : Durable(Depth(p))'
        BY <1>1, <1>2, <3>1, DepthFacts DEF Durable, Dirs, Shared, Base, Logs
      <3> QED BY <1>1, <3>1, <3>2 DEF LastingInv
    <2> QED BY <2>1, <2>2
  <1> QED BY <1>5, <1>6, <1>7, <1>8 DEF IInv

LEMMA DiesKeeps ==
  ASSUME IInv, ProcessDies
  PROVE  IInv'
  <1>1. /\ call' = NoOp /\ pc' = "missing" /\ opening' = Opens(Base) /\ deleted' = FALSE
        /\ deaths < MaxDeaths /\ deaths' = deaths + 1
        /\ UNCHANGED <<made, kept, content, bytes, names, settled, begun>>
    BY DEF ProcessDies, Reopened, dirVars, fsVars
  <1>2. Types'
    <2>1. deaths' \in 0 .. MaxDeaths
      BY <1>1, FileAssumption DEF IInv, Types
    <2> QED BY <1>1, <2>1 DEF IInv, Types
  <1>3. CallInv' /\ LeaveInv' /\ WriteInv'
    BY <1>1 DEF CallInv, LeaveInv, WriteInv, Opening
  <1>4. SafeInv'
    BY <1>1 DEF IInv, SafeInv, Allowed, Remains
  <1>5. DirInv'
    BY <1>1 DEF IInv, DirInv, Opens, Opening, Dirs, Base, Logs, Shared
  <1>6. ASSUME Lasting PROVE LastingInv'
    <2>1. LastingInv /\ MaxDeaths # 0
      BY <1>1, <1>6 DEF IInv, Types
    <2>2. kept = 1 .. made
      <3>1. CASE Standing = Logs
        BY <2>1, <3>1 DEF LastingInv
      <3>2. CASE Standing # Logs
        BY <1>6, <2>1, <3>2 DEF Lasting, ProcessDies
      <3> QED BY <3>1, <3>2
    <2>3. \A d : Durable(d)' = Durable(d)
      BY <1>1 DEF Durable
    <2> QED BY <1>1, <2>1, <2>2, <2>3 DEF LastingInv
  <1> QED BY <1>2, <1>3, <1>4, <1>5, <1>6 DEF IInv

LEMMA PowerKeeps ==
  ASSUME IInv, PowerLoss
  PROVE  IInv' /\ \A p \in ReadPath : ~Durable(Depth(p))' => content'[p] = NoFile
  <1>1. /\ call' = NoOp /\ pc' = "missing" /\ opening' = Opens(Base) /\ deleted' = FALSE
        /\ bytes' = [p \in Path |-> {content'[p]}] /\ names' = [p \in Path |-> {}]
        /\ settled' = content' /\ begun' = names' /\ deaths' = 0
        /\ made' \in 0 .. made /\ made' + 1 \notin kept /\ kept' = 1 .. made'
    BY DEF PowerLoss, Reopened
  <1>2. /\ content' \in [Path -> Cell]
        /\ \A p \in Path : Depth(p) > made' => content'[p] = NoFile
    <2>1. PICK back \in [Unsettled -> Cell] :
            content' = [p \in Path |-> IF Depth(p) > made' THEN NoFile
                                      ELSE IF p \in Unsettled THEN back[p] ELSE content[p]]
      BY DEF PowerLoss, Cell
    <2>2. \A p \in Path : content[p] \in Cell /\ NoFile \in Cell
      BY DEF IInv, Types, Cell
    <2> QED BY <2>1, <2>2
  <1>3. ReadPath \subseteq Path
    BY PathFacts
  <1>4. Types'
    <2>1. 0 \in 0 .. MaxDeaths
      BY FileAssumption
    <2> QED BY <1>1, <1>2, <2>1 DEF Types
  <1>5. CallInv' /\ LeaveInv' /\ WriteInv'
    BY <1>1 DEF CallInv, LeaveInv, WriteInv, Opening
  <1>6. SafeInv'
    BY <1>1, <1>3 DEF SafeInv, Allowed, Remains
  <1>7. DirInv'
    BY <1>1 DEF IInv, DirInv, Opens, Opening, Dirs, Base, Logs, Shared
  <1>9. \A p \in ReadPath : ~Durable(Depth(p))' => content'[p] = NoFile
    <2>1. made' \in 0 .. Logs
      BY <1>1 DEF IInv, DirInv, Logs
    <2>2. \A p \in ReadPath : ~Durable(Depth(p))' => Depth(p) > made'
      BY <1>1, <1>3, <2>1, DepthFacts DEF Durable, Dirs, Shared, Base, Logs
    <2> QED BY <1>2, <1>3, <2>2
  <1>8. ASSUME Lasting PROVE LastingInv'
    <2>2. Standing = Logs => made' = Logs
      <3> SUFFICES ASSUME Standing = Logs PROVE made' = Logs
        OBVIOUS
      <3>1. kept = 1 .. Logs /\ made = Logs
        BY <1>8 DEF IInv, LastingInv
      <3>2. made' \in 0 .. 3 /\ made' + 1 \notin 1 .. 3
        BY <1>1, <3>1 DEF Logs
      <3>3. made' = 3
        <4>1. \A d \in 0 .. 3 : (d + 1) \notin 1 .. 3 => d = 3
          OBVIOUS
        <4> QED BY <3>2, <4>1
      <3> QED BY <3>3 DEF Logs
    <2> QED BY <1>1, <1>9, <2>2 DEF LastingInv
  <1> QED BY <1>4, <1>5, <1>6, <1>7, <1>8, <1>9 DEF IInv

\* The steps of a write.  Each keeps the shape, what the call may leave, and
\* the progress noted in WriteInv.
LEMMA WriteShape ==
  ASSUME IInv, WriteStep
  PROVE  /\ call \in Writes /\ Written(call) \in Path /\ Target(call) \in ReadPath
         /\ NewContent(call) \in Cell /\ NewContent(call) \in MayLeave(call, Target(call))
         /\ ~Replaces(call) => Torn \in MayLeave(call, Target(call))
         /\ call' = call /\ UNCHANGED <<opening, deleted, begun, settled, deaths>>
  <1>1. pc \in {"create", "write", "fsync", "rename", "syncdir"}
    BY DEF WriteStep, Step
  <1>2. call \in Writes
    BY <1>1 DEF IInv, CallInv, Opening
  <1>3. Target(call) \in ReadPath /\ Target(call) \in Path
    BY <1>2, WriteFacts, PathFacts
  <1>5. /\ NewContent(call) \in MayLeave(call, Target(call))
        /\ ~Replaces(call) => Torn \in MayLeave(call, Target(call))
    BY <1>2, <1>3, MayLeaveFacts
  <1>6. call' = call /\ UNCHANGED <<opening, deleted, begun, settled, deaths>>
    BY DEF WriteStep, ghostVars
  <1> QED BY <1>2, <1>3, <1>5, <1>6, WriteFacts DEF Cell, Content

LEMMA CreateKeeps ==
  ASSUME IInv, WriteStep, Step("create")
  PROVE  Types' /\ Spreads /\ WriteInv' /\ Within /\ CallInv'
  <1> DEFINE w == Written(call)
  <1>1. pc = "create" /\ pc' = "write" /\ Create(w) /\ UNCHANGED <<made, kept>>
    BY WriteShape, AfterFacts DEF WriteStep, Step, dirVars
  <1>2. /\ content' = [content EXCEPT ![w] = Torn]
        /\ \/ content[w] = NoFile /\ bytes' = [bytes EXCEPT ![w] = {Torn}]
              /\ names' = [names EXCEPT ![w] = @ \cup {NoFile}]
           \/ bytes' = [bytes EXCEPT ![w] = @ \cup {Torn}] /\ names' = names
    BY <1>1 DEF Create
  <1>3. Types'
    <2>1. Torn \in Cell /\ NoFile \in Cell /\ w \in Path
      BY WriteShape DEF Cell, Content
    <2>2. content' \in [Path -> Cell]
      BY <1>2, <2>1 DEF IInv, Types
    <2>3. bytes' \in [Path -> SUBSET Cell] /\ \A p \in Path : bytes'[p] # {}
      BY <1>2, <2>1 DEF IInv, Types
    <2>4. names' \in [Path -> SUBSET Cell]
      BY <1>2, <2>1 DEF IInv, Types
    <2> QED BY <2>2, <2>3, <2>4, WriteShape DEF IInv, Types
  <1>4. Spreads
    <2> SUFFICES ASSUME NEW p \in ReadPath
                 PROVE  content'[p] \in Around(p) /\ Remains(p)' \subseteq Around(p)
      BY DEF Spreads
    <2>1. p \in Path /\ content[p] \in Around(p) /\ bytes[p] \cup names[p] \subseteq Around(p)
      BY PathFacts DEF Around, Remains
    <2>3. CASE p = w
      <3>1. Torn \in Around(p)
        BY <2>3, WriteShape, WriteFacts DEF Around
      <3> QED BY <1>2, <2>1, <2>3, <3>1, WriteShape DEF IInv, Types, Remains
    <2>4. CASE p # w
      BY <1>2, <2>1, <2>4 DEF IInv, Types, Remains
    <2> QED BY <2>3, <2>4
  <1>5. WriteInv' /\ CallInv'
    BY <1>1, WriteShape DEF WriteInv, CallInv
  <1>6. Within
    BY <1>1, WriteShape DEF Within, Opening, IInv, DirInv
  <1> QED BY <1>3, <1>4, <1>5, <1>6

LEMMA FillKeeps ==
  ASSUME IInv, WriteStep, Step("write")
  PROVE  Types' /\ Spreads /\ WriteInv' /\ Within /\ CallInv'
  <1> DEFINE w == Written(call)
             v == NewContent(call)
  <1>1. pc = "write" /\ pc' = "fsync" /\ WriteAll(w, v) /\ UNCHANGED <<made, kept>>
    BY WriteShape, AfterFacts DEF WriteStep, Step, dirVars
  <1>2. /\ content' = [content EXCEPT ![w] = v] /\ names' = names
        /\ bytes' = [bytes EXCEPT ![w] = @ \cup {v}]
    BY <1>1 DEF WriteAll
  <1>3. Types'
    BY <1>2, WriteShape DEF IInv, Types
  <1>4. Spreads
    <2> SUFFICES ASSUME NEW p \in ReadPath
                 PROVE  content'[p] \in Around(p) /\ Remains(p)' \subseteq Around(p)
      BY DEF Spreads
    <2>1. p \in Path /\ content[p] \in Around(p) /\ bytes[p] \cup names[p] \subseteq Around(p)
      BY PathFacts DEF Around, Remains
    <2>3. CASE p = w
      <3>1. v \in Around(p)
        BY <2>3, WriteShape, WriteFacts DEF Around
      <3> QED BY <1>2, <2>1, <2>3, <3>1, WriteShape DEF IInv, Types, Remains
    <2>4. CASE p # w
      BY <1>2, <2>1, <2>4 DEF IInv, Types, Remains
    <2> QED BY <2>3, <2>4
  <1>5. WriteInv'
    <2>1. Written(call)' = Written(call) /\ NewContent(call)' = NewContent(call)
      BY WriteShape
    <2>2. content'[w] = v
      BY <1>2, WriteShape DEF IInv, Types
    <2> QED BY <1>1, <2>1, <2>2 DEF WriteInv
  <1>6. CallInv'
    BY <1>1, WriteShape DEF CallInv
  <1>7. Within
    BY <1>1, WriteShape DEF Within, Opening, IInv, DirInv
  <1> QED BY <1>3, <1>4, <1>5, <1>6, <1>7

LEMMA FsyncKeeps ==
  ASSUME IInv, WriteStep, Step("fsync")
  PROVE  Types' /\ Spreads /\ WriteInv' /\ Within /\ CallInv'
  <1> DEFINE w == Written(call)
  <1>1. /\ pc = "fsync" /\ pc' = (IF Replaces(call) THEN "rename" ELSE "syncdir")
        /\ SyncFile(w) /\ UNCHANGED <<made, kept>>
    BY WriteShape, AfterFacts DEF WriteStep, Step, dirVars
  <1>2. content' = content /\ names' = names /\ bytes' = [bytes EXCEPT ![w] = {content[w]}]
    BY <1>1 DEF SyncFile
  <1>3. Types'
    BY <1>2, WriteShape DEF IInv, Types
  <1>4. Spreads
    <2> SUFFICES ASSUME NEW p \in ReadPath
                 PROVE  content'[p] \in Around(p) /\ Remains(p)' \subseteq Around(p)
      BY DEF Spreads
    <2>1. p \in Path /\ content[p] \in Around(p) /\ bytes[p] \cup names[p] \subseteq Around(p)
      BY PathFacts DEF Around, Remains
    <2> QED BY <1>2, <2>1 DEF IInv, Types, Remains
  <1>5. WriteInv'
    <2>1. content[w] = NewContent(call) /\ bytes'[w] = {NewContent(call)} /\ content' = content
      BY <1>1, <1>2, WriteShape DEF IInv, WriteInv, Types
    <2>2. ~Replaces(call) => w = Target(call)
      BY WriteShape, WriteFacts
    <2> QED BY <1>1, <2>1, <2>2, WriteShape DEF WriteInv
  <1>6. CallInv'
    BY <1>1, WriteShape DEF CallInv
  <1>7. Within
    BY <1>1, WriteShape DEF Within, Opening, IInv, DirInv
  <1> QED BY <1>3, <1>4, <1>5, <1>6, <1>7

LEMMA RenameKeeps ==
  ASSUME IInv, WriteStep, Step("rename")
  PROVE  Types' /\ Spreads /\ WriteInv' /\ Within /\ CallInv'
  <1> DEFINE w == Tmp(Target(call))
             t == Target(call)
             v == NewContent(call)
  <1>1. pc = "rename" /\ Rename(w, t) /\ UNCHANGED <<made, kept>>
    BY DEF WriteStep, Step, dirVars
  <1>2. Replaces(call) /\ pc' = "syncdir"
    BY <1>1, WriteShape, AfterFacts DEF IInv, CallInv, Opening, Step
  <1>3. w = Written(call) /\ w \in Path /\ w \notin ReadPath /\ t \in ReadPath /\ t \in Path /\ w # t
    BY <1>2, WriteShape, WriteFacts, PathFacts
  <1>4. content[w] = v /\ bytes[w] = {v}
    BY <1>1, <1>3 DEF IInv, WriteInv
  <1>5. /\ content' = [content EXCEPT ![t] = v, ![w] = NoFile]
        /\ bytes' = [bytes EXCEPT ![t] = {v}, ![w] = {NoFile}]
        /\ names' = [names EXCEPT ![t] = @ \cup bytes[t], ![w] = @ \cup bytes[w]]
    BY <1>1, <1>4 DEF Rename
  <1>6. Types'
    <2>1. v \in Cell /\ NoFile \in Cell
      BY WriteShape DEF Cell
    <2>2. content' \in [Path -> Cell]
      BY <1>5, <2>1 DEF IInv, Types
    <2>3. bytes' \in [Path -> SUBSET Cell] /\ \A p \in Path : bytes'[p] # {}
      BY <1>5, <2>1 DEF IInv, Types
    <2>4. names' \in [Path -> SUBSET Cell]
      BY <1>3, <1>5 DEF IInv, Types
    <2> QED BY <2>2, <2>3, <2>4, WriteShape DEF IInv, Types
  <1>7. content'[t] = v /\ bytes'[t] = {v}
    BY <1>3, <1>5 DEF IInv, Types
  <1>8. Spreads
    <2> SUFFICES ASSUME NEW p \in ReadPath
                 PROVE  content'[p] \in Around(p) /\ Remains(p)' \subseteq Around(p)
      BY DEF Spreads
    <2>1. p \in Path /\ content[p] \in Around(p) /\ bytes[p] \cup names[p] \subseteq Around(p)
      BY PathFacts DEF Around, Remains
    <2>3. CASE p = t
      <3>1. v \in Around(p)
        BY <2>3, WriteShape DEF Around
      <3>2. names'[p] = names[p] \cup bytes[p]
        BY <1>3, <1>5, <2>3 DEF IInv, Types
      <3> QED BY <1>7, <2>1, <2>3, <3>1, <3>2 DEF Remains
    <2>4. CASE p # t
      BY <1>3, <1>5, <2>1, <2>4 DEF IInv, Types, Remains
    <2> QED BY <2>3, <2>4
  <1>9. WriteInv'
    BY <1>2, <1>7, WriteShape DEF WriteInv
  <1>10. CallInv'
    BY <1>2, WriteShape DEF CallInv
  <1>11. Within
    BY <1>1, <1>2, WriteShape DEF Within, Opening, IInv, DirInv
  <1> QED BY <1>6, <1>8, <1>9, <1>10, <1>11

LEMMA FlushKeeps ==
  ASSUME IInv, WriteStep, Step("syncdir")
  PROVE  Types' /\ Spreads /\ WriteInv' /\ Within /\ CallInv'
  <1> DEFINE t == Target(call)
  <1>1. pc = "syncdir" /\ pc' = "return" /\ SyncDir(DirOf(call))
    BY WriteShape, AfterFacts DEF WriteStep, Step
  <1>2. /\ content' = content /\ bytes' = bytes /\ made' = made
        /\ names' \in [Path -> SUBSET Cell]
        /\ \A p \in Path : names'[p] = IF Depth(p) = DirOf(call) THEN {} ELSE names[p]
        /\ \A p \in Path : Remains(p)' \subseteq Remains(p)
    BY <1>1, SyncFacts DEF IInv
  <1>3. Types'
    BY <1>2, WriteShape DEF IInv, Types
  <1>4. Spreads
    BY <1>2, PathFacts DEF Spreads, Around
  <1>5. WriteInv'
    <2>1. bytes[t] = {NewContent(call)} /\ content[t] = NewContent(call)
      BY <1>1 DEF IInv, WriteInv
    <2>2. names'[t] = {}
      BY <1>2, WriteShape, PathFacts DEF DirOf
    <2>3. Remains(t)' = {NewContent(call)} /\ t' = t /\ NewContent(call)' = NewContent(call)
      BY <1>2, <2>1, <2>2, WriteShape DEF Remains
    <2> QED BY <1>1, <1>2, <2>1, <2>3 DEF WriteInv
  <1>6. CallInv'
    BY <1>1, WriteShape DEF CallInv
  <1>7. Within
    <2>1. kept' = kept \cup {d \in Dirs : d <= made /\ d = DirOf(call) + 1}
      BY <1>1 DEF SyncDir
    <2>2. {d \in Dirs : d <= made /\ d = DirOf(call) + 1} \subseteq 1 .. made
      BY DEF Dirs, Shared, Base, Logs, IInv, DirInv
    <2>3. kept \subseteq 1 .. made
      BY DEF IInv, DirInv
    <2> QED BY <1>1, <1>2, <2>1, <2>2, <2>3, WriteShape DEF Within, Opening
  <1> QED BY <1>3, <1>4, <1>5, <1>6, <1>7

LEMMA WriteKeeps ==
  ASSUME IInv, WriteStep
  PROVE  IInv' /\ Spreads
  <1>1. Types' /\ Spreads /\ WriteInv' /\ Within /\ CallInv'
    <2>1. \/ Step("create") \/ Step("write") \/ Step("fsync") \/ Step("rename") \/ Step("syncdir")
      BY DEF WriteStep
    <2> QED BY <2>1, CreateKeeps, FillKeeps, FsyncKeeps, RenameKeeps, FlushKeeps
  <1>2. SafeInv' /\ LeaveInv'
    <2>1. LeaveInv'
      BY WriteShape DEF IInv, LeaveInv
    <2> QED BY <1>1, <2>1, WriteShape, SpreadsSafely, NoOpFacts
  <1>3. DirInv' /\ (Lasting => LastingInv')
    <2>1. \A p \in ReadPath : settled'[p] = settled[p]
      BY WriteShape
    <2> QED BY <1>1, <2>1, WithinKeeps
  <1> QED BY <1>1, <1>2, <1>3 DEF IInv

\* The steps of a deletion.
LEMMA RemoveKeeps ==
  ASSUME IInv, RemoveOne
  PROVE  IInv' /\ Spreads
  <1>1. PICK i \in Listed : Unlink(LogPath(i))
    BY DEF RemoveOne
  <1> DEFINE w == LogPath(i)
  <1>2. /\ pc = "unlink" /\ pc' = "unlink" /\ deleted' = TRUE
        /\ UNCHANGED <<made, kept, opening, call, settled, begun, deaths>>
    BY DEF RemoveOne, dirVars, ghostVars
  <1>3. call \in Deletes
    BY <1>2 DEF IInv, CallInv, Opening
  <1>4. i \in Index /\ i \in Deleted(call) /\ w \in ReadPath /\ w \in Path
    BY <1>3, DeleteFacts, PathFacts DEF Listed, ReadPath
  <1>5. NoFile \in MayLeave(call, w)
    BY <1>3, <1>4, MayLeaveFacts
  <1>6. /\ content' = [content EXCEPT ![w] = NoFile]
        /\ bytes' = [bytes EXCEPT ![w] = {NoFile}]
        /\ names' = [names EXCEPT ![w] = @ \cup bytes[w]]
    BY <1>1 DEF Unlink
  <1>7. Types'
    <2>1. NoFile \in Cell
      BY DEF Cell
    <2> QED BY <1>2, <1>4, <1>6, <2>1 DEF IInv, Types
  <1>8. Spreads
    <2> SUFFICES ASSUME NEW p \in ReadPath
                 PROVE  content'[p] \in Around(p) /\ Remains(p)' \subseteq Around(p)
      BY DEF Spreads
    <2>1. p \in Path /\ content[p] \in Around(p) /\ bytes[p] \cup names[p] \subseteq Around(p)
      BY PathFacts DEF Around, Remains
    <2>2. p = w => NoFile \in Around(p)
      BY <1>5 DEF Around
    <2> QED BY <1>6, <2>1, <2>2 DEF IInv, Types, Remains
  <1>9. CallInv' /\ WriteInv'
    BY <1>2, <1>3 DEF CallInv, WriteInv
  <1>10. SafeInv' /\ LeaveInv'
    <2>1. LeaveInv'
      BY <1>2 DEF IInv, LeaveInv
    <2> QED BY <1>2, <1>3, <1>8, <2>1, SpreadsSafely, NoOpFacts
  <1>11. DirInv' /\ (Lasting => LastingInv')
    <2>1. Within
      BY <1>2 DEF Within, Opening, IInv, DirInv
    <2>2. \A p \in ReadPath : settled'[p] = settled[p]
      BY <1>2
    <2> QED BY <2>1, <2>2, WithinKeeps
  <1> QED BY <1>7, <1>8, <1>9, <1>10, <1>11 DEF IInv

LEMMA RemoveEndsKeeps ==
  ASSUME IInv, RemoveEnds
  PROVE  IInv' /\ Spreads
  <1>1. /\ pc = "unlink" /\ pc' = "return"
        /\ UNCHANGED <<opening, call, deleted, settled, begun, deaths>>
    BY DEF RemoveEnds, ghostVars
  <1>2. call \in Deletes /\ call \notin Writes
    BY <1>1, WriteFacts, DeleteFacts DEF IInv, CallInv, Opening
  <1>3. /\ content' = content /\ bytes' = bytes /\ made' = made
        /\ names' \in [Path -> SUBSET Cell] /\ \A p \in Path : Remains(p)' \subseteq Remains(p)
        /\ kept \subseteq kept' /\ kept' \subseteq 1 .. made
    <2>1. CASE deleted
      <3>1. SyncDir(Logs)
        BY <2>1 DEF RemoveEnds
      <3>2. kept' = kept \cup {d \in Dirs : d <= made /\ d = Logs + 1}
        BY <3>1 DEF SyncDir
      <3>3. {d \in Dirs : d <= made /\ d = Logs + 1} = {}
        BY DEF Dirs, Shared, Base, Logs
      <3>4. kept \subseteq 1 .. made
        BY DEF IInv, DirInv
      <3> QED BY <3>1, <3>2, <3>3, <3>4, SyncFacts DEF IInv
    <2>2. CASE ~deleted
      BY <2>2 DEF RemoveEnds, dirVars, fsVars, IInv, Types, DirInv, Remains
    <2> QED BY <2>1, <2>2
  <1>4. Types'
    BY <1>1, <1>3 DEF IInv, Types
  <1>5. SafeInv' /\ Spreads
    <2>1. Spreads
      BY <1>3, PathFacts DEF Spreads, Around
    <2> QED BY <1>1, <1>2, <2>1, SpreadsSafely, NoOpFacts
  <1>6. CallInv' /\ WriteInv' /\ LeaveInv'
    BY <1>1, <1>2 DEF IInv, CallInv, WriteInv, LeaveInv
  <1>7. DirInv' /\ (Lasting => LastingInv')
    <2>1. Within
      BY <1>1, <1>3 DEF Within, Opening
    <2>2. \A p \in ReadPath : settled'[p] = settled[p]
      BY <1>1
    <2> QED BY <2>1, <2>2, WithinKeeps
  <1> QED BY <1>4, <1>5, <1>6, <1>7 DEF IInv

-----------------------------------------------------------------------------
(* The theorems.                                                           *)

LEMMA StutterKeeps ==
  ASSUME IInv, UNCHANGED vars
  PROVE  IInv'
  <1>1. UNCHANGED <<made, kept, opening, content, bytes, names, call, pc, deleted, settled, begun, deaths>>
    BY DEF vars, dirVars, fsVars, ghostVars
  <1>2. Types' /\ CallInv' /\ DirInv'
    BY <1>1 DEF IInv, Types, CallInv, DirInv
  <1>3. SafeInv'
    BY <1>1 DEF IInv, SafeInv, Allowed, Remains
  <1>4. LeaveInv'
    BY <1>1 DEF IInv, LeaveInv
  <1>5. WriteInv'
    BY <1>1 DEF IInv, WriteInv, Remains
  <1>6. Lasting => LastingInv'
    BY <1>1 DEF IInv, LastingInv, Durable
  <1> QED BY <1>2, <1>3, <1>4, <1>5, <1>6 DEF IInv

LEMMA Invariant == Spec => []IInv
  <1>1. IInv /\ [Next]_vars => IInv'
    BY OpenKeeps, BeginsKeeps, WriteKeeps, RemoveKeeps, RemoveEndsKeeps, ReturnKeeps, DiesKeeps,
       PowerKeeps, StutterKeeps DEF Next
  <1> QED BY InitInv, <1>1, PTL DEF Spec

\* TypeOK for any instance: each step belongs to its call, and the directories
\* stand before a call is made.
THEOREM FileTypes == Spec => []TypeOK
  <1>1. IInv => TypeOK
    <2> SUFFICES ASSUME IInv PROVE TypeOK
      OBVIOUS
    <2>1. Types /\ CallInv /\ DirInv
      BY DEF IInv
    <2>2. bytes \in [Path -> (SUBSET Cell) \ {{}}]
      <3>1. bytes \in [Path -> SUBSET Cell] /\ \A p \in Path : bytes[p] # {}
        BY <2>1 DEF Types
      <3>2. bytes = [p \in Path |-> bytes[p]] /\ \A p \in Path : bytes[p] \in (SUBSET Cell) \ {{}}
        BY <3>1
      <3> QED BY <3>2
    <2>3. /\ pc \in Opening \cup {"idle", "create", "write", "fsync", "rename", "syncdir", "unlink", "return"}
          /\ (pc \in Opening \cup {"idle"}) <=> (call = NoOp)
      BY <2>1, NoOpFacts DEF CallInv, Opening
    <2>4. made \in {0} \cup Dirs
      BY <2>1 DEF DirInv, Dirs, Shared, Base, Logs
    <2> QED BY <2>1, <2>2, <2>3, <2>4 DEF TypeOK, Types, DirInv, Cell
  <1> QED BY Invariant, <1>1, PTL

\* PersistedSurvives for any instance in which every directory is made durable
\* before the node goes on: write_durable, replace and the flushes in
\* file_storage.rs keep what returned through any sequence of calls, deaths and
\* power losses, and so does create_dir_durable for the directories a node
\* makes, as long as it does not die between making one and flushing the one
\* that names it.
THEOREM ReturnedSurvives ==
  ASSUME Lasting
  PROVE  Spec => []PersistedSurvives
  <1>1. IInv => PersistedSurvives
    <2> SUFFICES ASSUME IInv, NEW p \in ReadPath
                 PROVE  Outcomes(p) \subseteq {settled[p]} \cup begun[p]
      BY DEF PersistedSurvives, ReadPath
    <2>1. Remains(p) \subseteq {settled[p]} \cup begun[p]
      BY DEF IInv, SafeInv, Allowed
    <2>2. ~Durable(Depth(p)) => settled[p] = NoFile
      BY DEF IInv, LastingInv
    <2> QED BY <2>1, <2>2 DEF Outcomes
  <1> QED BY Invariant, <1>1, PTL

=============================================================================
