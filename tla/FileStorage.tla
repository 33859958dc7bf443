---------------------------- MODULE FileStorage ----------------------------
(***************************************************************************)
(* The bundled storage (storage/file_storage.rs): one file for the         *)
(* metadata, one for the snapshot, each replaced through a temporary file; *)
(* one file per log entry, written in place.                               *)
(*                                                                         *)
(* The file system is external.  A file's bytes and the name that reaches  *)
(* them become durable separately: fsync of the file settles its bytes,    *)
(* fsync of the directory its names.  A process that dies loses nothing    *)
(* the kernel holds; a machine that loses power keeps, for each name, some *)
(* outcome of what was not yet flushed.  A directory whose entry in its     *)
(* parent was not flushed may go, with all that is under it.               *)
(***************************************************************************)
EXTENDS EzStorage, Sequences

CONSTANTS
  Value,                   \* what metadata, a snapshot or an entry may hold
  Kinds,                   \* bound: the kinds of call made
  MaxDeaths,               \* bound: how often the process dies between two power losses
  Orphans,                 \* bound: does it die between making a directory and making it durable?
  Standing,                \* how many of the directories stand, durably, at first
  Rooted                   \* has the path given a parent above its first directory?

ASSUME FileAssumption == Value \subseteq Nat /\ MaxDeaths \in Nat

\* The directories, outermost first: one nodes share, the node's, its logs.
Shared == 1
Base == 2
Logs == 3
Dirs == {Shared, Base, Logs}

ASSUME DirsAssumption == Standing \in {0} \cup Dirs /\ Rooted \in BOOLEAN /\ Orphans \in BOOLEAN

\* A name: of one of the two files that are replaced, of the temporary file
\* beside each, or of an entry's file.
MetaPath == <<"meta.json">>
SnapshotPath == <<"snapshot">>
LogPath(i) == <<"logs", i>>
Tmp(path) == Append(path, ".tmp")

BaseDir == {MetaPath, SnapshotPath, Tmp(MetaPath), Tmp(SnapshotPath)}
LogsDir == {LogPath(i) : i \in Index}
Path == BaseDir \cup LogsDir

Content == Value \cup {Torn}
NoFile == Absent

\* The directory a path is in.
Depth(path) == IF path \in LogsDir THEN Logs ELSE Base

VARIABLES
  made,                    \* the innermost directory there is, or 0
  kept,                    \* the directories whose entries are durable
  opening,                 \* what create_dir_durable is given, and has come to
  content,                 \* path -> what reading it returns now, or NoFile
  bytes,                   \* path -> what its file may hold after a power loss
  names,                   \* path -> what a power loss may bring back in its place
  call,                    \* the persist in progress, as the contract's NoOp or op
  pc,                      \* its next step
  deleted,                 \* remove_logs: was a file removed?
  before,                  \* ghost: what storage held when the call began
  settled,                 \* ghost: path -> what the last write that returned stored
  begun,                   \* ghost: path -> what calls since may have left instead
  deaths                   \* how often the process died since the last power loss

fsVars == <<content, bytes, names>>
dirVars == <<made, kept>>
ghostVars == <<before, settled, begun>>
vars == <<dirVars, opening, fsVars, call, pc, deleted, ghostVars, deaths>>

NoOp == [kind |-> "none"]

\* What load and read_logs read: no file is the default metadata, no
\* snapshot, no entry.
View == [meta |-> content[MetaPath],
         logs |-> [i \in Index |-> content[LogPath(i)]],
         snap |-> content[SnapshotPath]]

Durable(dir) == \A d \in Dirs : d <= dir => d \in kept
Remains(path) == bytes[path] \cup names[path]
Outcomes(path) == Remains(path) \cup (IF Durable(Depth(path)) THEN {} ELSE {NoFile})

Opens(dir) == [target |-> dir, at |-> dir]

Init ==
  /\ made = Standing /\ kept = 1 .. Standing /\ opening = Opens(Base)
  /\ content = [p \in Path |-> NoFile]
  /\ bytes = [p \in Path |-> {NoFile}]
  /\ names = [p \in Path |-> {}]
  /\ call = NoOp /\ pc = "missing" /\ deleted = FALSE
  /\ before = View
  /\ settled = content
  /\ begun = names
  /\ deaths = 0

-----------------------------------------------------------------------------
(* The file system.                                                        *)

\* File::create: an empty file under a new name, or the old file cut to
\* nothing.
Create(path) ==
  /\ content' = [content EXCEPT ![path] = Torn]
  /\ IF content[path] = NoFile
     THEN /\ bytes' = [bytes EXCEPT ![path] = {Torn}]
          /\ names' = [names EXCEPT ![path] = @ \cup {NoFile}]
     ELSE /\ bytes' = [bytes EXCEPT ![path] = @ \cup {Torn}]
          /\ UNCHANGED names

WriteAll(path, value) ==
  /\ content' = [content EXCEPT ![path] = value]
  /\ bytes' = [bytes EXCEPT ![path] = @ \cup {value}]
  /\ UNCHANGED names

SyncFile(path) ==
  /\ bytes' = [bytes EXCEPT ![path] = {content[path]}]
  /\ UNCHANGED <<content, names>>

Rename(from, to) ==
  /\ content' = [content EXCEPT ![to] = content[from], ![from] = NoFile]
  /\ bytes' = [bytes EXCEPT ![to] = bytes[from], ![from] = {NoFile}]
  /\ names' = [names EXCEPT ![to] = @ \cup bytes[to], ![from] = @ \cup bytes[from]]

Unlink(path) ==
  /\ content' = [content EXCEPT ![path] = NoFile]
  /\ bytes' = [bytes EXCEPT ![path] = {NoFile}]
  /\ names' = [names EXCEPT ![path] = @ \cup bytes[path]]

\* The flush of a directory settles the names in it, of directories too.
SyncDir(dir) ==
  /\ names' = [p \in Path |-> IF Depth(p) = dir THEN {} ELSE names[p]]
  /\ kept' = kept \cup {d \in Dirs : d <= made /\ d = dir + 1}
  /\ UNCHANGED <<content, bytes, made>>

-----------------------------------------------------------------------------
(* FileStorage::new: create_dir_durable for the node's directory, then for *)
(* its logs.                                                               *)

\* The next directory is created, or the call has come to its end.
GoesOn(dir) ==
  IF dir < opening.target THEN pc' = "mkdir" /\ opening' = [opening EXCEPT !.at = dir + 1]
  ELSE IF opening.target = Base THEN pc' = "missing" /\ opening' = Opens(Logs)
  ELSE pc' = "idle" /\ UNCHANGED opening

\* The search stops at the first ancestor that is there.
FindMissing ==
  /\ pc = "missing"
  /\ GoesOn(IF made < opening.target THEN made ELSE opening.target)
  /\ UNCHANGED <<dirVars, fsVars, call, deleted, ghostVars, deaths>>

MakeDir ==
  /\ pc = "mkdir" /\ pc' = "mkdurable"
  /\ made' = opening.at
  /\ UNCHANGED <<kept, opening, fsVars, call, deleted, ghostVars, deaths>>

\* Mutant of FlushParent: the new directory is flushed, not the one that names it.
FlushItself ==
  /\ pc = "mkdurable"
  /\ SyncDir(opening.at)
  /\ GoesOn(opening.at)
  /\ UNCHANGED <<call, deleted, ghostVars, deaths>>

\* The parent of a relative path's first directory is the empty path, which
\* the code passes over.
FlushParent ==
  /\ pc = "mkdurable"
  /\ IF opening.at # Shared \/ Rooted THEN SyncDir(opening.at - 1)
     ELSE UNCHANGED <<dirVars, fsVars>>
  /\ GoesOn(opening.at)
  /\ UNCHANGED <<call, deleted, ghostVars, deaths>>

-----------------------------------------------------------------------------
(* persist.                                                                *)

\* The file a call writes, and what it is to hold.
Target(op) == CASE op.kind = "Meta"     -> MetaPath
                [] op.kind = "Snapshot" -> SnapshotPath
                [] op.kind = "LogEntry" -> LogPath(op.index)
NewContent(op) == CASE op.kind = "Meta"     -> op.meta
                    [] op.kind = "Snapshot" -> op.snap
                    [] op.kind = "LogEntry" -> op.entry

Replaces(op) == op.kind \in {"Meta", "Snapshot"}
Written(op) == IF Replaces(op) THEN Tmp(Target(op)) ELSE Target(op)
DirOf(op) == Depth(Target(op))

\* Mutant of WriteSteps: the directory is not flushed.
WriteStepsNoDir(op) ==
  IF Replaces(op) THEN <<"create", "write", "fsync", "rename">>
                  ELSE <<"create", "write", "fsync">>

\* The steps of a write: `replace` for the metadata and the snapshot,
\* `write_durable` in place for an entry, then the directory.
WriteSteps(op) ==
  IF Replaces(op) THEN <<"create", "write", "fsync", "rename", "syncdir">>
                  ELSE <<"create", "write", "fsync", "syncdir">>

FirstStep(op) == IF op.kind = "DeleteLogs" THEN "unlink" ELSE WriteSteps(op)[1]

\* Mutant of After: a call ends without returning.
AfterNothing(op, step) ==
  LET steps == WriteSteps(op)
      at    == CHOOSE k \in DOMAIN steps : steps[k] = step
  IN  IF op.kind = "DeleteLogs" \/ at = Len(steps) THEN "idle" ELSE steps[at + 1]

\* The step after this one, or "return".
After(op, step) ==
  LET steps == WriteSteps(op)
      at    == CHOOSE k \in DOMAIN steps : steps[k] = step
  IN  IF op.kind = "DeleteLogs" \/ at = Len(steps) THEN "return" ELSE steps[at + 1]

\* What a call may leave at each path when it does not return.
MayLeave(op, path) ==
  CASE op.kind = "DeleteLogs" -> IF \E i \in Deleted(op) : path = LogPath(i) THEN {NoFile} ELSE {}
    [] op.kind = "LogEntry"   -> IF path = Target(op) THEN {Torn, op.entry} ELSE {}
    [] OTHER                  -> IF path = Target(op) THEN {NewContent(op)} ELSE {}

PersistBegins(op) ==
  /\ pc = "idle" /\ op.kind \in Kinds
  /\ call' = op /\ pc' = FirstStep(op) /\ deleted' = FALSE
  /\ before' = View
  /\ begun' = [p \in Path |-> begun[p] \cup MayLeave(op, p)]
  /\ UNCHANGED <<dirVars, opening, fsVars, settled, deaths>>

Begins ==
  \/ \E v \in Value : PersistBegins(MetaOp(v)) \/ PersistBegins(SnapshotOp(v))
  \/ \E i \in Index, v \in Value : PersistBegins(LogEntryOp(i, v))
  \/ \E from \in Index, to \in 1 .. MaxIndex + 1 : PersistBegins(DeleteLogsOp(from, to))

Step(step) == pc = step /\ pc' = After(call, step)

WriteStep ==
  /\ \/ Step("syncdir") /\ SyncDir(DirOf(call))
     \/ /\ \/ Step("create") /\ Create(Written(call))
           \/ Step("write")  /\ WriteAll(Written(call), NewContent(call))
           \/ Step("fsync")  /\ SyncFile(Written(call))
           \/ Step("rename") /\ Rename(Tmp(Target(call)), Target(call))
        /\ UNCHANGED dirVars
  /\ UNCHANGED <<opening, call, deleted, ghostVars, deaths>>

\* remove_logs: the files of the range in whatever order the directory lists
\* them, then one flush if any was there.
Listed == {i \in Deleted(call) : content[LogPath(i)] # NoFile}

RemoveOne ==
  /\ pc = "unlink"
  /\ \E i \in Listed : Unlink(LogPath(i))
  /\ deleted' = TRUE
  /\ UNCHANGED <<dirVars, opening, call, pc, ghostVars, deaths>>

RemoveEnds ==
  /\ pc = "unlink" /\ Listed = {}
  /\ pc' = "return"
  /\ IF deleted THEN SyncDir(Logs) ELSE UNCHANGED <<dirVars, fsVars>>
  /\ UNCHANGED <<opening, call, deleted, ghostVars, deaths>>

\* The call returns Ok: what a write stored is settled.
PersistReturns ==
  /\ pc = "return"
  /\ call' = NoOp /\ pc' = "idle" /\ deleted' = FALSE
  /\ IF call.kind = "DeleteLogs"
     THEN UNCHANGED <<settled, begun>>
     ELSE /\ settled' = [settled EXCEPT ![Target(call)] = NewContent(call)]
          /\ begun' = [begun EXCEPT ![Target(call)] = {}]
  /\ before' = View
  /\ UNCHANGED <<dirVars, opening, fsVars, deaths>>

-----------------------------------------------------------------------------
(* The node stops - an I/O error stops it too - and is opened again.       *)

Reopened == call' = NoOp /\ pc' = "missing" /\ opening' = Opens(Base) /\ deleted' = FALSE

ProcessDies ==
  /\ deaths < MaxDeaths /\ deaths' = deaths + 1
  /\ Orphans \/ kept = 1 .. made
  /\ Reopened
  /\ before' = View
  /\ UNCHANGED <<dirVars, fsVars, settled, begun>>

\* A directory not flushed into its parent goes with all under it, or comes
\* back; every path comes back with one of its outcomes, whatever the others do.
Unsettled == {p \in Path : Remains(p) # {content[p]}}
PowerLoss ==
  /\ made' \in {d \in 0 .. made : d + 1 \notin kept}
  /\ kept' = 1 .. made'
  /\ \E back \in [Unsettled -> Content \cup {NoFile}] :
       /\ \A p \in Unsettled : back[p] \in Remains(p)
       /\ content' = [p \in Path |-> IF Depth(p) > made' THEN NoFile
                                    ELSE IF p \in Unsettled THEN back[p] ELSE content[p]]
  /\ bytes' = [p \in Path |-> {content'[p]}]
  /\ names' = [p \in Path |-> {}]
  /\ Reopened
  /\ before' = View'
  /\ settled' = content'
  /\ begun' = names' /\ deaths' = 0

Next == FindMissing \/ MakeDir \/ FlushParent
        \/ Begins \/ WriteStep \/ RemoveOne \/ RemoveEnds \/ PersistReturns
        \/ ProcessDies \/ PowerLoss

Spec == Init /\ [][Next]_vars

-----------------------------------------------------------------------------
(* Correctness.                                                            *)

\* Every path has a value for each question asked of it, and the step is one
\* of a persist's.
Opening == {"missing", "mkdir", "mkdurable"}
TypeOK ==
  /\ content \in [Path -> Content \cup {NoFile}]
  /\ bytes \in [Path -> (SUBSET (Content \cup {NoFile})) \ {{}}]
  /\ names \in [Path -> SUBSET (Content \cup {NoFile})]
  /\ made \in {0} \cup Dirs /\ kept \subseteq 1 .. made
  /\ opening \in [target : {Base, Logs}, at : Dirs]
  /\ pc \in Opening \cup {"idle", "create", "write", "fsync", "rename", "syncdir", "unlink", "return"}
  /\ (pc \in Opening \cup {"idle"}) <=> (call = NoOp)
  /\ pc \notin Opening => made = Logs
  /\ deleted \in BOOLEAN /\ deaths \in 0 .. MaxDeaths

\* What a write stored before it returned is what a power loss at any later
\* point brings back, until another call on the same file begins - even when
\* the process died and was started again any number of times in between, and
\* whichever of its directories the node had to make.
\* The metadata and the snapshot are never cut short.
PersistedSurvives ==
  \A p \in LogsDir \cup {MetaPath, SnapshotPath} : Outcomes(p) \subseteq {settled[p]} \cup begun[p]

\* FileStorage keeps the contract: each persist is atomic but for what
\* Interrupted allows, what returned stays in the order it was asked, and a read
\* sees what was last written - while processes die, and through every power
\* loss. But the next process reads what the kernel still held of a persist
\* the last one died in, and that the machine may lose; so the power loss
\* after a process died alone is not held to the contract.
Disk == IF call = NoOp THEN View ELSE before
Contract == INSTANCE EzStorageContract WITH disk <- Disk, pending <- call
LosesUnread == deaths # 0 /\ deaths' = 0
ImplementsContract == Contract!Init /\ [][LosesUnread \/ Contract!Next]_<<Disk, call>>
=============================================================================
