# ezraft in TLA+

A verification development for ezraft: models of what the framework adds around
openraft, checked with TLC on small instances, and theorems about them proved
with TLAPS for every instance. Paths are relative to the repository, whose Rust
sources are under `src/`.

## 1. The system

ezraft turns an application (`EzApp`) and a storage (`EzStorage`) into a
replicated HTTP service. openraft does the consensus; ezraft is everything
between it and the user. Its own logic is small and sits at the places where
things go wrong: what is written in which order, which lock is held across what,
what a restart finds, who is asked when the leader is gone.

| component | state | operations | talks to |
|---|---|---|---|
| storage contract (`storage/mod.rs`, `persist.rs`, `loaded.rs`) | what is stored: metadata, entries, snapshot | `load`, `persist` (Meta, LogEntry, Snapshot, DeleteLogs), `read_logs` | implemented by the user; called by the adapter |
| log store (`storage/adapter/log.rs`) | the cached `EzMeta` under a mutex | `save_vote`, `append`, `truncate_after`, `purge`, `try_get_log_entries`, `save_meta` | openraft's core task and its readers; storage |
| state machine store (`storage/adapter/state_machine.rs`) | the application with its position and membership, the cached snapshot, each under a mutex | `apply`, `install_snapshot`, `build_snapshot`, `get_current_snapshot`, `read` | openraft's worker, a task per build; storage; reads the log through the stream it applies |
| adapter (`storage/adapter/mod.rs`) | the storage both stores share, under a third mutex | `open` | both stores |
| file storage (`storage/file_storage.rs`) | files in two directories | the three methods of the contract, `create_dir_durable` | the file system |
| node (`raft.rs`) | id, address, the promotion in flight | `create`, `join`, `join_as_learner`, `serve`, `write`, `read`, `linearizable`, membership changes | openraft, the admin client |
| HTTP server (`server.rs`) | none of its own | raft RPCs, `/api/write` with forwarding, `/api/node_id`, `/api/membership` with redirects | the node |
| HTTP network (`network.rs`) | one client per node | openraft's RPCs | the peers' servers |
| admin client (`admin/`) | the address asked, the attempts left | `node_id`, `membership`, `metrics` | the peers' servers |
| configuration (`config.rs`) | none | `to_raft_config` | openraft |
| timestamp oracle (`examples/timestamp_oracle.rs`) | the replicated mark; the leader's reservation, under a lock | the reserver task, requests for a timestamp | the node: `linearizable`, `write` |

How they interact: openraft calls the two stores from four tasks (its core, a
log reader, the state machine worker, a snapshot build); the stores share one
storage behind a mutex and each guards its caches with mutexes of its own. The
process may stop at any await and the machine may lose power at any write. Nodes
talk over HTTP with timeouts and retries, and anything one node knows of another
may be stale.

What makes each correct:

- *Log store*: the two positions never promise an entry that is not there whole;
  what was acknowledged stays; a vote that was saved stays; a reader finds all of
  the range it clamped; what the log no longer has, a snapshot covers.
- *State machine store*: position, membership and data always belong together;
  calls return whatever the interleaving.
- *File storage*: what returned survives a power loss, what did not is one of the
  outcomes the contract allows.
- *Node, admin client, admin endpoints*: ids are unique, a quorum counts only nodes
  that can answer, a restart does not change a role, what a request was told is so,
  only a removal takes a member out, no change blocks the cluster for ever.
- *Configuration*: no node runs with timeouts other than the documented multiples.
- *Linearizable reads, timestamp oracle*: a read sees what was acknowledged before it; no
  timestamp comes twice, none out of order, none far ahead of the clocks.
- *Write path*: forwarding does not go round, an answered write was applied, no leader
  takes one write twice, and every write is answered, but one that waits at a leader
  without a majority.

`PROJECT.json` lists the hazards one by one, with the line where each bites and
the properties that watch it.

## 2. The modules

```
EzStorage            the persist operations: done, and cut short
 +- SharedStorage    log ids, the disk, the mutexes
 |   +- LogStore           adapter/log.rs
 |   +- StateMachineStore  adapter/state_machine.rs
 |        +- StorageAdapter         both, driven by openraft, stopped and reopened
 |             +- MCStorageAdapter        instances for TLC
 |             +- StorageAdapter_proofs   theorems: types, wholeness, positions, the vote
 |                  +- StorageAdapterLog_proofs  theorems: what is kept of the cluster's log
 +- EzStorageContract  the abstract storage
 +- FileStorage        file_storage.rs; implements EzStorageContract
     +- FileStorage_proofs    theorems: types, what survives
         +- FileContract_proofs   theorem: the refinement

Cluster              openraft's leaders, membership and quorums, as ezraft relies on them
 +- ClientWrite      server.rs (the write endpoint)
 |   +- ClientWrite_proofs   theorems
AdminClient          admin/client.rs
EzConfig             config.rs
 +- Administration   raft.rs (start, join, roles), server.rs (admin endpoints), with
     |               Cluster, AdminClient and EzConfig
     +- Administration_proofs   theorems: types, timeouts, ids, voters, answers, restarts

TimestampOracle      examples/timestamp_oracle.rs over raft.rs's linearizable, write, read
 +- MCTimestampOracle              the instance for TLC, with its symmetry
 +- TimestampOracle_proofs         theorems: types, order, uniqueness
     +- TimestampOracleMarks_proofs  theorems: what the marks bound
```

### EzStorage, EzStorageContract

The stored state is `[meta, logs, snap]`. `Apply(d, op)` is what a persist that
completes does; `Interrupted(d, op)` is the set of states it may leave when the
node stops inside it or it returns an error: the metadata and the snapshot are old
or new, an entry may also be torn (it is written in place), a range may be deleted
in part. The adapter is modelled over `Interrupted`, so its properties hold for
any storage no worse than that; `FileStorage` is shown not to be worse, by
refinement of `EzStorageContract`.

### LogStore

`core` is the call openraft's core task is in, `[op, pc, id, entries, next]`. A
call takes the cache's mutex, then storage's, then persists in the stages
`NextStage` gives: entries one by one and then the positions (`append`), the
positions and then the deletes (`truncate_after`, `purge`), the positions alone
(`save_vote`). Each persist is a step, so a reader, a restart or an error may come
between any two. `NewMeta` is the metadata recorded, through `PersistMeta`, which
makes the positions consistent as `persist_meta` does. `CoreFails` is the error
path: the cache keeps what was assigned before the persist, the mutexes go, and
openraft stops the node (`failed`). `reader` is one call of `try_get_log_entries`,
which clamps its range under both mutexes and keeps them until it has read.

### StateMachineStore

`worker` is the job of openraft's state machine worker, `apply` or
`install_snapshot`; `builder` is a snapshot being built by a task of its own.
`apply` holds the state's mutex across the whole batch and takes the log's two for
each entry the stream reads. An installation stores and caches the snapshot under
one mutex and replaces the state under another afterwards. A build captures under
the state's mutex, gives it up, and stores under the snapshot's. The application
is the sequence of requests applied, so that data which does not belong to its
position is visible.

### StorageAdapter

Puts the two over one disk, adds openraft and restarts. openraft and the other
nodes are external, modelled by what the code relies on: `LeaderLog[t]` is the log
of the leader of term `t`; the node follows the leader of the term it last voted
in; entries that conflict with it are cut before new ones are appended; only what
every later leader has too (`Committable`) is applied; a snapshot is installed only
past everything committed here, and the purge that follows it is queued ahead of
every other call (`owed`). `Restart` may happen in any state: storage comes back as
one of the `Survivors` of the persist it was inside, both stores are filled from one
load, and openraft purges a log that ends before the state it found. Four ghosts
record what openraft was told: `promised` (votes), `acked` (entries called back with
Ok), `known` (snapshots), `owed`.

### FileStorage

A file system in which a file's bytes and the name that reaches it become durable
separately. `content` is what a read returns now; `bytes[p]` and `names[p]` are what
a power loss may bring back for path `p`. A `persist` is its sequence of create,
write, fsync, rename, fsync of the directory, one step each; a deletion removes one
file per step in any order and flushes the directory if it removed any.

The directories are three: one that nodes share (`./data`), the node's own and its
`logs`. `made` is the innermost there is, `kept` those whose entry in their parent is
durable. `FileStorage::new` is `opening`: `FindMissing` looks for the innermost that
exists, then `MakeDir` and `FlushParent` alternate down to the target, first for the
node's directory, then for `logs`; a `persist` comes after both. `Rooted` says whether
the path given has a parent above its first directory; a relative path of one name has
not, and `FlushParent` passes over the empty path as the code does.

`ProcessDies` loses nothing the kernel holds, in `new` as in `persist`, and the next
process goes through `new` again; `PowerLoss` picks an outcome for every path, and may
take away a directory that is not durable with all that is under it. `Orphans` says
whether a process may die between making a directory and flushing it into its parent.

The contract knows one kind of stop. A process that dies alone inside a persist leaves
what the kernel still held: the next process reads it, and the machine may lose it
afterwards. So `ImplementsContract` holds every step to `EzStorageContract` but the power
loss that follows such a death (`LosesUnread`); what that loss may bring back is
`PersistedSurvives`, which has no exception.

### Cluster

What openraft keeps, external: `leaders` (who led each term), `view` (what a node's
metrics say of the leader), `config` and `stable` (the latest membership in the
leader's log and the latest committed one), `index` (of the last blank entry). A
membership is a sequence of one or two sets of voters and a function from ids to
addresses; a machine stands for its address. `WithVoters` is openraft's next step
towards a set of voters: uniform if that set is one of the halves already, joint
otherwise; without `retain`, a voter that is in no half any more leaves the members
too. A leader commits with a quorum of both halves, and openraft reaches a voter by
its address alone, so an id nobody runs does answer if its address does. A new leader
may lack a change that was not committed.

### AdminClient

`call[c]` is the request a client is in, `wire` the attempts under way. `Ask` spends an
attempt at the current target; `Unanswered` gives the loop's three ways on: the same
target after an error, the leader's address after a redirect, the end when no attempt is
left. `AttemptFails` is any error, the timeout included: what was sent may still be
handled later, with nobody to tell (`Nobody`). Waiting between attempts is a delay.

### EzConfig

`RaftConfig` is `to_raft_config` in numbers of `MaxMs + 1` values, multiplication
wrapping as a release build's does. In `Administration` each machine is given an interval
(`heartbeat[m]`), and no process starts on a configuration openraft refuses (`Open`): it
ends before it has asked for an id.

### Administration

`at[m]` follows a process through `EzRaft::new` and `serve_with`: `Reopen`, `Create`
and `Join` are the three branches for the id; `Enter`, `SaveId` and `Start` the `Add`,
the `save_meta` and the promotion spawned; `Promoted`, `PromotionFails` and
`ServerFails` the race between promotion and server. `Stop` may come anywhere, and only
`id` (the storage) is left. The handlers are steps of an attempt on the wire:
`Redirect`, `HandOutId`, `PlanRemoval` (the read of `remove_node`, apart from the
change), `Propose`, and `LeaveJoint`, the second step of `change_membership`, which
resolves whatever joint configuration there is by then, with the `retain` of the call it
belongs to. Operators ask for promotions, demotions and removals beside all this. Three
ghosts: `held` (changes in force since they were asked for), `settled` (machines that
went down as learners with nobody promoting them), `unpromoted` (machines whose
`serve()` reported a failed promotion). `InForce` says what each change is for: a removal is
in force when the node is a member no more, of either half.

### TimestampOracle

`reserved[n]` is the `Reserved` behind the lock of `TimeService`, `refill[n]` how far the
reserver task of node n has come: it asks for the term (`RefillAsks`: `linearizable` is
granted and anchored), looks whether the reservation covers half a width (`RefillLooks`),
writes (`RefillWrites`, in whatever term the node leads by then), is answered when the
entry is applied here (`Apply`), and installs the interval under the term it asked in
(`RefillInstalls`). A request takes the lock and asks for the term (`Ask`), and once
what it is anchored to is applied takes the next timestamp or is refused (`Take`); while it waits, `linearizable`
may fail or the client go away (`AskFails`, and `RefillFails` for the task). The
clock is any value of `Clock` at every reading, so clocks disagree and go back.

openraft is `leaders`, `wrote` (what each term's leader wrote, in order) and `log`, to
which each term adds its blank entry and then a prefix of what was written in it. The
entries of a deposed leader may be committed after it (`CommitWrite` needs no leader), more of them
than in openraft, where the next leader's blank entry ends them; the safety properties hold with the
more. A lease is not a variable: a leader may be granted a read at any moment until
another is elected, which is all that a valid lease means. `Stop` restarts a node: its
reservation, its task and the requests at it are gone and its log is applied anew, and
it may lead on in its term. Ghosts: `before` (the requests answered when one was asked)
and `acked`, `acknowledged` (the highest mark a write was answered with), `fastest`.

### ClientWrite

`chain[w]` is the handlers of write `w`: the first at the node the client asked, each
further one at the node the one before forwarded to, with `via`, the term whose leader
that was. A handler submits (`Submit`, at a node that leads as far as it knows), or is
told to forward (`Refused`: at once, or when its entry is cut off by a later leader's
log) and then forwards to another node (`Forward`) or, when none is named, waits and
tries once more (`Hold`, `TryAgain`); it responds when its entry is applied, relays
the answer of the next, or gives the next up (`ForwardFails`), which may go on without
it. Entries of a deposed leader stay in `log` and may be applied by a later one or
never. The membership is fixed, one of `Electorates` as its voters and the other machines
learners: a learner takes writes and forwards them as a voter does. `Entrances` are the
machines clients write to.

## 3. The runs

| run | asks | result |
|---|---|---|
| `adapter_safety` | nine invariants of the adapter, through every interleaving, error and stop | holds, 507 000 states |
| `adapter_liveness` | every call returns; the queued purge is reached | holds, 53 000 states |
| `adapter_overlap` | is the log purged past the snapshot when a build and an installation overlap? | yes: violated |
| `file_storage` | from no directory at all: does what returned survive any sequence of deaths and power losses, and is the contract implemented? | holds, 1 512 000 states |
| `file_forgets` | is every new directory's entry durable, whatever the path given? | no: violated |
| `admin_safety` | are answers true and roles kept, with late attempts, a stop, a demotion or removal and a new leader? | holds, 1 692 000 states |
| `admin_joins` | two machines join at once and a process dies: whose ids, whose votes, and is every change settled in the end? | holds, 322 000 states |
| `timestamp_oracle` | are timestamps unique and in order through a change of leader, late commits and a restart? | holds, 1 344 000 states |
| `client_write` | where does a write go while leaders are deposed, unaware or stopped, with a majority left and without? | holds, 452 000 states |
| `admin_demotion` | does only a removal take a member out? | no: violated |
| `admin_removal` | does a removal answered with success leave no member behind? | no: violated |
| `admin_promotion` | does a promotion that failed stay failed? | not always: violated |

Properties of the adapter, in `StorageAdapter`:

- `ReachableWhole`: every index between the purge point and the last log id holds an
  entry that parses, on disk and under the cached positions.
- `AckedSurvive`: an entry called back with Ok and not overwritten by a leader is what
  a restart finds, or the log is purged past it.
- `PurgeCovered`: the durable purge point is covered by the durable snapshot.
- `PositionsOrdered`: what openraft checks at startup - no last log id before the
  purge point, in the order of (term, index) tuples. It says nothing of a stale tail of a
  later term, which stays the last log id with its index below the purge point (below);
  that nothing of such a tail comes back is `LogIsOneLeaders` and `ReachableWhole`.
- `VoteKept`: no saved vote is lost to another call's write of the metadata.
- `ReadsFindWhole`: a reader that clamped its range, and the applied stream, find
  every entry until they give their mutexes up.
- `StateCoversPosition`: in the running state, the cached snapshot, the stored one and
  the one being built, the data is what applying the log up to the position makes.
- `LogIsOneLeaders`: the readable log is a piece of one leader's log: entries an
  interrupted append or truncation left behind never come back among later ones.
- `CallsReturn`, `PurgeFollowsInstall`: liveness.

In `FileStorage`: `PersistedSurvives` (what a returned write stored is the only thing
a power loss brings back until another call on that file begins, also when its
directory goes) and `ImplementsContract` (each call is atomic but for what the contract
allows, in the order it was asked, and a read sees what was last written).

In `TimestampOracle`:

- `InOrder`: a request asked after another was answered gets more, whoever answered.
- `Distinct`: no two answers are the same, of requests under way at once too.
- `NeverFarAhead`: an answer is less than a width ahead of the fastest clock so far.
- `SeesAcknowledged`: when `linearizable` returns, the local state covers every write
  acknowledged before it was called.

In `Administration`:

- `IdsUnique`: no two machines hold, or join with, one id, and such an id is a member
  under its machine's address only.
- `QuorumIsReal`: every voter, of a joint configuration too, is the id its machine has
  stored. A process that dies between `Add` and `save_meta` leaves a member nobody is;
  it is never counted.
- `AnsweredMeansDone`: a change answered with success was committed and in force at some
  time since it was asked for: an addition, a promotion, a demotion, and the removal of a
  node that `remove_node` found a learner.
- `RemovedMeansForgotten`: the same of every removal, as `remove_node`'s comment has it. The
  removal of a voter does not keep it, below.
- `RestartKeepsLearner`: a machine that went down as a learner, nobody promoting it, is
  no voter until an operator makes it one.
- `OnlyRemovalForgets`, `FailedPromotionStaysFailed`: what the docs say of `demote` and
  of `join`; both have counterexamples too.
- `ConfigExact`: every node that starts runs with election timeouts of exactly three and
  six intervals, though nothing looks for an overflow.
- `ChangesSettle`: a change in the leader's log does not stay uncommitted for ever.

In `ClientWrite`:

- `ForwardsClimb`: along a chain the terms of the leaders forwarded to strictly grow, so
  nodes that know different leaders do not pass a write round.
- `NeverTwiceInOneTerm`: no leader's log holds a write twice. Writes are at-least-once
  over a change of leader, as `EzRaft::write` says; within one term the node itself never
  repeats one.
- `AnsweredMeansApplied`: a response is that of a write applied.
- `AnsweredUnlessStranded`: every write is answered, with an error at worst: when the node it
  was forwarded to is gone for good or waits itself for a majority that does not come back,
  when no leader is known and none is ever elected. The one exception is a write that is in
  the log of the node it was sent to while too few voters run: `client_write` has no timeout.

### Bounds, and why they are enough

`AdapterSafety` has three indexes and four terms, with leaders' logs chosen so that
the node's log is cut at two different points, a tail of a higher term is cut back
to one of a lower, and the third leader repeats the first (entries left behind by
one leader meet those of another). Three indexes are what it takes for an entry
below, at and above a cut. `ReadFrom = {0}` gives the reader the widest range; the
clamp is what narrows it. `Overlap = FALSE` keeps a build and an installation apart,
because together they break `PurgeCovered` (run `adapter_overlap`), and all else is
asked of the system without that. `AdapterLiveness` and `AdapterOverlap` allow it, on
two indexes and three terms. A build that falls between the two halves of an installation is therefore met in
`adapter_overlap` only. `FileStorage` starts with no directory at all and has two entries'
files beside the metadata's: the two ways of writing, the three directories, and deletions
of a range. The snapshot's file is replaced as the metadata's is, and is left to the
theorem. Restarts, errors and power losses are not bounded; a process dies alone once
between two power losses, and not between a directory's creation and the flush of its
parent (`Orphans = FALSE`): what it leaves there the next process never flushes, and TLC
refutes `PersistedSurvives` with `Orphans = TRUE` (below).

`AdminSafety` has the creator, one machine that joins as a voter, one operator with one
demotion or removal, one attempt at a time that was given up on and is handled late, one stop or
server failure and one election held against a leader that runs: the smallest instance
in which a promotion, its own retry and a demotion are in one membership change's way.
`Attempts = 2` (twenty in the code) is one attempt and one retry; what the rest could
add is more of the same late attempts, which `MaxLate` bounds. `AdminJoins` has three
machines, of which two join at once, one as a voter, with one stop, and leaves
operators and late attempts to the other instance: that ids stay unique when attempts come
late over several terms is the theorem's. `AdminRemoval` has two operators and two
requests, demotions or removals, so that the removal of a voter and its demotion meet; no
attempt is late and nothing stops in it: the order of the calls is enough. `MaxIndex` is the ids handed out:
one for each join and one for a join repeated after a stop (in `AdminSafety` one, for
the one machine that joins). `AdminJoins` is also the liveness instance, so its
fairness is on; invariants do not depend on it. Its
machines may be given one of three intervals, of numbers up to `MaxMs = 255`: 5, which
fits, and two that wrap: 86, whose threefold comes to less than itself and is refused by
the first comparison, and 150, whose threefold still looks right and whose sixfold, wrapped
three times, is refused by the second. All others are the theorem's.

`TimestampOracle` has two nodes and two requests (a refused one may be made again), two
terms with two writes each, one stop, clocks that read 0 or 1 and numbers up to 3, which
a mark of `now + width` with width 2 just reaches, so that no sum saturates. A leader deposed and elected again while its reservation of the
first term is installed takes three terms; that is left to the theorems, which bound
nothing.

`ClientWrite` has one write - writes do not meet except in the log's order, which nothing
here depends on - three nodes, one stop and one election held against a leader that runs,
so that chains of three nodes occur and a deposed leader may not know it. The voters are
all three, of whom two go on after a stop, or a and b, of whom neither can commit or be elected
when the other stops: then no leader ever comes, and a write waits or is given up as the
code has it. Clients write to a, a voter that may lead, and to c, which is a learner when
there are two voters; b is as a.

### Fairness

`FairSpec` assumes that a task which can go on does, and that one which is able to go
on again and again gets to (strong fairness of the core's, the reader's, the worker's
and the builder's steps). tokio's mutex is fair: it queues its waiters and hands
itself to the first, so a task waiting for a mutex that is given up again and again
gets it. A persist returns. openraft runs the purge it queued (weak fairness of
`RequestPurge` while one is owed). Nothing is assumed of requests, errors, restarts.

In `ClientWrite` a handler goes on and its timeouts end it, openraft elects some leader when
there is none and a majority runs, a deposed leader finds out, and what a leader's log holds is applied. No
node that stopped is assumed to be started again.

In `Administration` a process that was started goes on and one that ended is started
again, by whoever runs it; the client's loop goes on, because reqwest's timeout ends
every attempt; openraft elects a leader when there is none and commits what a quorum has
(its side of the contract). Nothing is assumed of handlers (an attempt may never be
answered), operators, stops and failures, which are bounded.

### What the violations show

- `adapter_overlap`: a build captures the state at an older position and gives up its
  mutex; the leader's newer snapshot is installed, stored and cached; the build then
  takes the snapshot's mutex and stores the older one over it; openraft purges up to
  the installed snapshot. The purge point is durable and the snapshot that covers it
  is not, which the comment at `state_machine.rs:227` calls unrecoverable.
- `file_forgets`: the directory given is `data`. Its parent is the empty path, which
  `file_storage.rs:306` filters out, so the working directory is not flushed when `data`
  is created in it. A vote is persisted, acknowledged and durable inside `data`; the
  power loss takes `data`. With `./data`, as in the README, the parent is `.` and the
  entry is flushed. The same property fails for any path when a process dies between
  creating a directory (line 298) and flushing its parent (line 309): the next one finds it
  there (line 288) and never flushes it. `Orphans = TRUE` in `FileStorage.cfg` shows it, in a
  trace of 16 states; no run is spent on it.
- `admin_demotion`: b is being promoted; its joint configuration is committed and the
  handler has yet to ask for the second step. A demotion of a is admitted, made joint
  and committed. The promotion's second step then leaves the demotion's joint
  configuration, with the `retain = false` `promote` passes (`raft.rs:404`): a is not a
  learner but gone.
- `admin_removal`: b's promotion has made the membership joint, and b stands in its new
  half. `remove_node` finds b a voter (`raft.rs:457`) and chooses `RemoveVoters`; before it
  changes anything, a demotion of b is committed. `RemoveVoters` of a node that is no voter
  changes nothing, the removal is answered with success, and b is still a member and
  receives the log, where the comment says that the cluster "forgets it" (`raft.rs:433`) and
  a test that nothing is left behind (`tests/membership.rs:219`). One operator is enough: the
  second step of b's own promotion may resolve the removal's joint configuration between its
  two steps.
- `admin_promotion`: the attempt that made the change times out; what is left of the
  attempts is refused while the change is in flight; `serve` returns the error and
  aborts the server; the change is committed and the node is a voter. In a cluster of
  one voter the change waits for the very server that was aborted, until the process is
  started again.

### What the docs say otherwise

Three things the docs say and the passing runs contradict are listed as findings beside the
violations:

- `docs/guide.md:255` says that `FileStorage` "does not `fsync`, so a machine crash can lose
  a vote or a log entry the node already acknowledged". It does flush, each file and the
  directory that names it, as its own comment says (`file_storage.rs:49`): `file_storage` takes
  the power at every step and finds what was acknowledged. The guide is out of date, but for the
  path names of `file_forgets` and a death while directories are made.
- `docs/guide.md:325` says that writes fail after about ten seconds when the majority is lost.
  They do at a node that forwards or waits for a leader. At the leader itself `client_write` has no
  timeout (`server.rs:194`), and the write waits for as long as the majority stays away: it is
  the exception of `AnsweredUnlessStranded`, without which TLC refutes it on the same instance.
- `state_machine.rs:186-188` says that the purge after an installation records `last_purged`
  and, through the invariant of the metadata, `last_log_id`. The repair compares (term, index)
  tuples (`log.rs:87`): a stale tail of a later term, (2, 1), stays the last log id over a purge
  point (1, 2). `adapter_safety` comes to such states, and what it asserts of them holds:
  `PositionsOrdered`, which is what openraft checks, by the order of tuples, and that nothing of
  the tail is read or counted.

Each mutant in `PROJECT.json` is a change of the code a reviewer could miss (deleting
before recording the position, restoring the position without the data, not flushing
the directory ...), and the run it names finds the property violated under it.

## 4. What is proved

`StorageAdapter_proofs`, for every `MaxIndex`, `MaxTerm`, `LeaderLog`, `ReadFrom`,
`Overlap` and classification of entries that satisfy the modules' assumptions:

| theorem | property |
|---|---|
| `TypeCorrect` | `Spec => []TypeOK` |
| `ReachableAlwaysWhole` | `Spec => []ReachableWhole` |
| `PositionsStayOrdered` | `Spec => []PositionsOrdered` |
| `VoteAlwaysKept` | `Spec => []VoteKept` |

The assumptions are `MaxIndexAssumption` and `MaxTermAssumption` (naturals),
`LeaderLogAssumption` (any table of leaders' logs; agreement between leaders is not
needed for these four) and `KindsAssumption`.

The invariant is `IInv`. Types and wholeness are proved together: the log id that
`truncate_after` and `purge` record is read from an entry, which has a term only
because the entry is whole. Beyond the two it says

- `CallInv`: each call is at a stage of its kind, and the cached metadata is the
  stored one until a persist failed (a failed node makes no further call);
- `AppendInv`: an append writes past the log's end, and what it has written so far is
  whole - so neither an entry nor a torn one lands within reach, and the positions it
  records at the end promise only what it wrote;
- `TruncateInv`, `PurgeInv`: the positions are moved first, so the range deleted
  afterwards is out of reach;
- `OwedInv`: the purge queued behind an installation moves the purge point forward;
- `StreamInv`: the applied stream asks for nothing past its batch.

`InterruptedCall` and `SurvivorFacts` carry the crash argument: of whatever a
cut-short persist leaves, the metadata is the old or the one being recorded, and both
promise only whole entries. `PositionsStayOrdered` and `VoteAlwaysKept` rest on
`MetadataWrites`: only the stage that records positions changes the stored metadata.
`IInv` is also checked by TLC on both adapter instances.

`StorageAdapterLog_proofs`, for the same parameters:

| theorem | states | provided that |
|---|---|---|
| `LogStaysOneLeaders` | `Spec => []LogIsOneLeaders` | |
| `PurgeAlwaysCovered` | `Spec => []PurgeCovered` | `~Overlap` |
| `AckedAlwaysSurvive` | `Spec => []AckedSurvive` | `~Overlap` |
| `ReadsAlwaysFindWhole` | `Spec => []ReadsFindWhole` | `~Overlap` |
| `StateAlwaysCoversPosition` | `Spec => []StateCoversPosition` | `~Overlap` |

These five also use `LeaderLogsMatch`: the leaders' logs have no gaps, their terms never
decrease, and two that hold one entry agree on all before it. It is Raft's log matching,
which openraft answers for, and TLC evaluates it on every instance. `~Overlap` is the
condition under which TLC checks the five: with an installation beside a build TLC
refutes `PurgeCovered` (run `adapter_overlap`), `ReadsFindWhole` and
`StateCoversPosition`, so it cannot be dropped from those; for `AckedSurvive` it is what
the proof needs, and no counterexample without it is known.

The argument is a stack of invariants, each proved from those below it and each checked
by TLC on the instance of `adapter_safety`:

- `TaskInv`: a task past taking a mutex holds it, and the range a reader clamped stays
  readable while it reads;
- `LogInv`: an append finds the readable log to be the leader's and adds the leader's
  entries behind it; a truncation cuts before the first entry that is not; the recorded
  last log id is that of the last entry. From it, `LogIsOneLeaders`;
- `OrderInv`: the newest snapshot openraft knows of is stored and applied, nothing is
  purged past it, and one under way is newer. From it, `PurgeCovered`;
- `PosInv`, `UptoInv`: every position the node has applied, stored in a snapshot, purged
  or been told to is *final* - committable under the vote on disk, so every later leader
  has the same entry there (`CommittableFacts`) and no truncation reaches it;
- `AckedInv`: what was acknowledged is there; from the moment openraft asks for a
  truncation, only what stays below it counts. From it, `AckedSurvive`; from `TaskInv` and `PosInv`, `ReadsFindWhole`, the
  applied stream included (`NextIsFinal`: what it reads next is there, whole, and final);
- `CoverInv`: state, snapshot and the snapshot under way are each the replay of the log
  up to their position. `Replay` is a recursive function, and its equation has to be
  proved before it can be used: `ReplayExists` finds, by the pigeonhole principle on the set
  of indexes up to which a solution exists (`UpTo`), a function that satisfies it.

`TimestampOracle_proofs` and `TimestampOracleMarks_proofs`, for every set of nodes and
requests, width, largest number, clock readings, and number of terms, writes and stops
(`OracleAssumption`):

| theorem | property |
|---|---|
| `OracleTypes` | `Spec => []TypeOK` |
| `OracleInOrder` | `Spec => []InOrder` |
| `OracleDistinct` | `Spec => []Distinct` |
| `OracleNeverFarAhead` | `Spec => []NeverFarAhead` |
| `OracleSeesAcknowledged` | `Spec => []SeesAcknowledged` |

The argument of the first three is one invariant. The committed log is in the order of
the terms, so every answered timestamp of a term lies below some mark committed in that
term or an earlier one and not below any mark of an earlier term (`Lies`): timestamps of
two terms are in the order of the terms. Within a term there is one leader and one
cursor, which climbs (`NodeReserved`); what is installed at the cursor's end begins
there, and what is not, or what follows a restart that lost the cursor, begins at a mark
above all that was handed out (`InstallingInv`, `WaitingInv`: what precedes the entry a
refill waits for bounds the term's timestamps so far). The comment at
`timestamp_oracle.rs:198`, that a reservation committed under a newer term than its tag
needs no check, is `Stale` in the invariant: no request under way at the node has the
old term, and none will. `NeverFarAhead` needs only that no mark, in whatever stage, is
more than a width ahead of the fastest clock; `SeesAcknowledged` that an acknowledged
mark lies in the committed log below the anchor of every later request.

`ClientWrite_proofs`, for every set of machines and of writes and every `MaxTerm` and
`MaxStops`:

| theorem | property |
|---|---|
| `WriteTypes` | `Spec => []TypeOK` |
| `WriteClimbs` | `Spec => []ForwardsClimb` |
| `WriteOncePerTerm` | `Spec => []NeverTwiceInOneTerm` |
| `WriteAnswerTrue` | `Spec => []AnsweredMeansApplied` |

A node knows every term it led (`ViewInv`), and a handler is at the leader of the term it
was named in (`LinkInv`); so when that node names another, it is for a later term, and
the terms along a chain climb. `EntryInv` ties the log to the handlers: once a handler
does not wait for its entry any more, its node has known a later term than the entry's,
or the handler it forwarded to was named in one. So a leader that submits has never been
given the write in its term (`SubmitNew`), neither by an earlier attempt of its own nor by
a handler before it in the chain. `RefusedOver` is the step that makes this so: `ForwardToLeader`
for an entry already in the log comes from a node that follows a later leader.
`BoundInv` counts terms against stops, which bounds the chains (`MaxHops`). `IInv` is
also checked by TLC on the instance of the run.

`Administration_proofs`, for every set of machines, of those that join as voters, of
operators and of intervals, every width and number of attempts, and every bound on ids,
elections, requests, stops and late attempts:

| theorem | property |
|---|---|
| `AdminTypes` | `Spec => []TypeOK` |
| `ConfigAlwaysExact` | `Spec => []ConfigExact` |
| `IdsAlwaysUnique` | `Spec => []IdsUnique` |
| `QuorumAlwaysReal` | `Spec => []QuorumIsReal` |
| `AnswersAlwaysDone` | `Spec => []AnsweredMeansDone` |
| `RestartsAlwaysKeepLearner` | `Spec => []RestartKeepsLearner` |

These are all the invariants of it that hold (the runs `admin_demotion`, `admin_promotion` and
`admin_removal` refute three properties); only `ChangesSettle` is left to TLC. The
assumptions say who the actors are (`ActorsAssumption`: the creator is a machine, a client
is a machine or an operator and not both, operators promote, demote and remove), that
`Nobody` and `NoAddr` are neither, and that the bounds are numbers. Of `Cluster`, which is external, the proofs
use what it states, quorums apart: no property rests on how many nodes answer.

Every step is first reduced to what it does to the configurations (`ConfigSteps`), to the
calls and the attempts (`TalkSteps`, and from it `CallSteps`, `TrySteps`) and to what a
machine keeps (`ProcessSteps`); the invariants are then proved of these few forms. They
are a stack:

- `TalkInv`: the shape of the state (`ShapeInv`); an attempt that somebody waits for is
  the only one of a waiting call, for the same change (`LinkInv`); how far a process is
  says whether it has an id, a seed and a call (`ProcessInv`); every change but `NodeId`
  names an id (`GivenInv`). None of these is inductive without the others;
- `NamesInv`, from it: whatever says that an id is a machine's - its storage, its call, an
  `Add` still under way, however late, a membership - says so of one machine, and no id
  past the last one handed out is named. An id handed out is a new index, hence named by
  nobody (`NamesSteps`). From it, `IdsUnique`;
- `VotersInv`: a voter, and whoever a promotion under way is for, is a member whose machine
  has stored the id; an id once stored stays (`StoredGrows`). With `NamesInv`,
  `QuorumIsReal`;
- `HeldInv`, of attempts that somebody waits for and that promise their change (`Binding`: all
  but the removal of a node found a voter, which `admin_removal` refutes): an attempt at the step of leaving a joint configuration or of answering has
  had its change committed; one whose change is in the log of the current term finds it in
  force there, or has held it before, and no other change is in the log (`LoggedAlone`).
  The term matters: an election may undo the change, and the attempt then waits until its
  client gives up. From it, `AnsweredMeansDone`;
- `SettledInv`: a machine that stopped as a learner keeps no seed, and neither a call nor
  an attempt under way asks for its promotion until an operator does. With `NamesInv` (no
  other machine asks under its id) and `VotersInv`, `RestartKeepsLearner`.

`ConfigExact` stands apart: a process that runs was opened on an accepted configuration,
which its machine keeps (`ConfigInv`), and a tripled interval that wraps once, if it is
still above the interval, makes the sixfold wrap three times to less than the threefold;
one that wraps twice is below the interval. So the two comparisons openraft makes are
enough, although nothing in the code looks for an overflow.

`FileStorage_proofs` and `FileContract_proofs`, for every `MaxIndex`, set of values and
of kinds of call, and number of deaths:

| theorem | states | provided that |
|---|---|---|
| `FileTypes` | `Spec => []TypeOK` | |
| `ReturnedSurvives` | `Spec => []PersistedSurvives` | `Lasting` |
| `FileImplements` | `Spec => ImplementsContract` | `Lasting` |

`Lasting` says that each directory is durable before the node goes on: all stand at the
start, or the path has a parent and no process dies between `create_dir` and the flush of
the parent (`~Orphans`, or no deaths at all). Neither half can be dropped: without the
parent run `file_forgets` refutes `PersistedSurvives`, with `Orphans` TLC does. The
invariant says of each path that what it holds, and all that a power loss may bring back,
was settled or has begun since (`SafeInv`), what each step of a write has made durable so
far (`WriteInv`), and that nothing stored is under a directory that may go (`LastingInv`).

For the refinement, `ContractInv` adds the state the call began in, in two parts. `ReadsInv`
holds always: in a call, a path reads as it did before or as the call may leave it
(`HoldsInv`), a deletion about to return has deleted its range (`GoneInv`), and while
directories are made nothing is read under one that may go (`BareInv`). `FlushInv` holds while no process
has died since the last power loss: between calls nothing is unsettled (`QuietInv`), in one
only what it writes is (`BusyInv`), and a deletion is unsettled only in the names it took
away, until its flush (`NamesInv`). A death alone breaks the second and not the first, which is
why the contract holds through deaths but for the power loss after one; that power loss
settles everything and restores it (`PowerSettles`). So an interrupted call leaves one of
`Interrupted`'s outcomes, each path on its own, and one that returns left what `Apply` makes
(`CutShort`, `WriteResult`, `DeleteResult`). TLC checks the invariants on the instance of the
run.

Left to TLC: liveness (`CallsReturn`, `PurgeFollowsInstall`, `ChangesSettle`,
`AnsweredUnlessStranded`: fairness and ENABLED are out of the prover's reach). `AckedSurvive`
when an installation overlaps a build is neither proved nor refuted. What a recursive
definition computes cannot be proved by induction here; `Replay` is the one exception,
because its equation could be had from finiteness.

## 5. Not modelled

- openraft itself, the network and the other nodes: external, by what the code relies
  on. Nothing here shows that openraft keeps its side.
- `read`, `get_log_state`, `read_vote`, `applied_state`, `get_current_snapshot`: they
  return what a variable holds and change nothing.
- `EzMeta::node_id` in the adapter's metadata: written once before openraft starts; in
  `Administration` it is `id`.
- Encodings (JSON, the snapshot file's length prefix): a file is one value or torn.
- `network.rs`: one request per RPC, under openraft's own timeout, and no state; it only
  sorts errors. `type_config.rs`, `node_role.rs`, `lib.rs`: types and re-exports.
- `kvstore.rs`: a map behind `EzApp`; the models' applications, the sequence of requests
  applied and the oracle's mark, tell more apart.
- In the configuration, the cut of an interval longer than `u64` milliseconds before it
  is multiplied, and the snapshot settings, which are copied.
- In the oracle, the rendering of a timestamp and its limits, clocks before 1970, a lease
  that clock drift makes wrong (the code's own assumption), and the pause between
  reservations (a delay).
- In `Administration`, the log below the membership (catching up is the delay before a
  commit), leadership transfer, `metrics`.
- A foreign file in the log directory, Windows (no flush of directories), two nodes that
  create the shared directory at once, leftovers of deletions never flushed.

## 6. Plan

1. Proofs: `AckedSurvive` with an installation beside a build, if it holds.
2. A second node in `FileStorage` that makes the shared directory at the same time.
