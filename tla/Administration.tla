---------------------------- MODULE Administration ----------------------------
(* How machines enter a cluster and change roles: a node's start in src/src/raft.rs, the admin
   endpoints in src/src/server.rs, operators beside them, processes that stop anywhere. *)
EXTENDS Cluster, AdminClient, EzConfig

CONSTANTS
    Creator,    \* the machine that calls EzRaft::create
    AsVoter,    \* the machines that call EzRaft::join; the others call join_as_learner
    Operators,  \* clients that are not nodes
    Requests,   \* what operators ask for
    MaxAsked,   \* bound: requests of operators
    MaxStops    \* bound: processes stopped, servers failed

ASSUME ActorsAssumption ==
    /\ Creator \in Machines /\ AsVoter \subseteq Machines
    /\ Clients = Machines \cup Operators /\ Machines \cap Operators = {}
    /\ NoAddr \notin Machines
    /\ Requests \subseteq {"promote", "demote", "remove"}
ASSUME ActsAssumption == MaxStops \in Nat /\ MaxAsked \in Nat

VARIABLES
    heartbeat,  \* the interval each machine's configuration gives; it never changes
    id,         \* the node id in each machine's storage
    at,         \* how far its process is
    seed,       \* the seed it joined through, for as long as it needs it
    stops,      \* processes stopped so far
    asked,      \* requests of operators so far
    held,       \* ghost: the clients whose change has been in force since they asked for it
    unpromoted, \* ghost: the machines that serve() told their promotion failed
    settled     \* ghost: the machines that stopped as learners with nobody promoting them

nodeVars == <<heartbeat, id, at, seed, stops, asked>>
vars == <<clusterVars, call, wire, nodeVars, held, unpromoted, settled>>

Up(m) == at[m] \in {"started", "serving"}
Serves(m) == at[m] = "serving"

Serving == {m \in Machines : Serves(m)}

(* The three ways to open a node: EzRaft::create, join and join_as_learner. *)
Creates(m) == m = Creator
JoinsToVote(m) == m # Creator /\ m \in AsVoter
JoinsToLearn(m) == m # Creator /\ m \notin AsVoter

(* What each change is for; of a joint configuration, the half it is on its way to counts. A node
   that is removed is forgotten: it is no member of either half. *)
InForce(change, c) ==
    /\ c # NoConfig
    /\ CASE change.op = "Add"        -> change.id \in Members(c)
         [] change.op = "SetVoter"   -> change.id \in Goal(c)
         [] change.op = "SetLearner" -> change.id \notin Goal(c)
         [] change.op = "Remove"     -> change.id \notin Members(c)
         [] OTHER                    -> FALSE

Init ==
    /\ ClusterInit
    /\ call = [c \in Clients |-> Idle] /\ wire = {}
    /\ heartbeat \in [Machines -> Intervals]
    /\ id = [m \in Machines |-> NoId]
    /\ at = [m \in Machines |-> "down"]
    /\ seed = [m \in Machines |-> NoAddr]
    /\ stops = 0 /\ asked = 0 /\ held = {} /\ unpromoted = {} /\ settled = {}

-----------------------------------------------------------------------------
(* EzRaft::new *)

(* Mutant of Reopen: a node restarted with its seed is promoted again, as it was when it joined. *)
ReopenPromotes(m) ==
    /\ at[m] = "down" /\ id[m] # NoId
    /\ at' = [at EXCEPT ![m] = "identified"]
    /\ seed' \in IF JoinsToVote(m) THEN {[seed EXCEPT ![m] = s] : s \in Range(stable.nodes) \ {m}} ELSE {seed}
    /\ UNCHANGED <<clusterVars, heartbeat, call, wire, id, stops, asked, unpromoted>>

(* A process starts on a machine that has an id: it has joined before. *)
Reopen(m) ==
    /\ at[m] = "down" /\ id[m] # NoId
    /\ at' = [at EXCEPT ![m] = "identified"]
    /\ UNCHANGED <<clusterVars, heartbeat, call, wire, id, seed, stops, asked, unpromoted>>

(* The first node of the cluster takes id 0. *)
Create(m) ==
    /\ at[m] = "down" /\ id[m] = NoId /\ Creates(m)
    /\ id' = [id EXCEPT ![m] = 0]
    /\ at' = [at EXCEPT ![m] = "identified"]
    /\ UNCHANGED <<clusterVars, heartbeat, call, wire, seed, stops, asked, unpromoted>>

(* Any other asks a seed, which is a machine of the cluster, for an id. *)
Join(m) ==
    /\ at[m] = "down" /\ id[m] = NoId /\ (JoinsToVote(m) \/ JoinsToLearn(m))
    /\ at' = [at EXCEPT ![m] = "joining"]
    /\ \E s \in Range(stable.nodes) \ {m} :
          /\ seed' = [seed EXCEPT ![m] = s]
          /\ call' = [call EXCEPT ![m] = Started(NodeId, s)]
    /\ UNCHANGED <<clusterVars, heartbeat, wire, id, stops, asked, unpromoted>>

(* The configuration is converted first: one that is refused ends the start before it has cost the
   cluster an id or a learner. *)
Open(m) == Accepted(heartbeat[m]) /\ (Reopen(m) \/ Create(m) \/ Join(m))

(* The id taken, the machine asks to be added as a learner. *)
Enter(m) ==
    /\ at[m] = "joining"
    /\ call[m].status = "ok" /\ call[m].change.op = "NodeId"
    /\ call' = [call EXCEPT ![m] = Started(Add(call[m].change.id, m), seed[m])]
    /\ UNCHANGED <<clusterVars, wire, nodeVars, unpromoted>>

(* log.save_meta: the id outlives the process. The seed is kept for the promotion. *)
SaveId(m) ==
    /\ at[m] = "joining"
    /\ call[m].status = "ok" /\ call[m].change.op = "Add"
    /\ id' = [id EXCEPT ![m] = call[m].change.id]
    /\ at' = [at EXCEPT ![m] = "identified"]
    /\ seed' = [seed EXCEPT ![m] = IF JoinsToVote(m) THEN @ ELSE NoAddr]
    /\ call' = [call EXCEPT ![m] = Idle]
    /\ UNCHANGED <<clusterVars, heartbeat, wire, stops, asked, unpromoted>>

(* A call that failed ends the join: the process keeps nothing. *)
JoinFails(m) ==
    /\ at[m] = "joining" /\ call[m].status = "failed"
    /\ at' = [at EXCEPT ![m] = "down"]
    /\ seed' = [seed EXCEPT ![m] = NoAddr]
    /\ call' = [call EXCEPT ![m] = Idle]
    /\ UNCHANGED <<clusterVars, heartbeat, wire, id, stops, asked, unpromoted>>

(* Raft::new, initialize, and the promotion spawned. *)
Start(m) ==
    /\ at[m] = "identified"
    /\ IF id[m] = 0 THEN InitializeCluster(m, 0) ELSE UNCHANGED <<config, stable>>
    /\ at' = [at EXCEPT ![m] = "started"]
    /\ seed' = [seed EXCEPT ![m] = NoAddr]
    /\ call' = IF seed[m] = NoAddr THEN call
               ELSE [call EXCEPT ![m] = Started(SetVoter(id[m]), seed[m])]
    /\ UNCHANGED <<leaders, view, index, heartbeat, wire, id, stops, asked, unpromoted>>

-----------------------------------------------------------------------------
(* EzRaft::serve_with: the server and the promotion, raced *)

Serve(m) ==
    /\ at[m] = "started"
    /\ at' = [at EXCEPT ![m] = "serving"]
    /\ UNCHANGED <<clusterVars, heartbeat, call, wire, id, seed, stops, asked, unpromoted>>

Promoted(m) ==
    /\ Serves(m) /\ call[m].status = "ok"
    /\ call' = [call EXCEPT ![m] = Idle]
    /\ UNCHANGED <<clusterVars, wire, nodeVars, unpromoted>>

(* The promotion failed: the server is aborted and the error returned. *)
PromotionFails(m) ==
    /\ Serves(m) /\ call[m].status = "failed"
    /\ at' = [at EXCEPT ![m] = "started"]
    /\ call' = [call EXCEPT ![m] = Idle]
    /\ unpromoted' = unpromoted \cup {m}
    /\ wire' = {x \in wire : x.to # m}
    /\ UNCHANGED <<clusterVars, heartbeat, id, seed, stops, asked>>

(* The server ends, or never came up: the promotion is aborted. *)
ServerFails(m) ==
    /\ Serves(m) /\ stops < MaxStops
    /\ at' = [at EXCEPT ![m] = "started"]
    /\ call' = [call EXCEPT ![m] = Idle]
    /\ \E w \in Abandoned(m) : wire' = {x \in w : x.to # m}
    /\ stops' = stops + 1
    /\ UNCHANGED <<clusterVars, heartbeat, id, seed, asked, unpromoted>>

(* The process dies: only what is stored and what is on the wire to others is left. *)
Stop(m) ==
    /\ at[m] # "down" /\ stops < MaxStops
    /\ at' = [at EXCEPT ![m] = "down"]
    /\ seed' = [seed EXCEPT ![m] = NoAddr]
    /\ call' = [call EXCEPT ![m] = Idle]
    /\ \E w \in Abandoned(m) : wire' = {x \in w : x.to # m}
    /\ view' = [view EXCEPT ![m].sure = @ /\ ~Leads(m)]
    /\ stops' = stops + 1
    /\ UNCHANGED <<leaders, config, stable, index, heartbeat, id, asked, unpromoted>>

-----------------------------------------------------------------------------
(* The handlers of src/src/server.rs, for an attempt x. A handler whose node leads goes on to ask
   openraft, which looks again: the two are one step, except where a removal reads in between. *)

(* leader_or_redirect: another node leads, as far as this one knows, or none does. The address
   comes from the membership the node has. *)
Redirect(x) ==
    /\ x.step = "sent" /\ Serves(x.to) /\ ~Leads(x.to)
    /\ LET m == x.to
           named == view[m].sure /\ KnownLeader(m) \in Range(config.nodes)
       IN Answer(x, IF x.client = Nobody THEN Idle
                    ELSE Unanswered(x.client, IF named THEN KnownLeader(m) ELSE m))
    /\ UNCHANGED <<clusterVars, nodeVars, unpromoted>>

(* Mutant of HandOutId: the id is the next index, and nothing is written there. *)
HandOutIdUnwritten(x) ==
    /\ x.step = "sent" /\ x.change.op = "NodeId" /\ Serves(x.to)
    /\ LeadsNow(x.to) /\ CanCommit(Serving) /\ index < MaxIndex
    /\ Answer(x, IF x.client = Nobody THEN Idle ELSE Result(x, [x.change EXCEPT !.id = index + 1]))
    /\ UNCHANGED <<clusterVars, nodeVars, unpromoted>>

(* handle_node_id: the index of a blank entry, once it is committed. *)
HandOutId(x) ==
    /\ x.step = "sent" /\ x.change.op = "NodeId" /\ Serves(x.to)
    /\ LeadsNow(x.to) /\ CanCommit(Serving) /\ index < MaxIndex
    /\ index' = index + 1
    /\ Answer(x, IF x.client = Nobody THEN Idle ELSE Result(x, [x.change EXCEPT !.id = index + 1]))
    /\ UNCHANGED <<leaders, view, config, stable, nodeVars, unpromoted>>

(* remove_node: which change removes the node is decided from the metrics. *)
PlanRemoval(x) ==
    /\ x.step = "sent" /\ x.change.op = "Remove" /\ Serves(x.to) /\ Leads(x.to)
    /\ Advance(x, [x EXCEPT !.step = "planned", !.plan = IF x.change.id \in Voters(config) THEN "RemoveVoters"
                                      ELSE "RemoveNodes"])
    /\ UNCHANGED <<clusterVars, nodeVars, unpromoted>>

(* Mutant of Requested: a node is added straight to the voters. *)
RequestedAsVoter(x) ==
    LET i == x.change.id IN
    CASE x.change.op = "Add"        -> AddVoterIds(AddLearner(config, i, x.change.addr), i)
      [] x.change.op = "SetVoter"   -> AddVoterIds(config, i)
      [] x.change.op = "SetLearner" -> RemoveVoters(config, i, TRUE)
      [] x.change.op = "Remove"     -> IF x.plan = "RemoveVoters" THEN RemoveVoters(config, i, FALSE)
                                       ELSE RemoveNodes(config, i)

(* add_learner, promote, demote, remove_node *)
Requested(x) ==
    LET i == x.change.id IN
    CASE x.change.op = "Add"                                    -> AddLearner(config, i, x.change.addr)
      [] x.change.op = "SetVoter"                               -> AddVoterIds(config, i)
      [] x.change.op = "SetLearner"                             -> RemoveVoters(config, i, TRUE)
      [] x.change.op = "Remove" /\ x.plan = "RemoveVoters" -> RemoveVoters(config, i, FALSE)
      [] x.change.op = "Remove" /\ x.plan = "RemoveNodes"  -> RemoveNodes(config, i)

(* Whether openraft makes its change: not while another is not committed, nor when it is refused. *)
Admits(x, c) == LeadsNow(x.to) /\ config = stable /\ Valid(c)

(* Where the handling of x is once configuration c, which it put into the log, is committed:
   change_membership goes on to leave a joint one, add_learner does not. *)
AfterCommit(x, c) ==
    IF x.step # "joint" /\ x.change.op # "Add" /\ Len(c.voters) = 2 THEN "joint" ELSE "done"

(* x puts c into the log. An entry that changes nothing is committed like any other. *)
PutInLog(x, c) ==
    /\ Admits(x, c)
    /\ \/ /\ c # config
          /\ Advance(x, [x EXCEPT !.step = "proposed", !.after = AfterCommit(x, c), !.term = Term])
       \/ /\ c = config /\ CanCommit(Serving)
          /\ Advance(x, [x EXCEPT !.step = AfterCommit(x, c)])
    /\ config' = c
    /\ UNCHANGED <<leaders, view, stable, index, nodeVars, unpromoted>>

(* The change goes into the log. *)
Propose(x) ==
    /\ \/ x.step = "sent" /\ x.change.op \notin {"NodeId", "Remove"} /\ Serves(x.to)
       \/ x.step = "planned"
    /\ PutInLog(x, Requested(x))

(* change_membership, once its joint configuration is committed: the step out of the joint
   configuration there is by then, which may be another change's. Only a demotion retains. *)
LeaveJoint(x) ==
    /\ x.step = "joint"
    /\ PutInLog(x, WithVoters(config, Goal(config), x.change.op = "SetLearner"))

(* Mutant of Confirm: the client is told when the change is in the leader's log. *)
ConfirmEarly(x) ==
    /\ x.step \in {"proposed", "done"}
    /\ Answer(x, IF x.client = Nobody THEN Idle ELSE Result(x, x.change))
    /\ UNCHANGED <<clusterVars, nodeVars, unpromoted>>

(* The change is committed and the client told so. *)
Confirm(x) ==
    /\ x.step = "done"
    /\ Answer(x, IF x.client = Nobody THEN Idle ELSE Result(x, x.change))
    /\ UNCHANGED <<clusterVars, nodeVars, unpromoted>>

(* A handler nobody waits for comes to nothing. *)
Forget(x) ==
    /\ x.client = Nobody
    /\ wire' = wire \ {x}
    /\ UNCHANGED <<clusterVars, call, nodeVars, unpromoted>>

-----------------------------------------------------------------------------
(* openraft's steps and the operators' *)

(* The changes an operator asks for, of a machine that reports its node id. *)
Asked(kind, i) ==
    CASE kind = "promote" -> SetVoter(i)
      [] kind = "demote"  -> SetLearner(i)
      [] kind = "remove"  -> Remove(i)

OperatorAsks(o) ==
    /\ call[o].status = "idle" /\ asked < MaxAsked
    /\ asked' = asked + 1
    /\ \E kind \in Requests, m \in Machines, s \in Serving :
          /\ id[m] # NoId
          /\ call' = [call EXCEPT ![o] = Started(Asked(kind, id[m]), s)]
    /\ UNCHANGED <<clusterVars, heartbeat, wire, id, at, seed, stops, unpromoted>>

OperatorReads(o) ==
    /\ call[o].status \in {"ok", "failed"}
    /\ call' = [call EXCEPT ![o] = Idle]
    /\ UNCHANGED <<clusterVars, wire, nodeVars, unpromoted>>

ClientStep(c) ==
    /\ Ask(c) \/ AttemptFails(c)
    /\ UNCHANGED <<clusterVars, nodeVars, unpromoted>>

ElectionStep(m) ==
    /\ Up(m) /\ Elect(m, id[m], Serving)
    /\ UNCHANGED <<call, wire, nodeVars, unpromoted>>

ViewStep(m) ==
    /\ \/ Serves(m) /\ m \in Range(config.nodes) /\ Hear(m)
       \/ Up(m) /\ Doubt(m)
    /\ UNCHANGED <<call, wire, nodeVars, unpromoted>>

(* The handler whose change it was goes on. *)
CommitStep ==
    /\ Commit(Serving)
    /\ wire' = {IF x.step = "proposed" /\ x.term = Term THEN [x EXCEPT !.step = x.after] ELSE x : x \in wire}
    /\ UNCHANGED <<call, nodeVars, unpromoted>>

NodeStep(m) ==
    \/ Open(m) \/ Enter(m) \/ SaveId(m) \/ JoinFails(m) \/ Start(m)
    \/ Serve(m) \/ Promoted(m) \/ PromotionFails(m) \/ ServerFails(m) \/ Stop(m)

HandlerStep(x) ==
    \/ Redirect(x) \/ HandOutId(x) \/ PlanRemoval(x)
    \/ Propose(x) \/ LeaveJoint(x) \/ Confirm(x) \/ Forget(x)

(* What the ghosts remember: a change in force since it was asked for; a machine that went down
   as a learner that nobody was promoting, until an operator asks for its promotion. *)
Promotes(c, m) == call[c].status # "idle" /\ call[c].change = SetVoter(id[m])

Resting(m) ==
    /\ at[m] = "down"
    /\ \A c \in {config, stable} : id[m] \in Members(c) \ Voters(c)
    /\ \A c \in Clients : ~Promotes(c, m)
    /\ \A x \in wire : x.change # SetVoter(id[m])

Remember ==
    /\ held' = {c \in Clients : /\ call'[c].status # "idle"
                               /\ (c \in held \/ InForce(call'[c].change, stable'))}
    /\ settled' = {m \in Machines : /\ (m \in settled \/ Resting(m)')
                                    /\ \A o \in Operators : ~Promotes(o, m)'}

Next ==
    /\ \/ \E m \in Machines : NodeStep(m) \/ ElectionStep(m) \/ ViewStep(m)
       \/ \E x \in wire : HandlerStep(x)
       \/ \E c \in Clients : ClientStep(c)
       \/ \E o \in Operators : OperatorAsks(o) \/ OperatorReads(o)
       \/ CommitStep
    /\ Remember

Spec == Init /\ [][Next]_vars

(* A started process goes on, a server comes up, a process that ended is started again. A leader
   is elected when there is none, what a quorum has is committed. An attempt ends: reqwest's
   timeout. Nothing is assumed of answers, operators, failures. *)
Fairness ==
    /\ \A m \in Machines :
          WF_vars((Open(m) \/ Enter(m) \/ SaveId(m) \/ JoinFails(m) \/ Start(m) \/ Serve(m)) /\ Remember)
    /\ \A m \in Machines : WF_vars(ElectionStep(m) /\ ~LeaderUp /\ Remember)
    /\ \A c \in Clients : WF_vars(ClientStep(c) /\ Remember)
    /\ WF_vars(CommitStep /\ Remember)

FairSpec == Spec /\ Fairness

-----------------------------------------------------------------------------
(* Properties *)

Ids == -1 .. MaxIndex
Configs == [voters : UNION {[1 .. k -> SUBSET Ids] : k \in 0 .. 2},
            nodes  : UNION {[S -> Machines] : S \in SUBSET Ids}]
Changes == [op : {"NodeId", "Add", "SetVoter", "SetLearner", "Remove"}, id : Ids,
            addr : Machines \cup {NoAddr}]

(* The shape of the state. *)
TypeOK ==
    /\ leaders \in Seq(Machines) /\ index \in 0 .. MaxIndex
    /\ \A m \in Machines : view[m] \in [term : 0 .. Term, sure : BOOLEAN]
    /\ config \in Configs /\ stable \in Configs
    /\ call \in [Clients -> [status : {"idle", "ready", "waiting", "ok", "failed"}, change : Changes,
                             target : Machines \cup {NoAddr}, left : 0 .. Attempts]]
    /\ \A x \in wire : x \in [client : Clients \cup {Nobody}, change : Changes, to : Machines,
                               step : {"sent", "planned", "proposed", "joint", "done"},
                               after : {"none", "joint", "done"},
                               plan : {"none", "RemoveVoters", "RemoveNodes"}, term : 0 .. Term]
    /\ heartbeat \in [Machines -> Intervals] /\ id \in [Machines -> Ids]
    /\ at \in [Machines -> {"down", "joining", "identified", "started", "serving"}]
    /\ seed \in [Machines -> Machines \cup {NoAddr}] /\ stops \in 0 .. MaxStops /\ asked \in 0 .. MaxAsked
    /\ held \subseteq Clients /\ unpromoted \subseteq Machines /\ settled \subseteq Machines

(* handle_node_id hands out an id no other node has held: no two machines ever hold, or join with,
   one id, and such an id is a member only under the address of the machine that holds it -
   through retries, late attempts, and processes that die before they store what they took. *)
OwnIds(m) == {id[m], call[m].change.id} \ {NoId}
IdsUnique ==
    \A m \in Machines : \A i \in OwnIds(m) :
        /\ \A n \in Machines \ {m} : i \notin OwnIds(n)
        /\ \A c \in {config, stable} : i \in Members(c) => c.nodes[i] = m

(* A quorum counts only nodes that can come back to answer, each once: every voter, of a joint
   configuration too, is the id its machine has stored. A process that dies between Add and
   save_meta leaves a member nobody is, which must never be one. *)
QuorumIsReal ==
    \A c \in {config, stable} : \A v \in Voters(c) : id[c.nodes[v]] = v

(* An administrative request that is answered with success was in force, committed, at some time
   since it was made: the client may act on it. So it is for the removal of a node that remove_node
   found a learner; RemovedMeansForgotten asks the same of the removal of a voter. *)
AnsweredMeansDone ==
    /\ \A c \in Clients : call[c].status = "ok" /\ call[c].change.op \notin {"NodeId", "Remove"} => c \in held
    /\ \A x \in wire : x.step = "done" /\ x.plan = "RemoveNodes" /\ x.client # Nobody => x.client \in held

(* EzRaft::remove_node: "The cluster stops replicating to it and forgets it." So the node was no
   member at some time since the removal that was answered with success was asked for. *)
RemovedMeansForgotten ==
    \A c \in Clients : call[c].status = "ok" /\ call[c].change.op = "Remove" => c \in held

(* EzRaft::join: restarting a node that is a learner does not quietly make it a voter, whatever
   role it joined for and however its promotion ended; only an operator does. *)
RestartKeepsLearner == \A m \in settled : id[m] \notin Voters(config)

(* "Election timeout is automatically calculated as 3-6x the heartbeat interval": so it is for every
   node that starts. Nothing in the code looks for an overflow; whatever wraps, once or several
   times, ends in timeouts that are out of order and are refused. *)
ConfigExact ==
    \A m \in Machines : at[m] # "down" =>
        LET raft == RaftConfig(heartbeat[m])
        IN  raft.electionMin = 3 * heartbeat[m] /\ raft.electionMax = 6 * heartbeat[m]

(* EzRaft::demote: the node stays in the cluster and keeps receiving the log. Only a removal takes
   a member out. *)
OnlyRemovalForgets == [][Members(stable) \subseteq Members(stable')]_vars

(* EzRaft::join: a promotion that failed stays failed, leaving the node the learner it is. *)
FailedPromotionStaysFailed == \A m \in unpromoted : id[m] \notin Voters(stable)

(* A change that is in the leader's log does not hold the cluster for ever: it is committed or
   goes with its leader. That is what joining as a learner, and storing the id before asking for
   the promotion, are for. *)
ChangesSettle == config # stable ~> config = stable

=============================================================================
