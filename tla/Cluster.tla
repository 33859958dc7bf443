------------------------------- MODULE Cluster -------------------------------
(* The cluster openraft keeps for ezraft: who leads, who is a member, who votes. External:
   modelled by what src/src/raft.rs and src/src/server.rs rely on, never by how openraft does it.

   A configuration is a sequence of one or two sets of voters and the members with their
   addresses; a machine stands for its address. At most one change is uncommitted. *)
EXTENDS Integers, FiniteSets, Sequences, Functions

CONSTANTS
    Machines,   \* the machines, each with its address and its disk
    MaxIndex,   \* bound: node ids handed out
    MaxTerm     \* bound: elections held while a leader is up

ASSUME BoundsAssumption == MaxIndex \in Nat /\ MaxTerm \in Nat

VARIABLES
    leaders,    \* the leader of each term so far
    view,       \* what a node's metrics say of the leader: the term, and whether it is sure
    config,     \* the latest configuration in the leader's log
    stable,     \* the latest committed one
    index       \* the log index of the last blank entry

clusterVars == <<leaders, view, config, stable, index>>

NoConfig == [voters |-> <<>>, nodes |-> <<>>]

Voters(c) == UNION Range(c.voters)
Members(c) == DOMAIN c.nodes
Term == Len(leaders)

(* A quorum of a joint configuration is one of both its halves. *)
HasQuorum(c, ids) ==
    \A k \in DOMAIN c.voters : 2 * Cardinality(ids \cap c.voters[k]) > Cardinality(c.voters[k])

(* The next configuration on the way to the voters goal: goal itself when it is one of the halves
   already, else joint. Without retain a voter that is in no half any more is forgotten. *)
WithVoters(c, goal, retain) ==
    LET voters == IF goal \in Range(c.voters) THEN <<goal>>
                  ELSE <<c.voters[Len(c.voters)], goal>>
        left   == Voters(c) \ UNION Range(voters)
    IN [voters |-> voters,
        nodes  |-> IF retain THEN c.nodes ELSE Restrict(c.nodes, Members(c) \ left)]

Goal(c) == c.voters[Len(c.voters)]

AddVoterIds(c, i) == WithVoters(c, Goal(c) \cup {i}, FALSE)
RemoveVoters(c, i, retain) == WithVoters(c, Goal(c) \ {i}, retain)

(* An id that is a member already keeps its address and its role. *)
AddLearner(c, i, addr) ==
    IF i \in Members(c) THEN c
    ELSE [c EXCEPT !.nodes = [j \in Members(c) \cup {i} |-> IF j = i THEN addr ELSE c.nodes[j]]]

RemoveNodes(c, i) == [c EXCEPT !.nodes = Restrict(@, Members(c) \ {i})]

(* openraft refuses a configuration with no voter, or with a voter that has no address. *)
Valid(c) == (\A k \in DOMAIN c.voters : c.voters[k] # {}) /\ Voters(c) \subseteq Members(c)

-----------------------------------------------------------------------------
(* What a node believes, and what is so. *)
KnownLeader(m) == leaders[view[m].term]
Leads(m) == view[m].sure /\ KnownLeader(m) = m
LeadsNow(m) == Leads(m) /\ view[m].term = Term
LeaderUp == Term > 0 /\ LeadsNow(leaders[Term])

(* The members that answer when the servers of these machines run: openraft reaches a peer by
   its address alone. *)
Answering(c, serving) == {i \in Members(c) : c.nodes[i] \in serving}

ClusterInit ==
    /\ leaders = <<>> /\ index = 0
    /\ view = [m \in Machines |-> [term |-> 0, sure |-> FALSE]]
    /\ config = NoConfig /\ stable = NoConfig

(* raft.initialize: refused once there is a log. *)
InitializeCluster(m, i) ==
    IF config = NoConfig
    THEN /\ config' = [voters |-> <<{i}>>, nodes |-> [j \in {i} |-> m]]
         /\ stable' = config'
    ELSE UNCHANGED <<config, stable>>

(* m, which is node i, wins an election among the members whose servers run. Its log may lack the change
   that was not committed, unless it is the leader's that made it. *)
Elect(m, i, serving) ==
    /\ ~LeaderUp \/ Term < MaxTerm
    /\ ~Leads(m)
    /\ \E c \in {config, stable} :
          /\ i \in Voters(c)
          /\ HasQuorum(c, Answering(c, serving) \cup {i})
          /\ c # config => Term > 0 /\ leaders[Term] # m
          /\ config' = c
    /\ leaders' = Append(leaders, m)
    /\ view' = [view EXCEPT ![m] = [term |-> Term + 1, sure |-> TRUE]]
    /\ UNCHANGED <<stable, index>>

(* A node hears from the leader. *)
Hear(m) ==
    /\ LeaderUp
    /\ ~(view[m].sure /\ view[m].term = Term)
    /\ view' = [view EXCEPT ![m] = [term |-> Term, sure |-> TRUE]]
    /\ UNCHANGED <<leaders, config, stable, index>>

(* A node whose leader is gone or deposed votes, or stands for election, and names nobody. *)
Doubt(m) ==
    /\ view[m].sure /\ ~(LeaderUp /\ view[m].term = Term)
    /\ view' = [view EXCEPT ![m].sure = FALSE]
    /\ UNCHANGED <<leaders, config, stable, index>>

(* The leader, which answers itself, has a quorum of its latest configuration. *)
CanCommit(serving) ==
    LeaderUp /\ HasQuorum(config, Answering(config, serving \cup {leaders[Term]}))

Commit(serving) ==
    /\ CanCommit(serving)
    /\ config # stable
    /\ stable' = config
    /\ UNCHANGED <<leaders, view, config, index>>
=============================================================================
