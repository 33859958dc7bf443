------------------------- MODULE Administration_proofs -------------------------
(* The timeouts of the nodes that start, for every width of the numbers they are computed in; the
   ids, the voters, the answers and the restarts of a cluster that grows, shrinks and fails, for any
   number of machines, operators, requests, attempts, elections and stops. *)
EXTENDS Administration, SequenceTheorems, TLAPS

(* What wraps three times at most loses that many moduli. *)
LEMMA WrappedBy ==
    ASSUME NEW x \in Nat, NEW k \in 0 .. 3, k * (MaxMs + 1) <= x, x < (k + 1) * (MaxMs + 1)
    PROVE  Wrapped(x) = x - k * (MaxMs + 1)
  <1> DEFINE N == MaxMs + 1
  <1>1. N \in Nat /\ N > 0
    BY WidthAssumption
  <1>2. \/ k = 0 /\ 0 <= x /\ x < N
        \/ k = 1 /\ N <= x /\ x < 2 * N
        \/ k = 2 /\ 2 * N <= x /\ x < 3 * N
        \/ k = 3 /\ 3 * N <= x /\ x < 4 * N
    <2>1. k = 0 \/ k = 1 \/ k = 2 \/ k = 3
      OBVIOUS
    <2> QED BY <2>1, WidthAssumption
  <1>3. x % N = x - k * N
    <2> HIDE DEF N
    <2> QED BY <1>1, <1>2, SMT
  <1> QED BY <1>3 DEF Wrapped

(* An interval a node starts with does not overflow when it is tripled, nor six times over. *)
LEMMA NoOverflow ==
    ASSUME NEW ms \in 0 .. MaxMs, Accepted(ms)
    PROVE  3 * ms < MaxMs + 1 /\ 6 * ms < MaxMs + 1
  <1> DEFINE N == MaxMs + 1
  <1>1. N \in Nat /\ N > 0 /\ ms \in Nat /\ ms < N /\ 3 * ms \in Nat /\ 6 * ms \in Nat
    BY WidthAssumption
  <1>2. ms < Wrapped(3 * ms) /\ Wrapped(3 * ms) < Wrapped(6 * ms)
    BY DEF Accepted, Validated, RaftConfig
  <1>3. CASE 3 * ms < N
    <2>1. Wrapped(3 * ms) = 3 * ms
      BY <1>1, <1>3, WrappedBy
    <2>2. CASE 6 * ms >= N
      <3>1. Wrapped(6 * ms) = 6 * ms - N
        BY <1>1, <1>3, <2>2, WrappedBy
      <3> QED BY <1>1, <1>2, <1>3, <2>1, <3>1
    <2> QED BY <1>1, <1>3, <2>2
  <1>4. CASE N <= 3 * ms /\ 3 * ms < 2 * N
    <2>1. Wrapped(3 * ms) = 3 * ms - N
      BY <1>1, <1>4, WrappedBy
    <2>2. 3 * N <= 6 * ms /\ 6 * ms < 4 * N
      BY <1>1, <1>2, <1>4, <2>1
    <2>3. Wrapped(6 * ms) = 6 * ms - 3 * N
      BY <1>1, <2>2, WrappedBy
    <2> QED BY <1>1, <1>2, <1>4, <2>1, <2>3
  <1>5. CASE 2 * N <= 3 * ms
    <2>1. Wrapped(3 * ms) = 3 * ms - 2 * N
      BY <1>1, <1>5, WrappedBy
    <2> QED BY <1>1, <1>2, <2>1
  <1> QED BY <1>1, <1>3, <1>4, <1>5

(* What only a start changes: a process that runs has a configuration that was accepted. *)
ConfigInv ==
    /\ heartbeat \in [Machines -> 0 .. MaxMs]
    /\ at \in [Machines -> {"down", "joining", "identified", "started", "serving"}]
    /\ \A m \in Machines : at[m] # "down" => Accepted(heartbeat[m])

(* It holds at the start. *)
LEMMA ConfigInit == Init => ConfigInv
  BY IntervalsAssumption DEF Init, ConfigInv

(* A step of one machine's process: only opening takes it up from "down". *)
LEMMA ConfigNode ==
    ASSUME ConfigInv, NEW m \in Machines, NodeStep(m)
    PROVE  ConfigInv'
  <1>1. CASE Open(m)
    <2>1. heartbeat' = heartbeat /\ Accepted(heartbeat[m])
      BY <1>1 DEF Open, Reopen, Create, Join
    <2>2. at' = [at EXCEPT ![m] = "identified"] \/ at' = [at EXCEPT ![m] = "joining"]
      BY <1>1 DEF Open, Reopen, Create, Join
    <2> QED BY <2>1, <2>2 DEF ConfigInv
  <1>2. CASE Enter(m) \/ Promoted(m)
    BY <1>2 DEF Enter, Promoted, nodeVars, ConfigInv
  <1>3. CASE SaveId(m) \/ JoinFails(m) \/ Start(m) \/ Serve(m) \/ PromotionFails(m) \/ ServerFails(m) \/ Stop(m)
    <2>1. heartbeat' = heartbeat
      BY <1>3 DEF SaveId, JoinFails, Start, Serve, PromotionFails, ServerFails, Stop
    <2>2. /\ at' = [at EXCEPT ![m] = at'[m]]
          /\ at'[m] \in {"down", "joining", "identified", "started", "serving"}
          /\ at'[m] # "down" => at[m] # "down"
      BY <1>3 DEF SaveId, JoinFails, Start, Serve, PromotionFails, ServerFails, Stop, Serves, ConfigInv
    <2> QED BY <2>1, <2>2 DEF ConfigInv
  <1> QED BY <1>1, <1>2, <1>3 DEF NodeStep

(* The handlers, the clients, the operators and openraft start and stop no process. *)
LEMMA ConfigKept ==
    ASSUME ConfigInv, [Next]_vars, \A m \in Machines : ~NodeStep(m)
    PROVE  ConfigInv'
  <1>1. CASE UNCHANGED vars
    BY <1>1 DEF vars, nodeVars, ConfigInv
  <1>2. CASE Next
    <2>1. UNCHANGED <<heartbeat, at>>
      <3>1. CASE \E m \in Machines : ElectionStep(m) \/ ViewStep(m)
        BY <3>1 DEF ElectionStep, ViewStep, nodeVars
      <3>2. CASE \E x \in wire : HandlerStep(x)
        BY <3>2 DEF HandlerStep, Redirect, HandOutId, PlanRemoval, Propose, LeaveJoint, PutInLog,
                    Confirm, Forget, nodeVars
      <3>3. CASE \E c \in Clients : ClientStep(c)
        BY <3>3 DEF ClientStep, nodeVars
      <3>4. CASE \E o \in Operators : OperatorAsks(o) \/ OperatorReads(o)
        BY <3>4 DEF OperatorAsks, OperatorReads, nodeVars
      <3>5. CASE CommitStep
        BY <3>5 DEF CommitStep, nodeVars
      <3> QED BY <1>2, <3>1, <3>2, <3>3, <3>4, <3>5 DEF Next
    <2> QED BY <2>1 DEF ConfigInv
  <1> QED BY <1>1, <1>2

(* ConfigExact, for every width: src/src/config.rs:54-66 needs no check for an overflow, because a
   tripled interval that wraps is no larger than the interval, or doubles to less than itself. *)
THEOREM ConfigAlwaysExact == Spec => []ConfigExact
  <1>1. ConfigInv /\ [Next]_vars => ConfigInv'
    BY ConfigNode, ConfigKept
  <1>2. ConfigInv => ConfigExact
    <2> SUFFICES ASSUME ConfigInv, NEW m \in Machines, at[m] # "down"
                 PROVE  /\ RaftConfig(heartbeat[m]).electionMin = 3 * heartbeat[m]
                        /\ RaftConfig(heartbeat[m]).electionMax = 6 * heartbeat[m]
      BY DEF ConfigExact
    <2> DEFINE ms == heartbeat[m]
    <2>1. ms \in 0 .. MaxMs /\ Accepted(ms)
      BY DEF ConfigInv
    <2>2. 3 * ms < MaxMs + 1 /\ 6 * ms < MaxMs + 1
      <3> HIDE DEF ms
      <3> QED BY <2>1, NoOverflow
    <2>3. Wrapped(3 * ms) = 3 * ms /\ Wrapped(6 * ms) = 6 * ms
      <3> HIDE DEF ms
      <3> QED BY <2>1, <2>2, WrappedBy, WidthAssumption
    <2> QED BY <2>3 DEF RaftConfig
  <1> QED BY ConfigInit, <1>1, <1>2, PTL DEF Spec

-----------------------------------------------------------------------------
(* Configurations *)

(* What a configuration is made of. *)
LEMMA ConfigParts ==
    ASSUME NEW c \in Configs
    PROVE  /\ c.voters \in Seq(SUBSET Ids) /\ Len(c.voters) \in 0 .. 2
           /\ DOMAIN c.voters = 1 .. Len(c.voters)
           /\ c.voters # <<>> => Len(c.voters) \in 1 .. 2 /\ Goal(c) \in SUBSET Ids /\ Goal(c) \subseteq Voters(c)
           /\ Members(c) \in SUBSET Ids /\ c.nodes \in [Members(c) -> Machines]
           /\ \A i \in Members(c) : c.nodes[i] \in Machines
           /\ Range(c.nodes) \subseteq Machines
           /\ Voters(c) \in SUBSET Ids
           /\ c = [voters |-> c.voters, nodes |-> c.nodes]
  <1>1. PICK k \in 0 .. 2 : c.voters \in [1 .. k -> SUBSET Ids]
    BY DEF Configs
  <1>2. c.voters \in Seq(SUBSET Ids) /\ Len(c.voters) = k /\ DOMAIN c.voters = 1 .. k
    BY <1>1, SMT
  <1>3. PICK S \in SUBSET Ids : c.nodes \in [S -> Machines]
    BY DEF Configs
  <1>4. Members(c) = S
    BY <1>3 DEF Members
  <1>5. Voters(c) \in SUBSET Ids
    BY <1>1 DEF Voters, Range
  <1>6. ASSUME c.voters # <<>>
        PROVE  Len(c.voters) \in 1 .. 2 /\ Goal(c) \in SUBSET Ids /\ Goal(c) \subseteq Voters(c)
    <2>1. k \in 1 .. 2
      <3>1. k # 0
        BY <1>1, <1>2, <1>6, EmptySeq
      <3> QED BY <3>1
    <2>2. Goal(c) = c.voters[k] /\ k \in DOMAIN c.voters
      BY <1>2, <2>1 DEF Goal
    <2> QED BY <1>1, <1>2, <2>1, <2>2 DEF Voters, Range
  <1>7. c = [voters |-> c.voters, nodes |-> c.nodes]
    BY DEF Configs
  <1> QED BY <1>2, <1>3, <1>4, <1>5, <1>6, <1>7 DEF Range

(* The other way round. *)
LEMMA MakeConfig ==
    ASSUME NEW v \in Seq(SUBSET Ids), Len(v) \in 0 .. 2,
           NEW f, DOMAIN f \in SUBSET Ids, f \in [DOMAIN f -> Machines]
    PROVE  [voters |-> v, nodes |-> f] \in Configs
  <1>1. v \in [1 .. Len(v) -> SUBSET Ids]
    BY LenProperties
  <1> QED BY <1>1 DEF Configs

(* A step from c on the way to the voters goal: they are its goal, and it brings in nobody else and no member. *)
Towards(c, goal, d) ==
    /\ d \in Configs /\ d.voters # <<>>
    /\ Goal(d) = goal /\ Voters(d) \subseteq Voters(c) \cup goal
    /\ Members(d) \subseteq Members(c) /\ \A i \in Members(d) : d.nodes[i] = c.nodes[i]

(* Either way to take the step is that. *)
LEMMA VotersStep ==
    ASSUME NEW c \in Configs, c.voters # <<>>, NEW goal \in SUBSET Ids,
           NEW d, d = WithVoters(c, goal, TRUE) \/ d = WithVoters(c, goal, FALSE)
    PROVE  Towards(c, goal, d)
  <1> DEFINE last == c.voters[Len(c.voters)]
             joint == <<last, goal>>
             v == IF goal \in Range(c.voters) THEN <<goal>> ELSE joint
             kept == Restrict(c.nodes, Members(c) \ (Voters(c) \ UNION Range(v)))
             f == IF d = WithVoters(c, goal, TRUE) THEN c.nodes ELSE kept
  <1>1. last \in SUBSET Ids /\ last \subseteq Voters(c)
    BY ConfigParts DEF Goal
  <1>2. d = [voters |-> v, nodes |-> f]
    <2>1. CASE d = WithVoters(c, goal, TRUE)
      BY <2>1 DEF WithVoters
    <2>2. CASE d # WithVoters(c, goal, TRUE)
      BY <2>2 DEF WithVoters
    <2> QED BY <2>1, <2>2
  <1>3. /\ v \in Seq(SUBSET Ids) /\ Len(v) \in 1 .. 2 /\ v[Len(v)] = goal
        /\ Range(v) \subseteq {last, goal}
    <2> HIDE DEF last
    <2>1. CASE goal \in Range(c.voters)
      BY <1>1, <2>1 DEF Range
    <2>2. CASE goal \notin Range(c.voters)
      BY <1>1, <2>2 DEF Range
    <2> QED BY <2>1, <2>2
  <1>4. DOMAIN f \subseteq Members(c) /\ f \in [DOMAIN f -> Machines] /\ \A i \in DOMAIN f : f[i] = c.nodes[i]
    <2> HIDE DEF v
    <2>1. c.nodes \in [Members(c) -> Machines]
      BY ConfigParts
    <2> QED BY <2>1 DEF Restrict, Members
  <1> HIDE DEF v, f, last
  <1>5. d.voters = v /\ d.nodes = f
    BY <1>2
  <1>6. d \in Configs
    <2>1. Members(c) \in SUBSET Ids
      BY ConfigParts
    <2>2. Len(v) \in 0 .. 2
      BY <1>3
    <2> QED BY <1>2, <1>3, <1>4, <2>1, <2>2, MakeConfig
  <1>7. d.voters # <<>> /\ Goal(d) = goal
    <2>1. Len(v) \in 1 .. 2
      BY <1>3
    <2>2. v # <<>>
      BY <2>1
    <2> QED BY <1>3, <1>5, <2>2 DEF Goal
  <1>8. Voters(d) \subseteq Voters(c) \cup goal
    BY <1>1, <1>3, <1>5 DEF Voters
  <1> QED BY <1>4, <1>5, <1>6, <1>7, <1>8 DEF Members, Towards

-----------------------------------------------------------------------------
(* The shape of the state *)

Statuses == {"idle", "ready", "waiting", "ok", "failed"}
Steps == {"sent", "planned", "proposed", "joint", "done"}

CallType == [status : Statuses, change : Changes, target : Machines \cup {NoAddr}, left : 0 .. Attempts]

(* A call, and an attempt handled in one of the first t terms. An attempt can be made whenever it is
   due, and a machine that is added has an address. *)
SoundCall(k) ==
    /\ k \in CallType
    /\ k.status = "idle" => k = Idle
    /\ k.status \in {"ready", "waiting"} => k.target \in Machines
    /\ k.status = "ready" => k.left > 0
    /\ k.change.op = "Add" => k.change.addr \in Machines

SoundTry(x, t) ==
    /\ x \in [client : Clients \cup {Nobody}, change : Changes, to : Machines, step : Steps,
              after : {"none", "joint", "done"}, plan : {"none", "RemoveVoters", "RemoveNodes"},
              term : 0 .. t]
    /\ x.change.op = "Add" => x.change.addr \in Machines
    /\ x.change.op = "NodeId" => x.step = "sent"
    /\ x.step = "planned" => x.change.op = "Remove" /\ x.plan # "none"
    /\ x.step = "proposed" => x.after # "none"

ViewShape ==
    /\ view \in [Machines -> [term : 0 .. Term, sure : BOOLEAN]]
    /\ \A m \in Machines : view[m].sure => view[m].term > 0

(* There is a configuration before there is a leader, and none is ever empty again. *)
ConfigShape ==
    /\ config \in Configs /\ stable \in Configs
    /\ \/ leaders = <<>> /\ config = NoConfig /\ stable = NoConfig
       \/ config.voters # <<>> /\ stable.voters # <<>>

ClusterShape == leaders \in Seq(Machines) /\ index \in 0 .. MaxIndex /\ ViewShape /\ ConfigShape

NodeShape ==
    /\ heartbeat \in [Machines -> Intervals] /\ id \in [Machines -> Ids]
    /\ at \in [Machines -> {"down", "joining", "identified", "started", "serving"}]
    /\ seed \in [Machines -> Machines \cup {NoAddr}] /\ stops \in 0 .. MaxStops /\ asked \in 0 .. MaxAsked
    /\ held \subseteq Clients /\ unpromoted \subseteq Machines /\ settled \subseteq Machines
    /\ \A m \in Machines : at[m] = "joining" => seed[m] \in Machines

CallShape == call \in [Clients -> CallType] /\ \A c \in Clients : SoundCall(call[c])
TryShape == \A x \in wire : SoundTry(x, Term)

ShapeInv == ClusterShape /\ NodeShape /\ CallShape /\ TryShape

(* The shape holds at the start. *)
LEMMA ShapeInit == Init => ShapeInv
  <1> SUFFICES ASSUME Init PROVE ShapeInv
    OBVIOUS
  <1>1. NoConfig \in Configs
    <2> DEFINE e == <<>>
    <2>1. e \in Seq(SUBSET Ids) /\ Len(e) \in 0 .. 2
      OBVIOUS
    <2>2. DOMAIN e \in SUBSET Ids /\ e \in [DOMAIN e -> Machines]
      OBVIOUS
    <2>3. NoConfig = [voters |-> e, nodes |-> e]
      BY DEF NoConfig
    <2> HIDE DEF e
    <2> QED BY <2>1, <2>2, <2>3, MakeConfig
  <1>2. ClusterShape
    BY <1>1, BoundsAssumption DEF Init, ClusterInit, ClusterShape, ViewShape, ConfigShape, Term
  <1>3. SoundCall(Idle)
    BY BoundsAssumption, AttemptsAssumption DEF SoundCall, CallType, Idle, NodeId, NoId, Changes, Ids, Statuses
  <1>4. CallShape
    BY <1>3 DEF Init, CallShape, SoundCall
  <1>5. NodeShape
    BY BoundsAssumption, ActsAssumption DEF Init, NodeShape, Ids, NoId
  <1> QED BY <1>2, <1>4, <1>5 DEF Init, ShapeInv, TryShape

(* The shape is more than the types. *)
LEMMA ShapeTypes == ShapeInv => TypeOK
  BY DEF ShapeInv, ClusterShape, ViewShape, ConfigShape, NodeShape, CallShape, TryShape, SoundCall,
         SoundTry, CallType, Statuses, Steps, TypeOK

(* Where a node leads there is a configuration. *)
LEMMA LeaderHasConfig ==
    ASSUME ShapeInv, NEW m \in Machines, LeadsNow(m)
    PROVE  config.voters # <<>> /\ stable.voters # <<>> /\ Term > 0
  <1>1. view[m].sure /\ view[m].term = Term
    BY DEF LeadsNow, Leads
  <1>2. Term > 0
    BY <1>1 DEF ShapeInv, ClusterShape, ViewShape
  <1>3. leaders # <<>>
    BY <1>2 DEF Term
  <1> QED BY <1>2, <1>3 DEF ShapeInv, ClusterShape, ConfigShape

(* What a membership change makes of the configuration, for an attempt that may make it. *)
Wants(x) ==
    \/ x.step = "sent" /\ x.change.op \notin {"NodeId", "Remove"}
    \/ x.step = "planned"

(* remove_node drops a voter's entry with its vote only if it is one still when its change is made:
   the removal of a voter promises less than its name. *)
Promised(x) == ~(x.change.op = "Remove" /\ x.plan = "RemoveVoters")

(* An attempt's change takes effect in what it puts in the place of the configuration: nobody votes
   but who did and whom it promotes, nobody is a member but who was and whom it adds. *)
LEMMA RequestedStep ==
    ASSUME ShapeInv, NEW x \in wire, Wants(x), config.voters # <<>>, NEW d, d = Requested(x)
    PROVE  /\ d \in Configs /\ d.voters # <<>>
           /\ Voters(d) \subseteq Voters(config) \cup (IF x.change.op = "SetVoter" THEN {x.change.id} ELSE {})
           /\ \A i \in Members(d) : \/ i \in Members(config) /\ d.nodes[i] = config.nodes[i]
                                    \/ x.change = Add(i, d.nodes[i])
           /\ Valid(d) /\ Promised(x) => InForce(x.change, d)
  <1> DEFINE i == x.change.id
  <1>1. SoundTry(x, Term) /\ config \in Configs
    BY DEF ShapeInv, TryShape, ClusterShape, ConfigShape
  <1>2. i \in Ids /\ x.change \in Changes
    BY <1>1 DEF SoundTry, Changes
  <1>3. Goal(config) \in SUBSET Ids /\ Goal(config) \subseteq Voters(config)
    BY <1>1, ConfigParts
  <1>4. \/ x.change.op = "Add" /\ x.change.addr \in Machines
        \/ x.change.op = "SetVoter"
        \/ x.change.op = "SetLearner"
        \/ x.change.op = "Remove" /\ x.plan = "RemoveVoters"
        \/ x.change.op = "Remove" /\ x.plan = "RemoveNodes"
    BY <1>1, <1>2 DEF Wants, SoundTry, Changes
  <1>5. d \in Configs /\ d.voters # <<>> => d # NoConfig
    BY DEF NoConfig
  <1>6. CASE x.change.op = "SetVoter"
    <2> DEFINE goal == Goal(config) \cup {i}
    <2>1. d = WithVoters(config, goal, FALSE)
      BY <1>6 DEF Requested, AddVoterIds
    <2>2. goal \in SUBSET Ids
      BY <1>2, <1>3
    <2> HIDE DEF goal
    <2>3. Towards(config, goal, d)
      BY <1>1, <2>1, <2>2, VotersStep
    <2> USE DEF goal
    <2>4. InForce(x.change, d)
      BY <1>5, <1>6, <2>3 DEF InForce, Towards
    <2> QED BY <1>3, <1>6, <2>3, <2>4 DEF Towards
  <1>7. CASE x.change.op = "SetLearner" \/ (x.change.op = "Remove" /\ x.plan = "RemoveVoters")
    <2> DEFINE goal == Goal(config) \ {i}
    <2>1. d = WithVoters(config, goal, TRUE) \/ d = WithVoters(config, goal, FALSE)
      BY <1>7 DEF Requested, RemoveVoters
    <2>2. goal \in SUBSET Ids
      BY <1>3
    <2> HIDE DEF goal
    <2>3. Towards(config, goal, d)
      BY <1>1, <2>1, <2>2, VotersStep
    <2> USE DEF goal
    <2>4. Promised(x) => InForce(x.change, d)
      BY <1>5, <1>7, <2>3 DEF InForce, Towards, Promised
    <2> QED BY <1>3, <1>7, <2>3, <2>4 DEF Towards
  <1>8. CASE x.change.op = "Remove" /\ x.plan = "RemoveNodes"
    <2> DEFINE f == Restrict(config.nodes, Members(config) \ {i})
    <2>1. d = [voters |-> config.voters, nodes |-> f]
      <3>1. d = RemoveNodes(config, i)
        BY <1>8 DEF Requested
      <3>2. config = [voters |-> config.voters, nodes |-> config.nodes]
        BY <1>1, ConfigParts
      <3> HIDE DEF i
      <3> QED BY <3>1, <3>2 DEF RemoveNodes
    <2>2. config.nodes \in [Members(config) -> Machines] /\ Members(config) \in SUBSET Ids
      BY <1>1, ConfigParts
    <2>3. DOMAIN f = Members(config) \ {i} /\ \A j \in DOMAIN f : f[j] = config.nodes[j]
      BY DEF Restrict
    <2>4. f \in [DOMAIN f -> Machines] /\ DOMAIN f \in SUBSET Ids
      BY <2>2, <2>3 DEF Restrict
    <2> HIDE DEF f
    <2>5. d \in Configs
      BY <1>1, <2>1, <2>4, ConfigParts, MakeConfig
    <2>6. d.voters = config.voters /\ Voters(d) = Voters(config) /\ Goal(d) = Goal(config) /\ Members(d) = DOMAIN f
          /\ d.nodes = f
      BY <2>1 DEF Voters, Goal, Members
    <2>7. Valid(d) => i \notin Goal(d)
      BY <1>3, <2>3, <2>6 DEF Valid
    <2> QED BY <1>5, <1>8, <2>3, <2>5, <2>6, <2>7 DEF InForce
  <1>9. CASE x.change.op = "Add" /\ x.change.addr \in Machines
    <2>1. d = AddLearner(config, i, x.change.addr)
      BY <1>9 DEF Requested
    <2>2. CASE i \in Members(config)
      <3>1. d = config
        BY <2>1, <2>2 DEF AddLearner
      <3> QED BY <1>1, <1>5, <1>9, <2>2, <3>1 DEF InForce
    <2>3. CASE i \notin Members(config)
      <3> DEFINE f == [j \in Members(config) \cup {i} |-> IF j = i THEN x.change.addr ELSE config.nodes[j]]
      <3>1. d = [voters |-> config.voters, nodes |-> f]
        BY <1>1, <2>1, <2>3, ConfigParts DEF AddLearner
      <3>2. config.nodes \in [Members(config) -> Machines] /\ Members(config) \in SUBSET Ids
        BY <1>1, ConfigParts
      <3>3. DOMAIN f = Members(config) \cup {i} /\ f[i] = x.change.addr
            /\ \A j \in DOMAIN f : j # i => j \in Members(config) /\ f[j] = config.nodes[j]
        BY <2>3
      <3>4. f \in [DOMAIN f -> Machines] /\ DOMAIN f \in SUBSET Ids
        BY <1>2, <1>9, <3>2
      <3> HIDE DEF f
      <3>5. d \in Configs
        BY <1>1, <3>1, <3>4, ConfigParts, MakeConfig
      <3>6. d.voters = config.voters /\ Voters(d) = Voters(config) /\ Members(d) = DOMAIN f /\ d.nodes = f
        BY <3>1 DEF Voters, Members
      <3>7. x.change = Add(i, x.change.addr)
        BY <1>2, <1>9 DEF Changes, Add
      <3> QED BY <1>5, <1>9, <3>3, <3>5, <3>6, <3>7 DEF InForce
    <2> QED BY <2>2, <2>3
  <1> QED BY <1>4, <1>6, <1>7, <1>8, <1>9

-----------------------------------------------------------------------------
(* What a step makes of the cluster *)

(* A machine initializes the cluster that has no configuration yet. *)
Initializes(m) ==
    /\ id[m] = 0 /\ config = NoConfig /\ leaders = <<>>
    /\ config' = [voters |-> <<{0}>>, nodes |-> [j \in {0} |-> m]]
    /\ stable' = config'
    /\ UNCHANGED <<leaders, wire>>

(* A node is elected, and leads from one of the two configurations. *)
Elects ==
    /\ config' \in {config, stable} /\ config' # NoConfig /\ UNCHANGED <<stable, wire>>
    /\ \E m \in Machines : leaders' = Append(leaders, m)

(* An attempt puts its configuration into the log: its request, or the step out of a joint one. *)
Puts(x) ==
    /\ PutInLog(x, config') /\ config' \in Configs /\ config'.voters # <<>> /\ config.voters # <<>>
    /\ \/ Wants(x) /\ (Promised(x) => InForce(x.change, config'))
       \/ x.step = "joint"
    /\ Voters(config') \subseteq Voters(config) \cup (IF x.change.op = "SetVoter" THEN {x.change.id} ELSE {})
    /\ \A i \in Members(config') : \/ i \in Members(config) /\ config'.nodes[i] = config.nodes[i]
                                   \/ x.change = Add(i, config'.nodes[i])

(* What is put into the log is that, or the step out of the joint configuration that was there. *)
LEMMA PutStep ==
    ASSUME ShapeInv, NEW x \in wire, Propose(x) \/ LeaveJoint(x)
    PROVE  Puts(x)
  <1>1. SoundTry(x, Term) /\ config \in Configs /\ x.to \in Machines
    BY DEF ShapeInv, TryShape, ClusterShape, ConfigShape, SoundTry
  <1>2. Admits(x, config') /\ PutInLog(x, config')
    BY DEF Propose, LeaveJoint, PutInLog
  <1>3. config.voters # <<>> /\ stable.voters # <<>>
    BY <1>1, <1>2, LeaderHasConfig DEF Admits
  <1>4. CASE Propose(x)
    <2>1. config' = Requested(x) /\ Wants(x)
      BY <1>4 DEF Propose, PutInLog, Wants
    <2> QED BY <1>2, <1>3, <2>1, RequestedStep DEF Puts, Admits
  <1>5. CASE LeaveJoint(x)
    <2>1. x.step = "joint" /\ config' = WithVoters(config, Goal(config), x.change.op = "SetLearner")
      BY <1>5 DEF LeaveJoint, PutInLog
    <2>2. Goal(config) \in SUBSET Ids /\ Goal(config) \subseteq Voters(config)
      BY <1>1, <1>3, ConfigParts
    <2>3. config' = WithVoters(config, Goal(config), TRUE) \/ config' = WithVoters(config, Goal(config), FALSE)
      BY <2>1
    <2>4. Towards(config, Goal(config), config')
      BY <1>1, <1>3, <2>2, <2>3, VotersStep
    <2> QED BY <1>2, <1>3, <2>1, <2>2, <2>4 DEF Puts, Towards
  <1> QED BY <1>4, <1>5

(* The configurations change in these ways only. *)
LEMMA ConfigSteps ==
    ASSUME ShapeInv, [Next]_vars
    PROVE  \/ UNCHANGED <<config, stable, leaders>>
           \/ \E m \in Machines : Initializes(m)
           \/ Elects
           \/ CommitStep
           \/ \E x \in wire : Puts(x)
  <1>1. CASE UNCHANGED vars
    BY <1>1 DEF vars, clusterVars
  <1>2. CASE \E m \in Machines : NodeStep(m)
    <2> PICK m \in Machines : NodeStep(m)
      BY <1>2
    <2>1. CASE Start(m)
      <3>1. CASE id[m] = 0 /\ config = NoConfig
        <4>1. leaders = <<>>
          BY <3>1 DEF ShapeInv, ClusterShape, ConfigShape, NoConfig
        <4> QED BY <2>1, <3>1, <4>1 DEF Start, InitializeCluster, Initializes
      <3>2. CASE ~(id[m] = 0 /\ config = NoConfig)
        BY <2>1, <3>2 DEF Start, InitializeCluster
      <3> QED BY <3>1, <3>2
    <2>2. CASE ~Start(m)
      BY <2>2 DEF NodeStep, Open, Reopen, Create, Join, Enter, SaveId, JoinFails, Serve, Promoted,
                  PromotionFails, ServerFails, Stop, clusterVars
    <2> QED BY <2>1, <2>2
  <1>3. CASE \E m \in Machines : ElectionStep(m)
    <2>1. Voters(NoConfig) = {}
      BY DEF Voters, NoConfig, Range
    <2> QED BY <1>3, <2>1 DEF ElectionStep, Elect, Elects
  <1>4. CASE \E m \in Machines : ViewStep(m)
    BY <1>4 DEF ViewStep, Hear, Doubt
  <1>5. CASE \E x \in wire : HandlerStep(x)
    <2> PICK x \in wire : HandlerStep(x)
      BY <1>5
    <2>1. CASE Propose(x) \/ LeaveJoint(x)
      BY <2>1, PutStep
    <2>2. CASE ~(Propose(x) \/ LeaveJoint(x))
      BY <2>2 DEF HandlerStep, Redirect, HandOutId, PlanRemoval, Confirm, Forget, clusterVars
    <2> QED BY <2>1, <2>2
  <1>6. CASE \E c \in Clients : ClientStep(c)
    BY <1>6 DEF ClientStep, clusterVars
  <1>7. CASE \E o \in Operators : OperatorAsks(o) \/ OperatorReads(o)
    BY <1>7 DEF OperatorAsks, OperatorReads, clusterVars
  <1>8. CASE CommitStep
    BY <1>8 DEF CommitStep
  <1> QED BY <1>1, <1>2, <1>3, <1>4, <1>5, <1>6, <1>7, <1>8 DEF Next

(* So do the nodes' views, and the blank entries. *)
LEMMA ViewSteps ==
    ASSUME ShapeInv, [Next]_vars
    PROVE  /\ \/ view' = view
              \/ \E m \in Machines : /\ leaders' = Append(leaders, m)
                                     /\ view' = [view EXCEPT ![m] = [term |-> Term + 1, sure |-> TRUE]]
              \/ \E m \in Machines : Term > 0 /\ view' = [view EXCEPT ![m] = [term |-> Term, sure |-> TRUE]]
              \/ \E m \in Machines, b \in BOOLEAN : (b => view[m].sure) /\ view' = [view EXCEPT ![m].sure = b]
           /\ \/ index' = index
              \/ index < MaxIndex /\ index' = index + 1
  <1>1. CASE UNCHANGED vars
    BY <1>1 DEF vars, clusterVars
  <1>2. CASE \E m \in Machines : NodeStep(m)
    <2> PICK m \in Machines : NodeStep(m)
      BY <1>2
    <2>1. CASE Start(m)
      BY <2>1 DEF Start
    <2>2. CASE Stop(m)
      <3>1. view \in [Machines -> [term : 0 .. Term, sure : BOOLEAN]]
        BY DEF ShapeInv, ClusterShape, ViewShape
      <3>2. (view[m].sure /\ ~Leads(m)) \in BOOLEAN /\ index' = index
            /\ view' = [view EXCEPT ![m].sure = (view[m].sure /\ ~Leads(m))]
        BY <2>2, <3>1 DEF Stop
      <3> QED BY <3>2
    <2>3. CASE ~Start(m) /\ ~Stop(m)
      BY <2>3 DEF NodeStep, Open, Reopen, Create, Join, Enter, SaveId, JoinFails, Serve, Promoted,
                  PromotionFails, ServerFails, clusterVars
    <2> QED BY <2>1, <2>2, <2>3
  <1>3. CASE \E m \in Machines : ElectionStep(m)
    BY <1>3 DEF ElectionStep, Elect
  <1>4. CASE \E m \in Machines : ViewStep(m)
    <2> PICK m \in Machines : ViewStep(m)
      BY <1>4
    <2>1. CASE Hear(m)
      BY <2>1 DEF Hear, LeaderUp
    <2>2. CASE Doubt(m)
      BY <2>2 DEF Doubt
    <2> QED BY <2>1, <2>2 DEF ViewStep
  <1>5. CASE \E x \in wire : HandlerStep(x)
    <2> PICK x \in wire : HandlerStep(x)
      BY <1>5
    <2>1. CASE HandOutId(x)
      BY <2>1 DEF HandOutId
    <2>2. CASE ~HandOutId(x)
      BY <2>2 DEF HandlerStep, Redirect, PlanRemoval, Propose, LeaveJoint, PutInLog, Confirm, Forget,
                  clusterVars
    <2> QED BY <2>1, <2>2
  <1>6. CASE \E c \in Clients : ClientStep(c)
    BY <1>6 DEF ClientStep, clusterVars
  <1>7. CASE \E o \in Operators : OperatorAsks(o) \/ OperatorReads(o)
    BY <1>7 DEF OperatorAsks, OperatorReads, clusterVars
  <1>8. CASE CommitStep
    BY <1>8 DEF CommitStep, Commit
  <1> QED BY <1>1, <1>2, <1>3, <1>4, <1>5, <1>6, <1>7, <1>8 DEF Next

(* The terms do not go back. *)
LEMMA TermGrows ==
    ASSUME ShapeInv, [Next]_vars
    PROVE  /\ leaders' \in Seq(Machines) /\ Term \in Nat /\ Term' \in Nat /\ Term <= Term'
           /\ \/ leaders' = leaders
              \/ Elects /\ Term' = Term + 1
  <1>1. leaders \in Seq(Machines)
    BY DEF ShapeInv, ClusterShape
  <1>2. CASE leaders' = leaders
    BY <1>1, <1>2 DEF Term
  <1>3. CASE Elects
    <2> PICK m \in Machines : leaders' = Append(leaders, m)
      BY <1>3 DEF Elects
    <2> QED BY <1>1, <1>3 DEF Term
  <1> QED BY <1>2, <1>3, ConfigSteps DEF Initializes, CommitStep, Commit, Puts, PutInLog

(* So the cluster keeps its shape. *)
LEMMA ClusterStep ==
    ASSUME ShapeInv, [Next]_vars
    PROVE  ClusterShape'
  <1>1. leaders' \in Seq(Machines) /\ Term \in Nat /\ Term' \in Nat /\ Term <= Term'
    BY TermGrows
  <1>2. /\ view \in [Machines -> [term : 0 .. Term, sure : BOOLEAN]]
        /\ \A m \in Machines : view[m].sure => view[m].term > 0
    BY DEF ShapeInv, ClusterShape, ViewShape
  <1>3. ViewShape'
    <2>1. view \in [Machines -> [term : 0 .. Term', sure : BOOLEAN]]
      BY <1>1, <1>2
    <2>2. CASE view' = view
      BY <1>2, <2>1, <2>2 DEF ViewShape
    <2>3. ASSUME NEW m \in Machines, leaders' = Append(leaders, m),
                 view' = [view EXCEPT ![m] = [term |-> Term + 1, sure |-> TRUE]]
          PROVE  ViewShape'
      <3>1. Term' = Term + 1
        BY <2>3 DEF ShapeInv, ClusterShape, Term
      <3>2. Term + 1 \in 0 .. Term' /\ Term + 1 > 0
        BY <1>1, <3>1
      <3> QED BY <1>2, <2>1, <2>3, <3>2 DEF ViewShape
    <2>4. ASSUME NEW m \in Machines, Term > 0, view' = [view EXCEPT ![m] = [term |-> Term, sure |-> TRUE]]
          PROVE  ViewShape'
      <3>1. Term \in 0 .. Term'
        BY <1>1
      <3> QED BY <1>2, <2>1, <2>4, <3>1 DEF ViewShape
    <2>5. ASSUME NEW m \in Machines, NEW b \in BOOLEAN, b => view[m].sure, view' = [view EXCEPT ![m].sure = b]
          PROVE  ViewShape'
      BY <1>2, <2>1, <2>5 DEF ViewShape
    <2> QED BY <2>2, <2>3, <2>4, <2>5, ViewSteps
  <1>4. index' \in 0 .. MaxIndex
    BY ViewSteps, BoundsAssumption DEF ShapeInv, ClusterShape
  <1>5. ConfigShape'
    <2>1. /\ config \in Configs /\ stable \in Configs
          /\ \/ leaders = <<>> /\ config = NoConfig /\ stable = NoConfig
             \/ config.voters # <<>> /\ stable.voters # <<>>
      BY DEF ShapeInv, ClusterShape, ConfigShape
    <2>2. CASE UNCHANGED <<config, stable, leaders>>
      BY <2>1, <2>2 DEF ConfigShape
    <2>3. ASSUME NEW m \in Machines, Initializes(m)
          PROVE  ConfigShape'
      <3>1. 0 \in Ids
        BY BoundsAssumption DEF Ids
      <3>2. <<{0}>> \in Seq(SUBSET Ids) /\ Len(<<{0}>>) = 1
        BY <3>1
      <3>3. config' \in Configs
        <4> DEFINE v == <<{0}>>
                   f == [j \in {0} |-> m]
        <4>1. v \in Seq(SUBSET Ids) /\ Len(v) \in 0 .. 2
          BY <3>2
        <4>2. DOMAIN f \in SUBSET Ids /\ f \in [DOMAIN f -> Machines]
          BY <3>1
        <4>3. config' = [voters |-> v, nodes |-> f]
          BY <2>3 DEF Initializes
        <4> HIDE DEF v, f
        <4> QED BY <4>1, <4>2, <4>3, MakeConfig
      <3> QED BY <2>3, <3>3 DEF Initializes, ConfigShape
    <2>4. CASE Elects
      BY <2>1, <2>4 DEF Elects, ConfigShape
    <2>5. CASE CommitStep
      BY <2>1, <2>5 DEF CommitStep, Commit, ConfigShape, NoConfig
    <2>6. ASSUME NEW x \in wire, Puts(x)
          PROVE  ConfigShape'
      <3>1. config = stable /\ stable' = stable
        BY <2>6 DEF Puts, PutInLog, Admits
      <3> QED BY <2>1, <2>6, <3>1 DEF Puts, ConfigShape
    <2> QED BY <2>2, <2>3, <2>4, <2>5, <2>6, ConfigSteps
  <1> QED BY <1>1, <1>3, <1>4, <1>5 DEF ClusterShape

-----------------------------------------------------------------------------
(* Calls, attempts and processes *)

(* An attempt that somebody waits for is the one attempt under way of a call that waits. *)
LinkInv ==
    /\ \A x \in wire : x.client # Nobody => call[x.client].status = "waiting" /\ call[x.client].change = x.change
    /\ \A x, y \in wire : x.client = y.client /\ x.client # Nobody => x = y

(* The call a process makes and the seed it keeps, by how far it is. *)
ProcessInv ==
    \A m \in Machines :
        /\ at[m] \in {"down", "identified"} => call[m] = Idle
        /\ at[m] \in {"identified", "started", "serving"} => id[m] # NoId
        /\ at[m] = "joining" => id[m] = NoId /\ call[m].change.op \in {"NodeId", "Add"}
        /\ at[m] \in {"down", "started", "serving"} => seed[m] = NoAddr

(* A change names a node, once node_id is answered. *)
GivenInv ==
    /\ \A c \in Clients : call[c].status = "ok" \/ call[c].change.op # "NodeId" => call[c].change.id # NoId
    /\ \A x \in wire : x.change.op # "NodeId" => x.change.id # NoId

TalkInv == ShapeInv /\ LinkInv /\ ProcessInv /\ GivenInv

(* What a step does to the calls and to the attempts under way: a call begins anew or ends, an attempt
   is answered or goes on, a client no longer waits for its own. *)
Anew(c) ==
    \/ call'[c] = Idle
    \/ c \in Machines /\ at'[c] = "joining" /\ \E s \in Machines : call'[c] = Started(NodeId, s)
    \/ /\ c \in Machines /\ at[c] = "joining" /\ at' = at /\ call[c].status = "ok"
       /\ call'[c] = Started(Add(call[c].change.id, c), seed[c])
    \/ /\ c \in Machines /\ at[c] = "identified" /\ at'[c] = "started" /\ seed[c] # NoAddr
       /\ call'[c] = Started(SetVoter(id[c]), seed[c])
    \/ /\ c \in Operators
       /\ \E kind \in Requests, m \in Machines, s \in Machines :
             id[m] # NoId /\ call'[c] = Started(Asked(kind, id[m]), s)

Replied(x) ==
    \/ \E a \in Machines : call'[x.client] = Unanswered(x.client, a)
    \/ x.step = "done" /\ call'[x.client] = Result(x, x.change)
    \/ /\ x.change.op = "NodeId" /\ index < MaxIndex /\ index' = index + 1
       /\ call'[x.client] = Result(x, [x.change EXCEPT !.id = index + 1])

Plans(x, y) ==
    /\ x.step = "sent" /\ x.change.op = "Remove"
    /\ \E plan \in {"RemoveVoters", "RemoveNodes"} : y = [x EXCEPT !.step = "planned", !.plan = plan]

Logs(x, y) ==
    /\ Puts(x)
    /\ \/ /\ config' # config
          /\ y = [x EXCEPT !.step = "proposed", !.after = AfterCommit(x, config'), !.term = Term]
       \/ config' = config /\ y = [x EXCEPT !.step = AfterCommit(x, config')]

Keeps == call' = call /\ wire' \subseteq wire
Resets(c) ==
    /\ call[c].status # "waiting"
    /\ call' = [call EXCEPT ![c] = call'[c]] /\ Anew(c) /\ wire' \subseteq wire
Answers(x) ==
    /\ wire' = wire \ {x}
    /\ IF x.client = Nobody THEN call' = call
       ELSE call' = [call EXCEPT ![x.client] = call'[x.client]] /\ Replied(x)
Advances(x, y) == Advance(x, y) /\ (Plans(x, y) \/ Logs(x, y))
Drops(c) ==
    /\ call' = [call EXCEPT ![c] = call'[c]]
    /\ \/ call'[c] = Idle
       \/ call[c].status = "waiting" /\ call'[c] = Unanswered(c, call[c].target)
    /\ \E w \in Abandoned(c) : wire' \subseteq w

Talks ==
    \/ Keeps
    \/ \E c \in Clients : Resets(c) \/ Ask(c) \/ Drops(c)
    \/ \E x \in wire : Answers(x) \/ \E y : Advances(x, y)
    \/ CommitStep

(* Every step is one of these, to the calls and the attempts. *)
LEMMA TalkSteps ==
    ASSUME TalkInv, [Next]_vars
    PROVE  Talks
  <1>0. stable \in Configs /\ config \in Configs /\ at = [m \in Machines |-> at[m]]
    BY DEF TalkInv, ShapeInv, ClusterShape, ConfigShape, NodeShape
  <1>1. call = [c \in Clients |-> call[c]]
    BY DEF TalkInv, ShapeInv, CallShape
  <1>2. CASE UNCHANGED vars
    BY <1>2 DEF vars, Talks, Keeps
  <1>3. CASE \E m \in Machines : NodeStep(m)
    <2> PICK m \in Machines : NodeStep(m)
      BY <1>3
    <2>1. m \in Clients
      BY ActorsAssumption
    <2>2. CASE Open(m)
      <3>1. CASE Reopen(m) \/ Create(m)
        BY <3>1 DEF Reopen, Create, Talks, Keeps
      <3>2. CASE Join(m)
        <4>1. call[m].status # "waiting"
          BY <3>2 DEF Join, TalkInv, ProcessInv, Idle
        <4>2. PICK s \in Range(stable.nodes) : call' = [call EXCEPT ![m] = Started(NodeId, s)]
          BY <3>2 DEF Join
        <4>3. s \in Machines
          BY <1>0, ConfigParts
        <4>4. /\ wire' = wire /\ call' = [call EXCEPT ![m] = call'[m]] /\ call'[m] = Started(NodeId, s)
              /\ at'[m] = "joining"
          BY <1>0, <1>1, <2>1, <3>2, <4>2 DEF Join
        <4> QED BY <2>1, <4>1, <4>3, <4>4 DEF Talks, Resets, Anew
      <3> QED BY <2>2, <3>1, <3>2 DEF Open
    <2>3. CASE SaveId(m) \/ JoinFails(m) \/ Promoted(m) \/ PromotionFails(m)
      <3>1. call[m].status # "waiting"
        BY <2>3 DEF SaveId, JoinFails, Promoted, PromotionFails
      <3>2. wire' \subseteq wire /\ call' = [call EXCEPT ![m] = call'[m]] /\ call'[m] = Idle
        BY <1>1, <2>1, <2>3 DEF SaveId, JoinFails, Promoted, PromotionFails
      <3> QED BY <2>1, <3>1, <3>2 DEF Talks, Resets, Anew
    <2>7. CASE Enter(m)
      <3>1. call[m].status = "ok" /\ at[m] = "joining"
        BY <2>7 DEF Enter
      <3>2. /\ wire' \subseteq wire /\ call' = [call EXCEPT ![m] = call'[m]]
            /\ call'[m] = Started(Add(call[m].change.id, m), seed[m]) /\ at' = at
        BY <1>1, <2>1, <2>7 DEF Enter, nodeVars
      <3> QED BY <2>1, <3>1, <3>2 DEF Talks, Resets, Anew
    <2>4. CASE Start(m)
      <3>1. call[m].status # "waiting" /\ at[m] = "identified"
        BY <2>4 DEF Start, TalkInv, ProcessInv, Idle
      <3>2. CASE seed[m] = NoAddr
        BY <2>4, <3>2 DEF Start, Talks, Keeps
      <3>3. CASE seed[m] # NoAddr
        <4>1. /\ wire' = wire /\ call' = [call EXCEPT ![m] = call'[m]]
              /\ call'[m] = Started(SetVoter(id[m]), seed[m]) /\ at'[m] = "started"
          BY <1>0, <1>1, <2>1, <2>4, <3>3 DEF Start
        <4> QED BY <2>1, <3>1, <3>3, <4>1 DEF Talks, Resets, Anew
      <3> QED BY <3>2, <3>3
    <2>5. CASE Serve(m)
      BY <2>5 DEF Serve, Talks, Keeps
    <2>6. CASE ServerFails(m) \/ Stop(m)
      <3>1. /\ call' = [call EXCEPT ![m] = call'[m]] /\ call'[m] = Idle
            /\ \E w \in Abandoned(m) : wire' \subseteq w
        BY <1>1, <2>1, <2>6 DEF ServerFails, Stop
      <3> QED BY <2>1, <3>1 DEF Talks, Drops
    <2> QED BY <2>2, <2>3, <2>4, <2>5, <2>6, <2>7 DEF NodeStep
  <1>4. CASE \E m \in Machines : ElectionStep(m) \/ ViewStep(m)
    BY <1>4 DEF ElectionStep, ViewStep, Talks, Keeps
  <1>5. CASE \E x \in wire : HandlerStep(x)
    <2> PICK x \in wire : HandlerStep(x)
      BY <1>5
    <2>1. SoundTry(x, Term)
      BY DEF TalkInv, ShapeInv, TryShape
    <2>2. ASSUME NEW k, Answer(x, k), x.client # Nobody,
                 call'[x.client] = k => Replied(x)
          PROVE  Answers(x)
      <3>1. x.client \in Clients
        BY <2>1, <2>2 DEF SoundTry
      <3> QED BY <1>1, <2>2, <3>1 DEF Answer, Answers
    <2>3. CASE (Redirect(x) \/ HandOutId(x) \/ Confirm(x)) /\ x.client = Nobody
      BY <2>3 DEF Redirect, HandOutId, Confirm, Answer, Answers, Talks
    <2>6. CASE Redirect(x) /\ x.client # Nobody
      <3>1. Range(config.nodes) \subseteq Machines /\ x.to \in Machines
        BY <1>0, <2>1, ConfigParts DEF SoundTry
      <3>2. PICK a \in Machines : Answer(x, Unanswered(x.client, a))
        BY <2>6, <3>1 DEF Redirect
      <3> QED BY <2>2, <2>6, <3>2 DEF Talks, Replied
    <2>7. CASE HandOutId(x) /\ x.client # Nobody
      BY <2>2, <2>7 DEF HandOutId, Talks, Replied
    <2>8. CASE Confirm(x) /\ x.client # Nobody
      BY <2>2, <2>8 DEF Confirm, Talks, Replied
    <2>9. CASE PlanRemoval(x)
      BY <2>9 DEF PlanRemoval, Advances, Plans, Talks
    <2>10. CASE Propose(x) \/ LeaveJoint(x)
      <3>1. Puts(x)
        BY <2>10, PutStep DEF TalkInv
      <3> QED BY <3>1 DEF Puts, PutInLog, Advances, Logs, Talks
    <2>5. CASE Forget(x)
      BY <2>5 DEF Forget, Talks, Keeps
    <2> QED BY <2>3, <2>5, <2>6, <2>7, <2>8, <2>9, <2>10 DEF HandlerStep
  <1>6. CASE \E c \in Clients : ClientStep(c)
    <2> PICK c \in Clients : ClientStep(c)
      BY <1>6
    <2>1. CASE Ask(c)
      BY <2>1 DEF Talks
    <2>2. CASE AttemptFails(c)
      BY <1>1, <2>2 DEF AttemptFails, Talks, Drops
    <2> QED BY <2>1, <2>2 DEF ClientStep
  <1>7. CASE \E o \in Operators : OperatorAsks(o) \/ OperatorReads(o)
    <2> PICK o \in Operators : OperatorAsks(o) \/ OperatorReads(o)
      BY <1>7
    <2>1. o \in Clients
      BY ActorsAssumption
    <2>2. call[o].status # "waiting" /\ wire' = wire
      BY DEF OperatorAsks, OperatorReads
    <2>3. CASE OperatorAsks(o)
      <3>1. PICK kind \in Requests, m \in Machines, s \in Serving :
               id[m] # NoId /\ call' = [call EXCEPT ![o] = Started(Asked(kind, id[m]), s)]
        BY <2>3 DEF OperatorAsks
      <3>2. s \in Machines
        BY DEF Serving
      <3>3. call' = [call EXCEPT ![o] = call'[o]] /\ call'[o] = Started(Asked(kind, id[m]), s)
        BY <1>1, <2>1, <3>1
      <3> QED BY <2>1, <2>2, <3>1, <3>2, <3>3 DEF Talks, Resets, Anew
    <2>4. CASE OperatorReads(o)
      <3>1. call' = [call EXCEPT ![o] = call'[o]] /\ call'[o] = Idle
        BY <1>1, <2>1, <2>4 DEF OperatorReads
      <3> QED BY <2>1, <2>2, <3>1 DEF Talks, Resets, Anew
    <2> QED BY <2>3, <2>4
  <1>8. CASE CommitStep
    BY <1>8 DEF Talks
  <1> QED BY <1>2, <1>3, <1>4, <1>5, <1>6, <1>7, <1>8 DEF Next

(* What is left of a dropped call is waited for by nobody. *)
LEMMA Dropped ==
    ASSUME NEW c \in Clients, NEW w \in Abandoned(c), NEW y \in w
    PROVE  \/ y \in wire /\ y.client # c
           \/ \E x \in wire : x.client = c /\ y = [x EXCEPT !.client = Nobody]
  BY DEF Abandoned

(* An attempt is waited for by the one client whose call it is for. *)
LEMMA LinkStep ==
    ASSUME TalkInv, [Next]_vars
    PROVE  LinkInv'
  <1>1. LinkInv /\ call \in [Clients -> CallType] /\ \A x \in wire : SoundTry(x, Term)
    BY DEF TalkInv, ShapeInv, CallShape, TryShape
  <1>2. \A x \in wire : x.client # Nobody => x.client \in Clients
    BY <1>1 DEF SoundTry
  <1>3. CASE Keeps
    BY <1>1, <1>3 DEF Keeps, LinkInv
  <1>4. ASSUME NEW c \in Clients, Resets(c)
        PROVE  LinkInv'
    <2>1. \A x \in wire' : x \in wire /\ (x.client # Nobody => x.client # c)
      BY <1>1, <1>4 DEF Resets, LinkInv
    <2>2. \A d \in Clients : d # c => call'[d] = call[d]
      BY <1>1, <1>4 DEF Resets
    <2> QED BY <1>1, <1>2, <2>1, <2>2 DEF LinkInv
  <1>5. ASSUME NEW c \in Clients, Ask(c)
        PROVE  LinkInv'
    <2> DEFINE y == [client |-> c, change |-> call[c].change, to |-> call[c].target,
                     step |-> "sent", plan |-> "none", after |-> "none", term |-> 0]
    <2>1. wire' = wire \cup {y} /\ call[c].status = "ready"
      BY <1>5 DEF Ask
    <2>2. \A d \in Clients : d # c => call'[d] = call[d]
      BY <1>1, <1>5 DEF Ask
    <2>3. call'[c].status = "waiting" /\ call'[c].change = call[c].change
      BY <1>1, <1>5 DEF Ask, CallType
    <2>4. \A x \in wire : x.client # c
      BY <1>1, <2>1, NobodyAssumption DEF LinkInv
    <2>5. y.client = c /\ y.change = call[c].change
      OBVIOUS
    <2> HIDE DEF y
    <2> QED BY <1>1, <1>2, <2>1, <2>2, <2>3, <2>4, <2>5 DEF LinkInv
  <1>6. ASSUME NEW c \in Clients, Drops(c)
        PROVE  LinkInv'
    <2>1. \A x \in wire' : x.client # Nobody => x \in wire /\ x.client # c
      <3> TAKE x \in wire'
      <3>1. CASE x \in wire /\ x.client # c
        BY <3>1
      <3>2. ASSUME NEW z \in wire, x = [z EXCEPT !.client = Nobody]
            PROVE  x.client = Nobody
        BY <1>1, <3>2 DEF SoundTry
      <3> QED BY <1>6, <3>1, <3>2, Dropped DEF Drops
    <2>2. \A d \in Clients : d # c => call'[d] = call[d]
      BY <1>1, <1>6 DEF Drops
    <2> QED BY <1>1, <1>2, <2>1, <2>2 DEF LinkInv
  <1>7. ASSUME NEW x \in wire, Answers(x)
        PROVE  LinkInv'
    <2>1. \A y \in wire' : y \in wire /\ y # x
      BY <1>7 DEF Answers
    <2>2. \A d \in Clients : d # x.client => call'[d] = call[d]
      BY <1>1, <1>7 DEF Answers
    <2> QED BY <1>1, <1>2, <2>1, <2>2 DEF LinkInv
  <1>8. ASSUME NEW x \in wire, NEW y, Advances(x, y)
        PROVE  LinkInv'
    <2>1. wire' = (wire \ {x}) \cup {y} /\ call' = call
      BY <1>8 DEF Advances, Advance
    <2>2. y.client = x.client /\ y.change = x.change
      BY <1>1, <1>8 DEF Advances, Plans, Logs, SoundTry
    <2> QED BY <1>1, <2>1, <2>2 DEF LinkInv
  <1>9. CASE CommitStep
    <2> DEFINE On(x) == IF x.step = "proposed" /\ x.term = Term THEN [x EXCEPT !.step = x.after] ELSE x
    <2>1. wire' = {On(x) : x \in wire} /\ call' = call
      BY <1>9 DEF CommitStep
    <2>2. \A x \in wire : On(x).client = x.client /\ On(x).change = x.change
      BY <1>1 DEF SoundTry
    <2> HIDE DEF On
    <2> QED BY <1>1, <2>1, <2>2 DEF LinkInv
  <1> QED BY <1>3, <1>4, <1>5, <1>6, <1>7, <1>8, <1>9, TalkSteps DEF Talks

(* Where an attempt comes from. *)
Sends(c, y) ==
    /\ Ask(c)
    /\ y = [client |-> c, change |-> call[c].change, to |-> call[c].target,
            step |-> "sent", plan |-> "none", after |-> "none", term |-> 0]

Commits(x, y) ==
    /\ CommitStep /\ x.step = "proposed" /\ x.term = Term
    /\ y = [x EXCEPT !.step = x.after]

(* An attempt under way was there, is one that went on, or was just sent. *)
LEMMA TrySteps ==
    ASSUME TalkInv, [Next]_vars, NEW y \in wire'
    PROVE  \/ y \in wire
           \/ \E x \in wire : y = [x EXCEPT !.client = Nobody] \/ Plans(x, y) \/ Logs(x, y) \/ Commits(x, y)
           \/ \E c \in Clients : Sends(c, y)
  <1>1. CASE Keeps \/ (\E c \in Clients : Resets(c)) \/ (\E x \in wire : Answers(x))
    BY <1>1 DEF Keeps, Resets, Answers
  <1>2. ASSUME NEW c \in Clients, Ask(c)
        PROVE  y \in wire \/ Sends(c, y)
    BY <1>2 DEF Ask, Sends
  <1>3. ASSUME NEW c \in Clients, Drops(c)
        PROVE  y \in wire \/ \E x \in wire : y = [x EXCEPT !.client = Nobody]
    BY <1>3, Dropped DEF Drops
  <1>4. ASSUME NEW x \in wire, NEW z, Advances(x, z)
        PROVE  y \in wire \/ Plans(x, y) \/ Logs(x, y)
    BY <1>4 DEF Advances, Advance
  <1>5. CASE CommitStep
    BY <1>5 DEF CommitStep, Commits
  <1> QED BY <1>1, <1>2, <1>3, <1>4, <1>5, TalkSteps DEF Talks

(* How a client's call goes on. *)
LEMMA CallSteps ==
    ASSUME TalkInv, [Next]_vars, NEW c \in Clients
    PROVE  \/ call'[c] = call[c]
           \/ Anew(c)
           \/ call[c].status = "ready" /\ call'[c] = [call[c] EXCEPT !.status = "waiting", !.left = @ - 1]
           \/ /\ call[c].status = "waiting"
              /\ \/ \E a \in Machines : call'[c] = Unanswered(c, a)
                 \/ \E x \in wire : x.client = c /\ x.change = call[c].change /\ Replied(x)
  <1>1. LinkInv /\ call \in [Clients -> CallType] /\ SoundCall(call[c]) /\ \A x \in wire : SoundTry(x, Term)
    BY DEF TalkInv, ShapeInv, CallShape, TryShape
  <1>2. CASE Keeps \/ CommitStep \/ \E x \in wire : \E y : Advances(x, y)
    BY <1>2 DEF Keeps, CommitStep, Advances, Advance
  <1>3. ASSUME NEW d \in Clients, Resets(d)
        PROVE  call'[c] = call[c] \/ Anew(c)
    BY <1>1, <1>3 DEF Resets
  <1>4. ASSUME NEW d \in Clients, Ask(d)
        PROVE  \/ call'[c] = call[c]
               \/ call[c].status = "ready" /\ call'[c] = [call[c] EXCEPT !.status = "waiting", !.left = @ - 1]
    BY <1>1, <1>4 DEF Ask, CallType
  <1>5. ASSUME NEW d \in Clients, Drops(d)
        PROVE  \/ call'[c] = call[c]
               \/ Anew(c)
               \/ call[c].status = "waiting" /\ \E a \in Machines : call'[c] = Unanswered(c, a)
    BY <1>1, <1>5 DEF Drops, Anew, SoundCall
  <1>6. ASSUME NEW x \in wire, Answers(x)
        PROVE  \/ call'[c] = call[c]
               \/ call[c].status = "waiting" /\ x.client = c /\ x.change = call[c].change /\ Replied(x)
    BY <1>1, <1>6 DEF Answers, LinkInv
  <1> QED BY <1>2, <1>3, <1>4, <1>5, <1>6, TalkSteps DEF Talks

(* The calls that begin are sound. *)
LEMMA ChangeTypes ==
    /\ NodeId \in Changes
    /\ \A i \in Ids : SetVoter(i) \in Changes /\ SetLearner(i) \in Changes /\ Remove(i) \in Changes
    /\ \A i \in Ids, m \in Machines : Add(i, m) \in Changes
  BY BoundsAssumption DEF Changes, NodeId, SetVoter, SetLearner, Remove, Add, NoId, Ids

(* A call that begins has its attempts before it and an address to send them to. *)
LEMMA StartedSound ==
    ASSUME NEW change \in Changes, change.op # "Add" \/ change.addr \in Machines, NEW a \in Machines
    PROVE  SoundCall(Started(change, a))
  BY AttemptsAssumption DEF Started, SoundCall, CallType, Statuses

(* So it is for every call that begins. *)
LEMMA AnewSound ==
    ASSUME TalkInv, NEW c \in Clients, Anew(c)
    PROVE  SoundCall(call'[c])
  <1>1. SoundCall(call[c]) /\ NodeShape
    BY DEF TalkInv, ShapeInv, CallShape
  <1>2. call[c].change.id \in Ids
    BY <1>1 DEF SoundCall, CallType, Changes
  <1>3. CASE call'[c] = Idle
    BY <1>3, BoundsAssumption, AttemptsAssumption
       DEF SoundCall, CallType, Idle, NodeId, NoId, Changes, Ids, Statuses
  <1>4. ASSUME NEW s \in Machines, call'[c] = Started(NodeId, s)
        PROVE  SoundCall(call'[c])
    <2>1. NodeId.op # "Add"
      BY DEF NodeId
    <2> QED BY <1>4, <2>1, ChangeTypes, StartedSound
  <1>5. CASE c \in Machines /\ at[c] = "joining" /\ call'[c] = Started(Add(call[c].change.id, c), seed[c])
    <2>1. seed[c] \in Machines /\ Add(call[c].change.id, c).addr = c
      BY <1>1, <1>5 DEF NodeShape, Add
    <2> QED BY <1>2, <1>5, <2>1, ChangeTypes, StartedSound
  <1>6. CASE c \in Machines /\ seed[c] # NoAddr /\ call'[c] = Started(SetVoter(id[c]), seed[c])
    <2>1. seed[c] \in Machines /\ id[c] \in Ids /\ SetVoter(id[c]).op # "Add"
      BY <1>1, <1>6 DEF NodeShape, SetVoter
    <2> QED BY <1>6, <2>1, ChangeTypes, StartedSound
  <1>7. ASSUME NEW kind \in Requests, NEW m \in Machines, NEW s \in Machines,
               call'[c] = Started(Asked(kind, id[m]), s)
        PROVE  SoundCall(call'[c])
    <2>1. id[m] \in Ids
      BY <1>1 DEF NodeShape
    <2>2. Asked(kind, id[m]) \in {SetVoter(id[m]), SetLearner(id[m]), Remove(id[m])}
      BY ActorsAssumption DEF Asked
    <2>3. Asked(kind, id[m]).op # "Add"
      BY <2>2 DEF SetVoter, SetLearner, Remove
    <2> QED BY <1>7, <2>1, <2>2, <2>3, ChangeTypes, StartedSound
  <1> QED BY <1>3, <1>4, <1>5, <1>6, <1>7 DEF Anew

(* What becomes of a sound call and of a sound attempt is sound. *)
LEMMA CallShapeStep ==
    ASSUME TalkInv, [Next]_vars
    PROVE  CallShape'
  <1>1. call \in [Clients -> CallType] /\ \A x \in wire : SoundTry(x, Term)
    BY DEF TalkInv, ShapeInv, CallShape, TryShape
  <1>2. ASSUME NEW c \in Clients
        PROVE  SoundCall(call'[c])
    <2>1. SoundCall(call[c])
      BY DEF TalkInv, ShapeInv, CallShape
    <2>2. CASE call'[c] = call[c]
      BY <2>1, <2>2
    <2>3. CASE Anew(c)
      BY <2>3, AnewSound
    <2>4. CASE call[c].status = "ready" /\ call'[c] = [call[c] EXCEPT !.status = "waiting", !.left = @ - 1]
      <3>1. call[c].left - 1 \in 0 .. Attempts
        BY <2>1, <2>4, AttemptsAssumption DEF SoundCall, CallType
      <3> QED BY <2>1, <2>4, <3>1 DEF SoundCall, CallType, Statuses
    <2>5. ASSUME NEW a \in Machines, call[c].status = "waiting", call'[c] = Unanswered(c, a)
          PROVE  SoundCall(call'[c])
      <3>1. CASE call[c].left = 0
        <4>1. call'[c] = [call[c] EXCEPT !.status = "failed", !.target = a]
          BY <2>5, <3>1 DEF Unanswered
        <4> QED BY <2>1, <4>1 DEF SoundCall, CallType, Statuses
      <3>2. CASE call[c].left # 0
        <4>1. call'[c] = [call[c] EXCEPT !.status = "ready", !.target = a]
          BY <2>5, <3>2 DEF Unanswered
        <4>2. call[c].left > 0
          BY <2>1, <3>2, AttemptsAssumption DEF SoundCall, CallType
        <4> QED BY <2>1, <4>1, <4>2 DEF SoundCall, CallType, Statuses
      <3> QED BY <3>1, <3>2
    <2>6. ASSUME NEW x \in wire, x.client = c, x.change = call[c].change, call[c].status = "waiting", Replied(x)
          PROVE  SoundCall(call'[c])
      <3>1. ASSUME NEW change \in Changes, change.op # "Add" \/ change.addr \in Machines,
                   call'[c] = Result(x, change)
            PROVE  SoundCall(call'[c])
        BY <2>1, <2>6, <3>1 DEF SoundCall, CallType, Statuses, Result
      <3>2. CASE call'[c] = Result(x, x.change)
        BY <1>1, <3>1, <3>2 DEF SoundTry
      <3>3. CASE x.change.op = "NodeId" /\ index < MaxIndex /\ call'[c] = Result(x, [x.change EXCEPT !.id = index + 1])
        <4>1. index + 1 \in Ids
          BY <3>3, BoundsAssumption DEF TalkInv, ShapeInv, ClusterShape, Ids
        <4>2. [x.change EXCEPT !.id = index + 1] \in Changes /\ [x.change EXCEPT !.id = index + 1].op # "Add"
          BY <1>1, <3>3, <4>1 DEF SoundTry, Changes
        <4> QED BY <3>1, <3>3, <4>2
      <3> QED BY <2>5, <2>6, <3>2, <3>3 DEF Replied
    <2> QED BY <2>2, <2>3, <2>4, <2>5, <2>6, CallSteps
  <1>3. call' = [c \in Clients |-> call'[c]]
    <2>1. ASSUME NEW d \in Clients, call' = [call EXCEPT ![d] = call'[d]]
          PROVE  <1>3
      BY <1>1, <2>1
    <2>2. CASE call' = call
      BY <1>1, <2>2
    <2>3. \A x \in wire : x.client # Nobody => x.client \in Clients
      BY <1>1 DEF SoundTry
    <2>4. ASSUME NEW d \in Clients, Ask(d)
          PROVE  <1>3
      BY <1>1, <2>4 DEF Ask
    <2> QED BY <2>1, <2>2, <2>3, <2>4, TalkSteps DEF Talks, Keeps, Resets, Answers, Advances, Advance, Drops, CommitStep
  <1> QED BY <1>2, <1>3 DEF CallShape, SoundCall

(* What an attempt asks for does not change. *)
LEMMA ChangeSteps ==
    ASSUME TalkInv, [Next]_vars, NEW y \in wire'
    PROVE  (\E x \in wire : y.change = x.change) \/ (\E c \in Clients : y.change = call[c].change)
  <1>1. \A x \in wire : SoundTry(x, Term)
    BY DEF TalkInv, ShapeInv, TryShape
  <1>2. ASSUME NEW x \in wire, y = [x EXCEPT !.client = Nobody] \/ Plans(x, y) \/ Logs(x, y) \/ Commits(x, y)
        PROVE  y.change = x.change
    BY <1>1, <1>2 DEF Plans, Logs, Commits, SoundTry
  <1>3. ASSUME NEW c \in Clients, Sends(c, y)
        PROVE  y.change = call[c].change
    BY <1>3 DEF Sends
  <1> QED BY <1>2, <1>3, TrySteps

(* What an attempt goes on to be is sound. *)
LEMMA TryShapeStep ==
    ASSUME TalkInv, [Next]_vars
    PROVE  TryShape'
  <1>1. Term \in Nat /\ Term' \in Nat /\ Term <= Term'
    BY TermGrows DEF TalkInv
  <1>2. \A x \in wire : SoundTry(x, Term) /\ SoundTry(x, Term')
    BY <1>1 DEF TalkInv, ShapeInv, TryShape, SoundTry
  <1>3. ASSUME NEW y \in wire'
        PROVE  SoundTry(y, Term')
    <2>1. CASE y \in wire
      BY <1>2, <2>1
    <2>2. ASSUME NEW x \in wire, y = [x EXCEPT !.client = Nobody]
          PROVE  SoundTry(y, Term')
      BY <1>2, <2>2 DEF SoundTry
    <2>3. ASSUME NEW x \in wire, Plans(x, y)
          PROVE  SoundTry(y, Term')
      BY <1>2, <2>3 DEF SoundTry, Plans, Steps
    <2>4. ASSUME NEW x \in wire, Logs(x, y)
          PROVE  SoundTry(y, Term')
      <3>1. AfterCommit(x, config') \in {"joint", "done"} /\ Term \in 0 .. Term'
        BY <1>1 DEF AfterCommit
      <3>2. x.change.op # "NodeId"
        BY <1>2, <2>4 DEF Logs, Puts, Wants, SoundTry
      <3>3. y = [x EXCEPT !.step = "proposed", !.after = AfterCommit(x, config'), !.term = Term]
            \/ y = [x EXCEPT !.step = AfterCommit(x, config')]
        BY <2>4 DEF Logs
      <3> QED BY <1>2, <3>1, <3>2, <3>3 DEF SoundTry, Steps
    <2>5. ASSUME NEW x \in wire, Commits(x, y)
          PROVE  SoundTry(y, Term')
      BY <1>2, <2>5 DEF SoundTry, Commits, Steps
    <2>6. ASSUME NEW c \in Clients, Sends(c, y)
          PROVE  SoundTry(y, Term')
      <3>1. SoundCall(call[c]) /\ call[c].status = "ready"
        BY <2>6 DEF TalkInv, ShapeInv, CallShape, Sends, Ask
      <3> QED BY <1>1, <2>6, <3>1 DEF SoundTry, SoundCall, CallType, Sends, Steps
    <2> QED BY <2>1, <2>2, <2>3, <2>4, <2>5, <2>6, TrySteps
  <1> QED BY <1>3 DEF TryShape

(* The other actors change nothing a process keeps. *)
LEMMA NodeKept ==
    ASSUME [Next]_vars, \A m \in Machines : ~NodeStep(m)
    PROVE  /\ UNCHANGED <<heartbeat, id, at, seed, stops, unpromoted>>
           /\ \/ asked' = asked
              \/ asked < MaxAsked /\ asked' = asked + 1
  <1>1. CASE UNCHANGED vars
    BY <1>1 DEF vars, nodeVars
  <1>2. CASE \E m \in Machines : ElectionStep(m) \/ ViewStep(m)
    BY <1>2 DEF ElectionStep, ViewStep, nodeVars
  <1>3. CASE \E x \in wire : HandlerStep(x)
    BY <1>3 DEF HandlerStep, Redirect, HandOutId, PlanRemoval, Propose, LeaveJoint, PutInLog,
                Confirm, Forget, nodeVars
  <1>4. CASE \E c \in Clients : ClientStep(c)
    BY <1>4 DEF ClientStep, nodeVars
  <1>5. CASE \E o \in Operators : OperatorAsks(o) \/ OperatorReads(o)
    BY <1>5 DEF OperatorAsks, OperatorReads, nodeVars
  <1>6. CASE CommitStep
    BY <1>6 DEF CommitStep, nodeVars
  <1> QED BY <1>1, <1>2, <1>3, <1>4, <1>5, <1>6 DEF Next

(* What a machine's step does to what it keeps: the id it saves is the one it was added with. *)
Saves(m) ==
    /\ at[m] = "joining" /\ call[m].status = "ok" /\ call[m].change.op = "Add"
    /\ at' = [at EXCEPT ![m] = "identified"] /\ id' = [id EXCEPT ![m] = call[m].change.id]
    /\ \E s \in {seed[m], NoAddr} : seed' = [seed EXCEPT ![m] = s]
    /\ call'[m] = Idle

Processes(m) ==
    \/ UNCHANGED <<id, at, seed>> /\ at[m] \in {"joining", "serving"}
    \/ /\ at[m] = "down" /\ call' = call /\ UNCHANGED seed
       /\ at' = [at EXCEPT ![m] = "identified"]
       /\ \/ id[m] # NoId /\ id' = id
          \/ id[m] = NoId /\ Creates(m) /\ id' = [id EXCEPT ![m] = 0]
    \/ /\ at[m] = "down" /\ id[m] = NoId /\ id' = id
       /\ at' = [at EXCEPT ![m] = "joining"]
       /\ \E s \in Machines : seed' = [seed EXCEPT ![m] = s] /\ call'[m] = Started(NodeId, s)
    \/ Saves(m)
    \/ at' = [at EXCEPT ![m] = "down"] /\ id' = id /\ seed' = [seed EXCEPT ![m] = NoAddr] /\ call'[m] = Idle
    \/ at[m] = "identified" /\ at' = [at EXCEPT ![m] = "started"] /\ id' = id /\ seed' = [seed EXCEPT ![m] = NoAddr]
    \/ /\ at[m] \in {"started", "serving"} /\ id' = id /\ seed' = seed
       /\ \E s \in {"started", "serving"} : at' = [at EXCEPT ![m] = s]

(* Every step of a machine is one of these. *)
LEMMA ProcessSteps ==
    ASSUME TalkInv, NEW m \in Machines, NodeStep(m)
    PROVE  Processes(m) /\ heartbeat' = heartbeat /\ UNCHANGED asked
           /\ \/ stops' = stops
              \/ stops < MaxStops /\ stops' = stops + 1
           /\ (unpromoted' = unpromoted \/ unpromoted' = unpromoted \cup {m})
  <1>1. m \in Clients /\ call = [c \in Clients |-> call[c]] /\ Range(stable.nodes) \subseteq Machines
    BY ActorsAssumption, ConfigParts DEF TalkInv, ShapeInv, CallShape, ClusterShape, ConfigShape
  <1>2. CASE Open(m)
    <2>1. CASE Reopen(m)
      BY <2>1 DEF Reopen, Processes
    <2>2. CASE Create(m)
      BY <2>2 DEF Create, Processes
    <2>3. CASE Join(m)
      <3>1. PICK s \in Range(stable.nodes) :
               seed' = [seed EXCEPT ![m] = s] /\ call' = [call EXCEPT ![m] = Started(NodeId, s)]
        BY <2>3 DEF Join
      <3>2. s \in Machines /\ call'[m] = Started(NodeId, s)
        BY <1>1, <3>1
      <3> QED BY <2>3, <3>1, <3>2 DEF Join, Processes
    <2> QED BY <1>2, <2>1, <2>2, <2>3 DEF Open, Reopen, Create, Join
  <1>3. CASE Enter(m)
    BY <1>3 DEF Enter, Processes, nodeVars
  <1>4. CASE SaveId(m)
    <2>1. Saves(m)
      BY <1>1, <1>4 DEF SaveId, Saves
    <2> QED BY <1>4, <2>1 DEF SaveId, Processes
  <1>5. CASE JoinFails(m)
    BY <1>1, <1>5 DEF JoinFails, Processes
  <1>6. CASE Start(m)
    BY <1>6 DEF Start, Processes
  <1>7. CASE Serve(m)
    BY <1>7 DEF Serve, Processes
  <1>8. CASE Promoted(m)
    BY <1>8 DEF Promoted, Serves, Processes, nodeVars
  <1>9. CASE PromotionFails(m)
    BY <1>9 DEF PromotionFails, Serves, Processes
  <1>10. CASE ServerFails(m)
    BY <1>10 DEF ServerFails, Serves, Processes
  <1>11. CASE Stop(m)
    BY <1>1, <1>11 DEF Stop, Processes
  <1> QED BY <1>2, <1>3, <1>4, <1>5, <1>6, <1>7, <1>8, <1>9, <1>10, <1>11 DEF NodeStep

(* So what a machine keeps has its type. *)
LEMMA NodeShapeStep ==
    ASSUME TalkInv, [Next]_vars
    PROVE  NodeShape'
  <1>1. NodeShape /\ \A c \in Clients : SoundCall(call[c])
    BY DEF TalkInv, ShapeInv, CallShape
  <1>2. held' \subseteq Clients /\ settled' \subseteq Machines
    BY <1>1 DEF Next, Remember, vars, NodeShape
  <1>3. CASE \A m \in Machines : ~NodeStep(m)
    <2>1. asked' \in 0 .. MaxAsked
      BY <1>1, <1>3, NodeKept, ActsAssumption DEF NodeShape
    <2> QED BY <1>1, <1>2, <1>3, <2>1, NodeKept DEF NodeShape
  <1>4. ASSUME NEW m \in Machines, NodeStep(m)
        PROVE  NodeShape'
    <2>1. Processes(m) /\ heartbeat' = heartbeat /\ asked' = asked
      BY <1>4, ProcessSteps
    <2>2. stops' \in 0 .. MaxStops /\ unpromoted' \subseteq Machines
      BY <1>1, <1>4, ProcessSteps, ActsAssumption DEF NodeShape
    <2>3. m \in Clients /\ call[m].change.id \in Ids /\ 0 \in Ids
      BY <1>1, ActorsAssumption, BoundsAssumption DEF SoundCall, CallType, Changes, Ids
    <2>4. /\ id' \in [Machines -> Ids]
          /\ at' \in [Machines -> {"down", "joining", "identified", "started", "serving"}]
          /\ seed' \in [Machines -> Machines \cup {NoAddr}]
          /\ \A n \in Machines : at'[n] = "joining" => seed'[n] \in Machines
      BY <1>1, <2>1, <2>3 DEF Processes, Saves, NodeShape
    <2> QED BY <1>1, <1>2, <2>1, <2>2, <2>4 DEF NodeShape
  <1> QED BY <1>3, <1>4

(* How far a process is says what it has and what it asks for. *)
LEMMA ProcessStep ==
    ASSUME TalkInv, [Next]_vars
    PROVE  ProcessInv'
  <1>1. NodeShape /\ ProcessInv /\ GivenInv /\ Machines \subseteq Clients /\ Machines \cap Operators = {}
    BY ActorsAssumption DEF TalkInv, ShapeInv
  <1>2. \A n \in Machines : \/ at'[n] = at[n] /\ id'[n] = id[n] /\ seed'[n] = seed[n]
                            \/ Processes(n)
    <2>1. CASE \A m \in Machines : ~NodeStep(m)
      BY <2>1, NodeKept
    <2>2. ASSUME NEW m \in Machines, NodeStep(m), NEW n \in Machines, n # m
          PROVE  at'[n] = at[n] /\ id'[n] = id[n] /\ seed'[n] = seed[n]
      <3>1. Processes(m)
        BY <2>2, ProcessSteps
      <3> QED BY <1>1, <2>2, <3>1 DEF Processes, Saves, NodeShape
    <2> QED BY <2>1, <2>2, ProcessSteps
  <1>3. ASSUME NEW n \in Machines
        PROVE  /\ at'[n] \in {"identified", "started", "serving"} => id'[n] # NoId
               /\ at'[n] = "joining" => id'[n] = NoId
               /\ at'[n] \in {"down", "started", "serving"} => seed'[n] = NoAddr
    <2>1. CASE at'[n] = at[n] /\ id'[n] = id[n] /\ seed'[n] = seed[n]
      BY <1>1, <2>1 DEF ProcessInv
    <2>2. CASE Processes(n)
      <3>1. call[n].change.op = "Add" => call[n].change.id # NoId
        BY <1>1 DEF GivenInv
      <3> QED BY <1>1, <2>2, <3>1 DEF ProcessInv, Processes, Saves, NodeShape, NoId
    <2> QED BY <1>2, <2>1, <2>2
  <1>4. ASSUME NEW n \in Machines, at'[n] \in {"down", "identified"}
        PROVE  call'[n] = Idle
    <2>1. CASE at[n] \in {"down", "identified"}
      <3>1. call[n] = Idle
        BY <1>1, <2>1 DEF ProcessInv
      <3>2. Anew(n) => call'[n] = Idle
        BY <1>1, <1>4, <2>1 DEF Anew
      <3>3. call[n].status = "idle" /\ n \in Clients
        BY <1>1, <3>1 DEF Idle
      <3>4. call'[n] = call[n] \/ Anew(n)
        BY <3>3, CallSteps
      <3> QED BY <3>1, <3>2, <3>4
    <2>2. CASE at[n] \notin {"down", "identified"}
      <3>1. Processes(n)
        BY <1>2, <1>4, <2>2
      <3> QED BY <1>1, <1>4, <2>2, <3>1 DEF Processes, Saves, NodeShape
    <2> QED BY <2>1, <2>2
  <1>5. ASSUME NEW n \in Machines, at'[n] = "joining"
        PROVE  call'[n].change.op \in {"NodeId", "Add"}
    <2>1. CASE at[n] = "joining"
      <3>1. call[n].change.op \in {"NodeId", "Add"} /\ SoundCall(call[n])
        BY <1>1, <2>1 DEF ProcessInv, TalkInv, ShapeInv, CallShape
      <3>2. CASE Anew(n)
        <4>1. \/ call'[n] = Idle \/ \E s \in Machines : call'[n] = Started(NodeId, s)
              \/ call'[n] = Started(Add(call[n].change.id, n), seed[n])
          BY <1>1, <1>5, <3>2 DEF Anew
        <4>2. Idle.change.op = "NodeId" /\ \A s : Started(NodeId, s).change.op = "NodeId"
          BY DEF Idle, Started, NodeId
        <4>3. \A i, s : Started(Add(i, n), s).change.op = "Add"
          BY DEF Started, Add
        <4> QED BY <4>1, <4>2, <4>3
      <3>3. ASSUME NEW a \in Machines, call'[n] = Unanswered(n, a)
            PROVE  call'[n].change.op \in {"NodeId", "Add"}
        BY <3>1, <3>3 DEF Unanswered, SoundCall, CallType
      <3>4. ASSUME NEW x \in wire, x.client = n, x.change = call[n].change, Replied(x)
            PROVE  call'[n].change.op \in {"NodeId", "Add"}
        <4>1. CASE call'[n] = Result(x, x.change)
          BY <3>1, <3>4, <4>1 DEF Result, SoundCall, CallType
        <4>2. CASE call'[n] = Result(x, [x.change EXCEPT !.id = index + 1])
          BY <3>1, <3>4, <4>2 DEF Result, SoundCall, CallType, Changes
        <4> QED BY <3>3, <3>4, <4>1, <4>2 DEF Replied
      <3>5. CASE call'[n] = [call[n] EXCEPT !.status = "waiting", !.left = @ - 1]
        BY <3>1, <3>5 DEF SoundCall, CallType
      <3> QED BY <1>1, <3>1, <3>2, <3>3, <3>4, <3>5, CallSteps
    <2>2. CASE at[n] # "joining"
      <3>1. Processes(n)
        BY <1>2, <1>5, <2>2
      <3>2. \E s \in Machines : call'[n] = Started(NodeId, s)
        BY <1>1, <1>5, <2>2, <3>1 DEF Processes, Saves, NodeShape
      <3> QED BY <3>2 DEF Started, NodeId
    <2> QED BY <2>1, <2>2
  <1> QED BY <1>3, <1>4, <1>5 DEF ProcessInv

(* The answer to node_id is the id that Add is made with, and so on. *)
LEMMA GivenStep ==
    ASSUME TalkInv, [Next]_vars
    PROVE  GivenInv'
  <1>1. GivenInv /\ ProcessInv /\ \A x \in wire : SoundTry(x, Term)
    BY DEF TalkInv, ShapeInv, TryShape
  <1>2. ASSUME NEW c \in Clients, call'[c].status = "ok" \/ call'[c].change.op # "NodeId"
        PROVE  call'[c].change.id # NoId
    <2>1. SoundCall(call[c])
      BY DEF TalkInv, ShapeInv, CallShape
    <2>2. CASE call'[c] = call[c]
      BY <1>1, <1>2, <2>2 DEF GivenInv
    <2>3. CASE Anew(c)
      <3>1. CASE call'[c] = Idle \/ \E s \in Machines : call'[c] = Started(NodeId, s)
        <4>1. /\ Idle.change.op = "NodeId" /\ Idle.status # "ok"
              /\ \A s : Started(NodeId, s).change.op = "NodeId" /\ Started(NodeId, s).status # "ok"
          BY DEF Idle, Started, NodeId
        <4> QED BY <1>2, <3>1, <4>1
      <3>2. CASE call[c].status = "ok" /\ call'[c] = Started(Add(call[c].change.id, c), seed[c])
        BY <1>1, <3>2 DEF GivenInv, Started, Add
      <3>3. CASE c \in Machines /\ at[c] = "identified" /\ call'[c] = Started(SetVoter(id[c]), seed[c])
        BY <1>1, <3>3 DEF ProcessInv, Started, SetVoter
      <3>4. ASSUME NEW kind \in Requests, NEW m \in Machines, NEW s \in Machines,
                   id[m] # NoId, call'[c] = Started(Asked(kind, id[m]), s)
            PROVE  call'[c].change.id # NoId
        BY <3>4, ActorsAssumption DEF Started, Asked, SetVoter, SetLearner, Remove
      <3> QED BY <2>3, <3>1, <3>2, <3>3, <3>4 DEF Anew
    <2>4. CASE call[c].status = "ready" /\ call'[c] = [call[c] EXCEPT !.status = "waiting", !.left = @ - 1]
      BY <1>1, <1>2, <2>1, <2>4 DEF GivenInv, SoundCall, CallType
    <2>5. ASSUME NEW a \in Machines, call'[c] = Unanswered(c, a)
          PROVE  call'[c].change.id # NoId
      BY <1>1, <1>2, <2>1, <2>5 DEF GivenInv, Unanswered, SoundCall, CallType
    <2>6. ASSUME NEW x \in wire, x.client = c, x.change = call[c].change, Replied(x)
          PROVE  call'[c].change.id # NoId
      <3>1. CASE x.step = "done" /\ call'[c] = Result(x, x.change)
        BY <1>1, <2>1, <2>6, <3>1 DEF GivenInv, Result, SoundTry, SoundCall, CallType
      <3>2. CASE call'[c] = Result(x, [x.change EXCEPT !.id = index + 1])
        <4>1. index + 1 # NoId /\ x.change \in Changes
          BY <1>1 DEF NoId, SoundTry, TalkInv, ShapeInv, ClusterShape
        <4> QED BY <2>1, <2>6, <3>2, <4>1 DEF Result, SoundCall, CallType, Changes
      <3> QED BY <2>5, <2>6, <3>1, <3>2 DEF Replied
    <2> QED BY <2>2, <2>3, <2>4, <2>5, <2>6, CallSteps
  <1>3. ASSUME NEW y \in wire', y.change.op # "NodeId"
        PROVE  y.change.id # NoId
    <2>1. (\E x \in wire : y.change = x.change) \/ (\E c \in Clients : y.change = call[c].change)
      BY ChangeSteps
    <2> QED BY <1>1, <1>3, <2>1 DEF GivenInv
  <1> QED BY <1>2, <1>3 DEF GivenInv

(* Shapes, links, processes and changes keep each other up. *)
LEMMA TalkInvariance == Spec => []TalkInv
  <1>1. Init => TalkInv
    <2>1. Init => LinkInv /\ ProcessInv /\ GivenInv
      BY ActorsAssumption DEF Init, LinkInv, ProcessInv, GivenInv, Idle, NodeId
    <2> QED BY <2>1, ShapeInit DEF TalkInv
  <1>2. TalkInv /\ [Next]_vars => TalkInv'
    <2>1. TalkInv /\ [Next]_vars => ShapeInv'
      BY ClusterStep, NodeShapeStep, CallShapeStep, TryShapeStep DEF TalkInv, ShapeInv
    <2> QED BY <2>1, LinkStep, ProcessStep, GivenStep DEF TalkInv
  <1> QED BY <1>1, <1>2, PTL DEF Spec

(* The state keeps its shape, for any number of machines, requests, attempts, terms and stops. *)
THEOREM AdminTypes == Spec => []TypeOK
  <1>1. TalkInv => TypeOK
    BY ShapeTypes DEF TalkInv
  <1> QED BY <1>1, TalkInvariance, PTL

-----------------------------------------------------------------------------
(* Whose id is which *)

(* The places that say node i is machine m: its storage, its call, an Add under way, a membership. *)
Names(i, m) ==
    \/ id[m] = i
    \/ call[m].change.id = i
    \/ \E x \in wire : x.change = Add(i, m)
    \/ \E c \in {config, stable} : i \in Members(c) /\ c.nodes[i] = m

(* They agree, and only ids that were handed out are named; 0 is the creator's. *)
NamesInv ==
    /\ \A i \in 0 .. MaxIndex : \A m, n \in Machines : Names(i, m) /\ Names(i, n) => m = n
    /\ \A i \in 0 .. MaxIndex : \A m \in Machines : Names(i, m) => i <= index /\ (i = 0 => m = Creator)
    /\ \A c \in Clients : call[c].change.op = "Add" => call[c].change.addr = c
    /\ NoId \notin Members(config) /\ NoId \notin Members(stable)

(* A step changes one client's call. *)
LEMMA OneCall ==
    ASSUME TalkInv, [Next]_vars,
           NEW c \in Clients, NEW d \in Clients, call'[c] # call[c], call'[d] # call[d]
    PROVE  c = d
  <1>1. call \in [Clients -> CallType] /\ \A x \in wire : x.client # Nobody => x.client \in Clients
    BY DEF TalkInv, ShapeInv, CallShape, TryShape, SoundTry
  <1>2. PICK e \in Clients : call' = [call EXCEPT ![e] = call'[e]]
    <2>1. CASE \E e \in Clients : Resets(e) \/ Drops(e)
      BY <2>1 DEF Resets, Drops
    <2>2. ASSUME NEW e \in Clients, Ask(e)
          PROVE  call' = [call EXCEPT ![e] = call'[e]]
      BY <1>1, <2>2 DEF Ask
    <2>3. ASSUME NEW x \in wire, Answers(x)
          PROVE  x.client \in Clients /\ call' = [call EXCEPT ![x.client] = call'[x.client]]
      BY <1>1, <2>3 DEF Answers
    <2>4. call' # call
      OBVIOUS
    <2> QED BY <2>1, <2>2, <2>3, <2>4, TalkSteps DEF Talks, Keeps, CommitStep, Advances, Advance
  <1> QED BY <1>1, <1>2

(* The ids of the calls that begin, and of what they become. *)
LEMMA CallIds ==
    ASSUME TalkInv, [Next]_vars, NEW m \in Machines, call'[m].change.id # NoId
    PROVE  \/ call'[m].change.id \in {call[m].change.id, id[m]}
           \/ call'[m].change.id = index + 1 /\ index < MaxIndex /\ index' = index + 1 /\ call'[m] # call[m]
  <1>1. m \in Clients /\ m \notin Operators /\ SoundCall(call[m]) /\ \A x \in wire : SoundTry(x, Term)
    BY ActorsAssumption DEF TalkInv, ShapeInv, CallShape, TryShape
  <1>2. CASE Anew(m)
    <2>1. Idle.change.id = NoId /\ \A s : Started(NodeId, s).change.id = NoId
      BY DEF Idle, Started, NodeId
    <2>2. /\ \A s : Started(Add(call[m].change.id, m), s).change.id = call[m].change.id
          /\ \A s : Started(SetVoter(id[m]), s).change.id = id[m]
      BY DEF Started, Add, SetVoter
    <2> QED BY <1>1, <1>2, <2>1, <2>2 DEF Anew
  <1>3. CASE call'[m] = [call[m] EXCEPT !.status = "waiting", !.left = @ - 1]
    BY <1>1, <1>3 DEF SoundCall, CallType
  <1>4. ASSUME NEW a \in Machines, call'[m] = Unanswered(m, a)
        PROVE  call'[m].change = call[m].change
    BY <1>1, <1>4 DEF Unanswered, SoundCall, CallType
  <1>5. ASSUME NEW x \in wire, x.client = m, x.change = call[m].change, call[m].status = "waiting", Replied(x)
        PROVE  \/ call'[m].change.id = call[m].change.id
               \/ call'[m].change.id = index + 1 /\ index < MaxIndex /\ index' = index + 1 /\ call'[m] # call[m]
    <2>1. CASE call'[m] = Result(x, x.change)
      BY <1>1, <1>5, <2>1 DEF Result, SoundCall, CallType
    <2>2. CASE index < MaxIndex /\ index' = index + 1 /\ call'[m] = Result(x, [x.change EXCEPT !.id = index + 1])
      <3>1. x.change \in Changes
        BY <1>1 DEF SoundTry
      <3>2. call'[m].change.id = index + 1 /\ call'[m].status = "ok"
        BY <1>1, <1>5, <2>2, <3>1 DEF Result, SoundCall, CallType, Changes
      <3>3. call'[m] # call[m]
        BY <1>5, <3>2
      <3> QED BY <2>2, <3>2, <3>3
    <2> QED BY <1>4, <1>5, <2>1, <2>2 DEF Replied
  <1> QED BY <1>1, <1>2, <1>3, <1>4, <1>5, CallSteps

(* Who asks to be added is the machine itself, and a call begins or goes on with what it asks for. *)
LEMMA CallAdds ==
    ASSUME TalkInv, [Next]_vars, NEW c \in Clients, call'[c].change.op = "Add"
    PROVE  call'[c].change.addr = c \/ call'[c].change = call[c].change
  <1>1. SoundCall(call[c]) /\ \A x \in wire : SoundTry(x, Term)
    BY DEF TalkInv, ShapeInv, CallShape, TryShape
  <1>2. CASE Anew(c)
    <2>1. Idle.change.op # "Add" /\ \A s : Started(NodeId, s).change.op # "Add"
      BY DEF Idle, Started, NodeId
    <2>2. /\ \A i, s : Started(Add(i, c), s).change.addr = c
          /\ \A i, s : Started(SetVoter(i), s).change.op # "Add"
      BY DEF Started, Add, SetVoter
    <2>3. \A kind \in Requests : \A i, s : Started(Asked(kind, i), s).change.op # "Add"
      BY ActorsAssumption DEF Started, Asked, SetVoter, SetLearner, Remove
    <2> QED BY <1>2, <2>1, <2>2, <2>3 DEF Anew
  <1>3. CASE call'[c] = [call[c] EXCEPT !.status = "waiting", !.left = @ - 1]
    BY <1>1, <1>3 DEF SoundCall, CallType
  <1>4. ASSUME NEW a \in Machines, call'[c] = Unanswered(c, a)
        PROVE  call'[c].change = call[c].change
    BY <1>1, <1>4 DEF Unanswered, SoundCall, CallType
  <1>5. ASSUME NEW x \in wire, x.client = c, x.change = call[c].change, Replied(x)
        PROVE  call'[c].change = call[c].change
    <2>1. CASE call'[c] = Result(x, x.change)
      BY <1>1, <1>5, <2>1 DEF Result, SoundCall, CallType
    <2>2. CASE x.change.op = "NodeId" /\ call'[c] = Result(x, [x.change EXCEPT !.id = index + 1])
      <3>1. x.change \in Changes
        BY <1>1 DEF SoundTry
      <3>2. call'[c].change.op = "NodeId"
        BY <1>1, <1>5, <2>2, <3>1 DEF Result, SoundCall, CallType, Changes
      <3> QED BY <3>2
    <2> QED BY <1>4, <1>5, <2>1, <2>2 DEF Replied
  <1> QED BY <1>2, <1>3, <1>4, <1>5, CallSteps

(* What a step adds to the names: the id it hands out, and 0. *)
LEMMA NamesSteps ==
    ASSUME TalkInv, NamesInv, [Next]_vars, NEW i \in 0 .. MaxIndex, NEW m \in Machines, Names(i, m)'
    PROVE  \/ Names(i, m)
           \/ i = 0 /\ m = Creator
           \/ i = index + 1 /\ index' = index + 1 /\ call'[m] # call[m]
  <1>1. m \in Clients /\ NodeShape /\ \A x \in wire : SoundTry(x, Term)
    BY ActorsAssumption DEF TalkInv, ShapeInv, TryShape
  <1>2. i # NoId
    BY DEF NoId
  <1>3. CASE id'[m] = i
    <2>1. CASE \A n \in Machines : ~NodeStep(n)
      BY <1>3, <2>1, NodeKept DEF Names
    <2>2. ASSUME NEW n \in Machines, NodeStep(n)
          PROVE  Names(i, m) \/ (i = 0 /\ m = Creator)
      <3>1. Processes(n)
        BY <2>2, ProcessSteps DEF TalkInv
      <3>2. id'[m] = id[m] \/ (m = Creator /\ id'[m] = 0) \/ id'[m] = call[m].change.id
        BY <1>1, <3>1 DEF Processes, Saves, Creates, NodeShape
      <3> QED BY <1>3, <3>2 DEF Names
    <2> QED BY <2>1, <2>2
  <1>4. CASE call'[m].change.id = i
    BY <1>2, <1>4, CallIds DEF Names
  <1>5. ASSUME NEW y \in wire', y.change = Add(i, m)
        PROVE  Names(i, m)
    <2>1. CASE \E x \in wire : y.change = x.change
      BY <1>5, <2>1 DEF Names
    <2>2. ASSUME NEW c \in Clients, y.change = call[c].change
          PROVE  Names(i, m)
      <3>1. call[c].change.op = "Add" /\ call[c].change.addr = m /\ call[c].change.id = i
        BY <1>5, <2>2 DEF Add
      <3> QED BY <3>1 DEF Names, NamesInv
    <2> QED BY <2>1, <2>2, ChangeSteps
  <1>6. ASSUME NEW c \in {config', stable'}, i \in Members(c), c.nodes[i] = m
        PROVE  Names(i, m)
    <2>1. CASE c \in {config, stable}
      BY <1>6, <2>1 DEF Names
    <2>2. ASSUME NEW n \in Machines, Initializes(n)
          PROVE  Names(i, m)
      <3>1. c.nodes = [j \in {0} |-> n] /\ id[n] = 0
        BY <2>2 DEF Initializes
      <3> QED BY <1>6, <3>1 DEF Names, Members
    <2>3. ASSUME NEW x \in wire, Puts(x)
          PROVE  Names(i, m)
      <3>1. stable' = stable
        BY <2>3 DEF Puts, PutInLog
      <3> QED BY <1>6, <2>1, <2>3, <3>1 DEF Puts, Names
    <2> QED BY <2>1, <2>2, <2>3, ConfigSteps DEF TalkInv, Elects, CommitStep, Commit
  <1> QED BY <1>3, <1>4, <1>5, <1>6 DEF Names

(* A step keeps the names in agreement. *)
LEMMA NamesStep ==
    ASSUME TalkInv, NamesInv, [Next]_vars
    PROVE  NamesInv'
  <1>1. index \in 0 .. MaxIndex /\ MaxIndex \in Nat /\ (index' = index \/ index' = index + 1)
    BY ViewSteps, BoundsAssumption DEF TalkInv, ShapeInv, ClusterShape
  <1>2. ASSUME NEW i \in 0 .. MaxIndex, NEW m \in Machines, Names(i, m)'
        PROVE  i <= index' /\ (i = 0 => m = Creator)
    BY <1>1, <1>2, NamesSteps DEF NamesInv
  <1>3. ASSUME NEW i \in 0 .. MaxIndex, NEW m \in Machines, NEW n \in Machines, Names(i, m)', Names(i, n)'
        PROVE  m = n
    <2>1. CASE i = index + 1
      <3>1. ~Names(i, m) /\ ~Names(i, n) /\ i # 0
        BY <1>1, <2>1 DEF NamesInv
      <3>2. call'[m] # call[m] /\ call'[n] # call[n]
        BY <1>3, <3>1, NamesSteps
      <3> QED BY <3>2, OneCall, ActorsAssumption
    <2>2. CASE i = 0
      BY <1>2, <1>3, <2>2
    <2>3. CASE i # 0 /\ i # index + 1
      <3>1. Names(i, m) /\ Names(i, n)
        BY <1>3, <2>3, NamesSteps
      <3> QED BY <3>1 DEF NamesInv
    <2> QED BY <2>1, <2>2, <2>3
  <1>4. ASSUME NEW c \in Clients, call'[c].change.op = "Add"
        PROVE  call'[c].change.addr = c
    BY <1>4, CallAdds DEF NamesInv
  <1>5. ASSUME NEW c \in {config', stable'}
        PROVE  NoId \notin Members(c)
    <2>1. CASE c \in {config, stable}
      BY <2>1 DEF NamesInv
    <2>2. ASSUME NEW n \in Machines, Initializes(n)
          PROVE  NoId \notin Members(c)
      <3>1. c.nodes = [j \in {0} |-> n]
        BY <2>2 DEF Initializes
      <3> QED BY <3>1 DEF Members, NoId
    <2>3. ASSUME NEW x \in wire, Puts(x), NoId \in Members(config')
          PROVE  NoId \in Members(config)
      <3>1. CASE x.change = Add(NoId, config'.nodes[NoId])
        BY <3>1 DEF Add, TalkInv, GivenInv
      <3> QED BY <2>3, <3>1 DEF Puts
    <2>4. ASSUME NEW x \in wire, Puts(x)
          PROVE  NoId \notin Members(c)
      <3>1. stable' = stable
        BY <2>4 DEF Puts, PutInLog
      <3> QED BY <2>1, <2>3, <2>4, <3>1 DEF NamesInv
    <2> QED BY <2>1, <2>2, <2>4, ConfigSteps DEF TalkInv, Elects, CommitStep, Commit
  <1> QED BY <1>2, <1>3, <1>4, <1>5 DEF NamesInv

(* What the places say of the ids goes with what the calls and the attempts are. *)
LEMMA NamesInvariance == Spec => [](TalkInv /\ NamesInv)
  <1>1. Init => NamesInv
    <2> SUFFICES ASSUME Init PROVE NamesInv
      OBVIOUS
    <2>1. \A c \in Clients : call[c] = Idle
      BY DEF Init
    <2>2. \A m \in Machines : m \in Clients /\ id[m] = NoId
      BY ActorsAssumption DEF Init
    <2>3. Members(config) = {} /\ Members(stable) = {}
      BY DEF Init, ClusterInit, NoConfig, Members
    <2>4. \A i \in 0 .. MaxIndex : \A m \in Machines : ~Names(i, m)
      BY <2>1, <2>2, <2>3 DEF Init, Names, Idle, NodeId, NoId
    <2> QED BY <2>1, <2>3, <2>4 DEF NamesInv, Idle, NodeId
  <1>2. TalkInv /\ NamesInv /\ [Next]_vars => NamesInv'
    BY NamesStep
  <1> QED BY <1>1, <1>2, TalkInvariance, PTL DEF Spec

(* No two machines hold or join with one id, and a member under such an id has the address of the
   machine that holds it (handle_node_id, add_learner, save_meta): in every behaviour, however many
   attempts come late, processes die between their calls, and ids are lost with them. *)
THEOREM IdsAlwaysUnique == Spec => []IdsUnique
  <1>1. TalkInv /\ NamesInv => IdsUnique
    <2> SUFFICES ASSUME TalkInv, NamesInv, NEW m \in Machines, NEW i \in OwnIds(m)
                 PROVE  /\ \A n \in Machines \ {m} : i \notin OwnIds(n)
                        /\ \A c \in {config, stable} : i \in Members(c) => c.nodes[i] = m
      BY DEF IdsUnique
    <2>1. \A n \in Machines : \A j \in OwnIds(n) : Names(j, n)
      BY DEF OwnIds, Names
    <2>2. i \in 0 .. MaxIndex
      <3>1. id[m] \in Ids /\ call[m].change.id \in Ids
        BY ActorsAssumption DEF TalkInv, ShapeInv, NodeShape, CallShape, SoundCall, CallType, Changes
      <3> QED BY <3>1, BoundsAssumption DEF OwnIds, Ids, NoId
    <2>3. \A n \in Machines : i \in OwnIds(n) => n = m
      BY <2>1, <2>2 DEF NamesInv
    <2>4. ASSUME NEW c \in {config, stable}, i \in Members(c)
          PROVE  c.nodes[i] = m
      <3>1. c.nodes[i] \in Machines
        BY <2>4, ConfigParts DEF TalkInv, ShapeInv, ClusterShape, ConfigShape
      <3>2. Names(i, c.nodes[i])
        BY <2>4 DEF Names
      <3> QED BY <2>1, <2>2, <3>1, <3>2 DEF NamesInv
    <2> QED BY <2>3, <2>4
  <1> QED BY <1>1, NamesInvariance, PTL

-----------------------------------------------------------------------------
(* Who votes *)

Stored == {id[m] : m \in Machines} \ {NoId}
Promotions == {SetVoter(i) : i \in Stored}

(* A voter is a member whose machine stored its id, and only such a node is ever made one. *)
VotersInv ==
    /\ Voters(config) \subseteq Stored \cap Members(config)
    /\ Voters(stable) \subseteq Stored \cap Members(stable)
    /\ \A c \in Clients : call[c].change.op = "SetVoter" => call[c].change \in Promotions
    /\ \A x \in wire : x.change.op = "SetVoter" => x.change \in Promotions

(* What is stored stays: an id is saved over none. *)
LEMMA StoredGrows ==
    ASSUME TalkInv, [Next]_vars
    PROVE  /\ \A m \in Machines : id[m] # NoId => id'[m] = id[m]
           /\ Stored \subseteq Stored'
  <1>1. NodeShape /\ ProcessInv
    BY DEF TalkInv, ShapeInv
  <1>2. ASSUME NEW m \in Machines, id[m] # NoId
        PROVE  id'[m] = id[m]
    <2>1. CASE \A n \in Machines : ~NodeStep(n)
      BY <2>1, NodeKept
    <2>2. ASSUME NEW n \in Machines, NodeStep(n)
          PROVE  id'[m] = id[m]
      <3>1. Processes(n)
        BY <2>2, ProcessSteps
      <3> QED BY <1>1, <1>2, <3>1 DEF Processes, Saves, NodeShape, ProcessInv
    <2> QED BY <2>1, <2>2
  <1>3. Stored \subseteq Stored'
    BY <1>2 DEF Stored
  <1> QED BY <1>2, <1>3

(* Who asks for a promotion: a machine that starts with its seed, for itself; an operator, for any. *)
LEMMA CallVotes ==
    ASSUME TalkInv, [Next]_vars, NEW c \in Clients, call'[c].change.op = "SetVoter"
    PROVE  \/ call'[c].change = call[c].change
           \/ /\ c \in Machines /\ at[c] = "identified" /\ seed[c] # NoAddr
              /\ call'[c].change = SetVoter(id[c])
           \/ /\ c \in Operators /\ call'[c].status = "ready"
              /\ \E m \in Machines : id[m] # NoId /\ call'[c].change = SetVoter(id[m])
  <1>1. SoundCall(call[c]) /\ \A x \in wire : SoundTry(x, Term)
    BY DEF TalkInv, ShapeInv, CallShape, TryShape
  <1>2. CASE Anew(c)
    <2>1. Idle.change.op # "SetVoter" /\ \A s : Started(NodeId, s).change.op # "SetVoter"
      BY DEF Idle, Started, NodeId
    <2>2. /\ \A i, s : Started(Add(i, c), s).change.op # "SetVoter"
          /\ \A i, s : Started(SetVoter(i), s).change = SetVoter(i)
      BY DEF Started, Add
    <2>3. ASSUME NEW kind \in Requests, NEW m \in Machines, NEW s \in Machines,
                 call'[c] = Started(Asked(kind, id[m]), s)
          PROVE  call'[c].status = "ready" /\ call'[c].change = SetVoter(id[m])
      <3>1. call'[c].status = "ready" /\ call'[c].change = Asked(kind, id[m])
        BY <2>3 DEF Started
      <3>2. kind = "promote"
        <4>1. SetLearner(id[m]).op = "SetLearner" /\ Remove(id[m]).op = "Remove"
          BY DEF SetLearner, Remove
        <4>2. CASE kind = "demote"
          BY <3>1, <4>1, <4>2 DEF Asked
        <4>3. CASE kind = "remove"
          BY <3>1, <4>1, <4>3 DEF Asked
        <4> QED BY <4>2, <4>3, ActorsAssumption
      <3> QED BY <3>1, <3>2 DEF Asked
    <2> QED BY <1>2, <2>1, <2>2, <2>3 DEF Anew
  <1>3. CASE call'[c] = [call[c] EXCEPT !.status = "waiting", !.left = @ - 1]
    BY <1>1, <1>3 DEF SoundCall, CallType
  <1>4. ASSUME NEW a \in Machines, call'[c] = Unanswered(c, a)
        PROVE  call'[c].change = call[c].change
    BY <1>1, <1>4 DEF Unanswered, SoundCall, CallType
  <1>5. ASSUME NEW x \in wire, x.client = c, x.change = call[c].change, Replied(x)
        PROVE  call'[c].change = call[c].change
    <2>1. CASE call'[c] = Result(x, x.change)
      BY <1>1, <1>5, <2>1 DEF Result, SoundCall, CallType
    <2>2. CASE x.change.op = "NodeId" /\ call'[c] = Result(x, [x.change EXCEPT !.id = index + 1])
      <3>1. x.change \in Changes
        BY <1>1 DEF SoundTry
      <3>2. call'[c].change.op = "NodeId"
        BY <1>1, <1>5, <2>2, <3>1 DEF Result, SoundCall, CallType, Changes
      <3> QED BY <3>2
    <2> QED BY <1>4, <1>5, <2>1, <2>2 DEF Replied
  <1> QED BY <1>2, <1>3, <1>4, <1>5, CallSteps

(* So it is at every step, and no change makes another node a voter. *)
LEMMA VotersInvStep ==
    ASSUME TalkInv, VotersInv, [Next]_vars
    PROVE  VotersInv'
  <1>1. Stored \subseteq Stored'
    BY StoredGrows
  <1>2. ASSUME NEW c \in Clients, call'[c].change.op = "SetVoter"
        PROVE  call'[c].change \in Promotions'
    <2>1. ProcessInv /\ Promotions \subseteq Promotions'
      BY <1>1 DEF TalkInv, Promotions
    <2>2. \A m \in Machines : id[m] # NoId => SetVoter(id[m]) \in Promotions
      BY DEF Promotions, Stored
    <2> QED BY <1>2, <2>1, <2>2, CallVotes DEF VotersInv, ProcessInv
  <1>3. ASSUME NEW y \in wire', y.change.op = "SetVoter"
        PROVE  y.change \in Promotions'
    BY <1>1, <1>3, ChangeSteps DEF VotersInv, Promotions
  <1>4. ASSUME NEW c \in {config', stable'}
        PROVE  Voters(c) \subseteq Stored' \cap Members(c)
    <2>1. CASE c \in {config, stable}
      BY <1>1, <2>1 DEF VotersInv
    <2>2. ASSUME NEW n \in Machines, Initializes(n)
          PROVE  Voters(c) \subseteq Stored' \cap Members(c)
      <3>1. c = [voters |-> <<{0}>>, nodes |-> [j \in {0} |-> n]]
        BY <2>2 DEF Initializes
      <3>2. Voters(c) = {0} /\ Members(c) = {0}
        BY <3>1 DEF Voters, Members, Range
      <3>3. 0 \in Stored
        BY <2>2 DEF Initializes, Stored, NoId
      <3> QED BY <1>1, <3>2, <3>3
    <2>3. ASSUME NEW x \in wire, Puts(x)
          PROVE  Voters(c) \subseteq Stored' \cap Members(c)
      <3>1. stable' = stable /\ Valid(config')
        BY <2>3 DEF Puts, PutInLog, Admits
      <3>2. Voters(config') \subseteq Members(config')
        BY <3>1 DEF Valid
      <3>3. Voters(config') \subseteq Stored
        BY <2>3 DEF Puts, VotersInv, Promotions, SetVoter
      <3> QED BY <1>1, <2>1, <3>1, <3>2, <3>3
    <2> QED BY <2>1, <2>2, <2>3, ConfigSteps DEF TalkInv, Elects, CommitStep, Commit
  <1> QED BY <1>2, <1>3, <1>4 DEF VotersInv

(* Who votes goes with what the processes store. *)
LEMMA VotersInvariance == Spec => []VotersInv
  <1>1. Init => VotersInv
    <2> SUFFICES ASSUME Init PROVE VotersInv
      OBVIOUS
    <2>1. Voters(config) = {} /\ Voters(stable) = {}
      BY DEF Init, ClusterInit, NoConfig, Voters, Range
    <2> QED BY <2>1 DEF Init, VotersInv, Idle, NodeId
  <1>2. TalkInv /\ VotersInv /\ [Next]_vars => VotersInv'
    BY VotersInvStep
  <1> QED BY <1>1, <1>2, TalkInvariance, PTL DEF Spec

(* EzRaft::join stores the id before it asks for the promotion, so a quorum, of a joint configuration too,
   counts only nodes that come back under the id they are counted as: in every behaviour, although
   a process that died in between may have left a member nobody is. *)
THEOREM QuorumAlwaysReal == Spec => []QuorumIsReal
  <1>1. TalkInv /\ NamesInv /\ VotersInv => QuorumIsReal
    <2> SUFFICES ASSUME TalkInv, NamesInv, VotersInv,
                        NEW c \in {config, stable}, NEW v \in Voters(c)
                 PROVE  id[c.nodes[v]] = v
      BY DEF QuorumIsReal
    <2>1. v \in Stored /\ v \in Members(c)
      BY DEF VotersInv
    <2>2. PICK m \in Machines : id[m] = v /\ v # NoId
      BY <2>1 DEF Stored
    <2>3. v \in 0 .. MaxIndex
      BY <2>2, BoundsAssumption DEF TalkInv, ShapeInv, NodeShape, Ids, NoId
    <2>4. c.nodes[v] \in Machines
      BY <2>1, ConfigParts DEF TalkInv, ShapeInv, ClusterShape, ConfigShape
    <2>5. Names(v, m) /\ Names(v, c.nodes[v])
      BY <2>1, <2>2 DEF Names
    <2> QED BY <2>2, <2>3, <2>4, <2>5 DEF NamesInv
  <1> QED BY <1>1, NamesInvariance, VotersInvariance, PTL

-----------------------------------------------------------------------------
(* What an answer says *)

(* An attempt somebody waits for, and that promises its change. *)
Binding(x) == x.client # Nobody /\ Promised(x)

Answered == \A c \in Clients : call[c].status = "ok" /\ call[c].change.op \notin {"NodeId", "Remove"} => c \in held

(* A change that is in the log is in force there, unless its client has it already; one that is
   committed, its client has. *)
HeldInv ==
    /\ Answered
    /\ \A x \in wire : Binding(x) /\ x.step \in {"joint", "done"} => x.client \in held
    /\ \A x \in wire : x.step = "proposed" /\ x.term = Term =>
          config # stable /\ (Binding(x) => x.client \in held \/ InForce(x.change, config))

(* While its change waits in the log, an attempt sees no other change of configuration: only an
   election, which makes it an attempt of an earlier term, and the commit. *)
LEMMA LoggedAlone ==
    ASSUME TalkInv, [Next]_vars, config # stable, Term' = Term, ~CommitStep
    PROVE  config' = config /\ stable' = stable
  <1>1. ~Elects
    <2> SUFFICES ASSUME Elects PROVE FALSE
      OBVIOUS
    <2>1. PICK m \in Machines : leaders' = Append(leaders, m)
      BY DEF Elects
    <2>2. leaders \in Seq(Machines)
      BY DEF TalkInv, ShapeInv, ClusterShape
    <2> QED BY <2>1, <2>2 DEF Term
  <1>2. ASSUME NEW m \in Machines
        PROVE  ~Initializes(m)
    BY DEF Initializes, TalkInv, ShapeInv, ClusterShape, ConfigShape, NoConfig
  <1>3. ASSUME NEW x \in wire
        PROVE  ~Puts(x)
    BY DEF Puts, PutInLog, Admits
  <1> QED BY <1>1, <1>2, <1>3, ConfigSteps DEF TalkInv

(* What a client holds it keeps for as long as its call lasts, and it holds what comes into force. *)
LEMMA HeldGrows ==
    ASSUME TalkInv, HeldInv, Next, NEW x \in wire', Binding(x),
           x.client \in held \/ InForce(x.change, stable')
    PROVE  x.client \in held'
  <1>1. LinkInv' /\ x.client \in Clients /\ x.client # Nobody
    <2>1. SoundTry(x, Term)'
      BY TryShapeStep DEF TryShape
    <2> QED BY <2>1, LinkStep DEF SoundTry, Binding
  <1>2. call'[x.client].status = "waiting" /\ call'[x.client].change = x.change
    BY <1>1 DEF LinkInv
  <1>3. Remember
    BY DEF Next
  <1> QED BY <1>1, <1>2, <1>3 DEF Remember

(* An answer is given when the attempt is done, and its client has the change by then. *)
LEMMA AnsweredStep ==
    ASSUME TalkInv, HeldInv, Next
    PROVE  Answered'
  <1> SUFFICES ASSUME NEW c \in Clients, call'[c].status = "ok", call'[c].change.op \notin {"NodeId", "Remove"}
               PROVE  c \in held'
    BY DEF Answered
  <1>1. SoundCall(call[c]) /\ call \in [Clients -> CallType] /\ \A x \in wire : SoundTry(x, Term)
    BY DEF TalkInv, ShapeInv, CallShape, TryShape
  <1>2. c \in held => c \in held'
    BY DEF Next, Remember
  <1>3. CASE call'[c] = call[c]
    BY <1>2, <1>3 DEF HeldInv, Answered
  <1>4. CASE Anew(c)
    <2>1. Idle.status # "ok" /\ \A change, s : Started(change, s).status # "ok"
      BY DEF Idle, Started
    <2> QED BY <1>4, <2>1 DEF Anew
  <1>5. CASE call'[c] = [call[c] EXCEPT !.status = "waiting", !.left = @ - 1]
    BY <1>1, <1>5 DEF SoundCall, CallType
  <1>6. ASSUME NEW a \in Machines, call'[c] = Unanswered(c, a)
        PROVE  FALSE
    BY <1>1, <1>6 DEF Unanswered, SoundCall, CallType
  <1>7. ASSUME NEW x \in wire, x.client = c, Replied(x)
        PROVE  c \in held
    <2>1. CASE x.step = "done" /\ call'[c] = Result(x, x.change)
      <3>1. call'[c].change = x.change
        BY <1>1, <1>7, <2>1 DEF Result, SoundCall, CallType
      <3>2. Binding(x)
        BY <1>7, <3>1, NobodyAssumption DEF Binding, Promised
      <3> QED BY <1>7, <2>1, <3>2 DEF HeldInv
    <2>2. CASE x.change.op = "NodeId" /\ call'[c] = Result(x, [x.change EXCEPT !.id = index + 1])
      <3>1. x.change \in Changes
        BY <1>1 DEF SoundTry
      <3>2. call'[c].change.op = "NodeId"
        BY <1>1, <1>7, <2>2, <3>1 DEF Result, SoundCall, CallType, Changes
      <3> QED BY <3>2
    <2> QED BY <1>6, <1>7, <2>1, <2>2 DEF Replied
  <1> QED BY <1>2, <1>3, <1>4, <1>5, <1>6, <1>7, CallSteps

(* What is put into the log is the only change there, and in force when it is committed. *)
LEMMA LoggedStep ==
    ASSUME TalkInv, HeldInv, Next, NEW x \in wire, NEW y \in wire', Logs(x, y)
    PROVE  /\ Binding(y) /\ y.step \in {"joint", "done"} => y.client \in held'
           /\ y.step = "proposed" =>
                 config' # stable' /\ (Binding(y) => y.client \in held' \/ InForce(y.change, config'))
  <1>1. SoundTry(x, Term)
    BY DEF TalkInv, ShapeInv, TryShape
  <1>2. Puts(x) /\ config = stable /\ stable' = stable
    BY DEF Logs, Puts, PutInLog, Admits
  <1>3. y.client = x.client /\ y.change = x.change /\ Binding(y) = Binding(x)
    BY <1>1 DEF Logs, SoundTry, Binding, Promised
  <1>4. Binding(x) => x.client \in held \/ InForce(x.change, config')
    BY <1>2 DEF Puts, HeldInv, Binding
  <1>5. CASE config' # config
    <2>1. y.step = "proposed"
      BY <1>1, <1>5 DEF Logs, SoundTry
    <2> QED BY <1>2, <1>3, <1>4, <1>5, <2>1, HeldGrows
  <1>6. CASE config' = config
    <2>1. y.step = AfterCommit(x, config')
      BY <1>1, <1>6 DEF Logs, SoundTry
    <2>2. y.step # "proposed"
      BY <2>1 DEF AfterCommit
    <2>3. Binding(y) => y.client \in held'
      BY <1>2, <1>3, <1>4, <1>6, HeldGrows
    <2> QED BY <2>2, <2>3
  <1> QED BY <1>5, <1>6

(* The commit makes what was in the log what is in force. *)
LEMMA CommittedStep ==
    ASSUME TalkInv, HeldInv, Next, CommitStep, NEW y \in wire'
    PROVE  /\ Binding(y) /\ y.step \in {"joint", "done"} => y.client \in held'
           /\ ~(y.step = "proposed" /\ y.term = Term')
  <1>1. stable' = config /\ Term' = Term
    BY DEF CommitStep, Commit, Term
  <1>2. PICK x \in wire : y = IF x.step = "proposed" /\ x.term = Term THEN [x EXCEPT !.step = x.after] ELSE x
    BY DEF CommitStep
  <1>3. SoundTry(x, Term)
    BY DEF TalkInv, ShapeInv, TryShape
  <1>4. CASE x.step = "proposed" /\ x.term = Term
    <2>1. /\ y.client = x.client /\ y.change = x.change /\ y.step = x.after /\ x.after # "proposed"
          /\ Binding(y) = Binding(x)
      BY <1>2, <1>3, <1>4 DEF SoundTry, Binding, Promised
    <2>2. Binding(x) => x.client \in held \/ InForce(x.change, stable')
      BY <1>1, <1>4 DEF HeldInv
    <2> QED BY <2>1, <2>2, HeldGrows
  <1>5. CASE ~(x.step = "proposed" /\ x.term = Term)
    BY <1>1, <1>2, <1>5, HeldGrows DEF HeldInv
  <1> QED BY <1>4, <1>5

(* So it is at every step. *)
LEMMA HeldStep ==
    ASSUME TalkInv, HeldInv, [Next]_vars
    PROVE  HeldInv'
  <1>1. CASE UNCHANGED vars
    BY <1>1 DEF vars, clusterVars, nodeVars, HeldInv, Answered, Term
  <1>2. CASE Next
    <2> USE <1>2
    <2>1. ASSUME NEW y \in wire'
          PROVE  /\ Binding(y) /\ y.step \in {"joint", "done"} => y.client \in held'
                 /\ y.step = "proposed" /\ y.term = Term' =>
                       config' # stable' /\ (Binding(y) => y.client \in held' \/ InForce(y.change, config'))
      <3>1. CASE CommitStep
        BY <3>1, CommittedStep
      <3>2. ASSUME ~CommitStep, NEW x \in wire, y = x \/ y = [x EXCEPT !.client = Nobody]
            PROVE  /\ Binding(y) /\ y.step \in {"joint", "done"} => y.client \in held'
                   /\ y.step = "proposed" /\ y.term = Term' =>
                         config' # stable' /\ (Binding(y) => y.client \in held' \/ InForce(y.change, config'))
        <4>1. SoundTry(x, Term)
          BY DEF TalkInv, ShapeInv, TryShape
        <4>2. y.step = x.step /\ y.term = x.term /\ (Binding(y) => y = x)
          BY <3>2, <4>1 DEF SoundTry, Binding
        <4>3. CASE x.step \in {"joint", "done"}
          BY <4>2, <4>3, HeldGrows DEF HeldInv
        <4>4. CASE x.step = "proposed" /\ x.term = Term'
          <5>1. x.term \in 0 .. Term /\ Term \in Nat /\ Term' \in Nat /\ Term <= Term'
            BY <4>1, TermGrows DEF SoundTry, TalkInv
          <5>2. Term' = Term
            BY <4>4, <5>1
          <5>3. config # stable /\ (Binding(x) => x.client \in held \/ InForce(x.change, config))
            BY <4>4, <5>2 DEF HeldInv
          <5>4. config' = config /\ stable' = stable
            BY <3>2, <5>2, <5>3, LoggedAlone
          <5> QED BY <4>2, <4>4, <5>3, <5>4, HeldGrows
        <4> QED BY <4>2, <4>3, <4>4
      <3>3. ASSUME NEW x \in wire, Plans(x, y)
            PROVE  y.step = "planned"
        <4>1. SoundTry(x, Term)
          BY DEF TalkInv, ShapeInv, TryShape
        <4> QED BY <3>3, <4>1 DEF Plans, SoundTry
      <3>4. ASSUME NEW x \in wire, Logs(x, y)
            PROVE  /\ Binding(y) /\ y.step \in {"joint", "done"} => y.client \in held'
                   /\ y.step = "proposed" =>
                         config' # stable' /\ (Binding(y) => y.client \in held' \/ InForce(y.change, config'))
        BY <3>4, LoggedStep
      <3>5. ASSUME NEW c \in Clients, Sends(c, y)
            PROVE  y.step = "sent"
        BY <3>5 DEF Sends
      <3> QED BY <3>1, <3>2, <3>3, <3>4, <3>5, TrySteps DEF Commits
    <2> QED BY <2>1, AnsweredStep DEF HeldInv
  <1> QED BY <1>1, <1>2

(* A change that a client is told is made was committed and in force at some time since it was asked
   for (change_membership and add_learner answer when their entry is committed): in every behaviour,
   through redirects, attempts that are made again, elections that undo what was in the log, joint
   configurations, and changes made by others in between. Of removals it is so for a node that
   remove_node found a learner. *)
THEOREM AnswersAlwaysDone == Spec => []AnsweredMeansDone
  <1>1. Init => HeldInv
    BY DEF Init, HeldInv, Answered, Idle
  <1>2. TalkInv /\ HeldInv /\ [Next]_vars => HeldInv'
    BY HeldStep
  <1>3. HeldInv => AnsweredMeansDone
    BY DEF HeldInv, Answered, AnsweredMeansDone, Binding, Promised
  <1> QED BY <1>1, <1>2, <1>3, TalkInvariance, PTL DEF Spec

-----------------------------------------------------------------------------
(* What a restart does *)

(* A machine that stopped as a learner has its id and no seed, and nobody asks for its promotion. *)
Settled(m) ==
    /\ id[m] # NoId /\ seed[m] = NoAddr /\ config.voters # <<>>
    /\ id[m] \notin Voters(config) /\ id[m] \notin Voters(stable)
    /\ \A c \in Clients : call[c].change # SetVoter(id[m])
    /\ \A x \in wire : x.change # SetVoter(id[m])

SettledInv == \A m \in settled : Settled(m)

(* A machine that has an id takes no seed again. *)
LEMMA SeedStays ==
    ASSUME TalkInv, [Next]_vars, NEW m \in Machines, id[m] # NoId, seed[m] = NoAddr
    PROVE  seed'[m] = NoAddr
  <1>1. NodeShape /\ ProcessInv
    BY DEF TalkInv, ShapeInv
  <1>2. CASE \A n \in Machines : ~NodeStep(n)
    BY <1>2, NodeKept
  <1>3. ASSUME NEW n \in Machines, NodeStep(n)
        PROVE  seed'[m] = NoAddr
    <2>1. Processes(n)
      BY <1>3, ProcessSteps
    <2> QED BY <1>1, <2>1 DEF Processes, Saves, NodeShape, ProcessInv
  <1> QED BY <1>2, <1>3

(* A learner that stopped stays one until an operator asks for its promotion. *)
LEMMA SettledStays ==
    ASSUME TalkInv, NamesInv, VotersInv, [Next]_vars, NEW m \in Machines, Settled(m),
           \A o \in Operators : ~Promotes(o, m)'
    PROVE  Settled(m)'
  <1>1. id'[m] = id[m] /\ seed'[m] = NoAddr /\ id[m] # NoId
    BY StoredGrows, SeedStays DEF Settled
  <1>2. ASSUME NEW c \in Clients
        PROVE  call'[c].change # SetVoter(id[m])
    <2>1. SetVoter(id[m]).op = "SetVoter" /\ SetVoter(id[m]).id = id[m]
      BY DEF SetVoter
    <2>2. CASE call'[c].change = call[c].change
      BY <2>2 DEF Settled
    <2>3. CASE c \in Machines /\ seed[c] # NoAddr /\ call'[c].change = SetVoter(id[c])
      <3>1. c # m
        BY <2>3 DEF Settled
      <3>2. id[c] # id[m]
        <4>1. Names(id[m], m) /\ Names(id[c], c)
          BY DEF Names
        <4>2. id[m] \in 0 .. MaxIndex
          BY <1>1, BoundsAssumption DEF TalkInv, ShapeInv, NodeShape, Ids, NoId
        <4> QED BY <2>3, <3>1, <4>1, <4>2 DEF NamesInv
      <3>3. SetVoter(id[c]).id = id[c]
        BY DEF SetVoter
      <3> QED BY <2>1, <2>3, <3>2, <3>3
    <2>4. CASE c \in Operators /\ call'[c].status = "ready"
      BY <1>1, <2>4 DEF Promotes
    <2> QED BY <2>1, <2>2, <2>3, <2>4, CallVotes
  <1>3. ASSUME NEW y \in wire'
        PROVE  y.change # SetVoter(id[m])
    BY ChangeSteps DEF Settled
  <1>4. /\ config'.voters # <<>>
        /\ id[m] \notin Voters(config') /\ id[m] \notin Voters(stable')
    <2>1. config # NoConfig
      BY DEF Settled, NoConfig
    <2>2. CASE Elects
      <3>1. stable.voters # <<>>
        BY <2>1 DEF TalkInv, ShapeInv, ClusterShape, ConfigShape
      <3> QED BY <2>2, <3>1 DEF Elects, Settled
    <2>3. ASSUME NEW x \in wire, Puts(x)
          PROVE  config'.voters # <<>> /\ id[m] \notin Voters(config') /\ stable' = stable
      <3>1. config'.voters # <<>> /\ stable' = stable
        BY <2>3 DEF Puts, PutInLog
      <3>2. ASSUME x.change.op = "SetVoter"
            PROVE  x.change.id # id[m]
        <4>1. PICK i \in Stored : x.change = SetVoter(i)
          BY <3>2 DEF VotersInv, Promotions
        <4>2. i # id[m] /\ x.change.id = i
          BY <4>1 DEF Settled, SetVoter
        <4> QED BY <4>2
      <3> QED BY <2>3, <3>1, <3>2 DEF Puts, Settled
    <2> QED BY <2>1, <2>2, <2>3, ConfigSteps DEF TalkInv, Initializes, CommitStep, Commit, Settled
  <1> QED BY <1>1, <1>2, <1>3, <1>4 DEF Settled

(* A process that stopped has neither a seed nor a call. *)
RestingInv == \A m \in Machines : Resting(m) => Settled(m)

(* So it is when it stops. *)
LEMMA RestingSettles == TalkInv /\ NamesInv => RestingInv
  <1> SUFFICES ASSUME TalkInv, NamesInv, NEW m \in Machines, Resting(m)
               PROVE  Settled(m)
    BY DEF RestingInv
  <1>1. id[m] \in Members(config) /\ id[m] \notin Voters(config) /\ id[m] \notin Voters(stable)
    BY DEF Resting
  <1>2. id[m] # NoId /\ seed[m] = NoAddr
    BY <1>1 DEF NamesInv, Resting, TalkInv, ProcessInv
  <1>3. config.voters # <<>>
    <2>1. Members(NoConfig) = {}
      BY DEF Members, NoConfig
    <2> QED BY <1>1, <2>1 DEF TalkInv, ShapeInv, ClusterShape, ConfigShape
  <1>4. ASSUME NEW c \in Clients
        PROVE  call[c].change # SetVoter(id[m])
    <2>1. call[c].status = "idle" => call[c].change.op = "NodeId"
      BY DEF TalkInv, ShapeInv, CallShape, SoundCall, Idle, NodeId
    <2>2. SetVoter(id[m]).op = "SetVoter"
      BY DEF SetVoter
    <2> QED BY <2>1, <2>2 DEF Resting, Promotes
  <1> QED BY <1>1, <1>2, <1>3, <1>4 DEF Resting, Settled

(* So it is at every step. *)
LEMMA SettledStep ==
    ASSUME TalkInv, NamesInv, VotersInv, SettledInv, [Next]_vars, RestingInv'
    PROVE  SettledInv'
  <1>1. CASE UNCHANGED vars
    BY <1>1 DEF vars, clusterVars, nodeVars, SettledInv, Settled
  <1>2. CASE Next
    <2> SUFFICES ASSUME NEW m \in settled'
                 PROVE  Settled(m)'
      BY DEF SettledInv
    <2>1. /\ m \in Machines /\ (m \in settled \/ Resting(m)')
          /\ \A o \in Operators : ~Promotes(o, m)'
      BY <1>2 DEF Next, Remember
    <2>2. CASE m \in settled
      BY <2>1, <2>2, SettledStays DEF SettledInv
    <2>3. CASE Resting(m)'
      BY <2>1, <2>3 DEF RestingInv
    <2> QED BY <2>1, <2>2, <2>3
  <1> QED BY <1>1, <1>2

(* A machine that stopped as a learner, and is started again, is not made a voter by that, whatever it
   joined as and however its promotion ended; only an operator does it (EzRaft::join): in every
   behaviour, the ones included where attempts it made before it stopped are handled late. *)
THEOREM RestartsAlwaysKeepLearner == Spec => []RestartKeepsLearner
  <1>1. Init => SettledInv
    BY DEF Init, SettledInv
  <1>2. TalkInv /\ NamesInv /\ VotersInv /\ SettledInv /\ RestingInv' /\ [Next]_vars => SettledInv'
    BY SettledStep
  <1>3. SettledInv => RestartKeepsLearner
    BY DEF SettledInv, Settled, RestartKeepsLearner
  <1> QED BY <1>1, <1>2, <1>3, NamesInvariance, VotersInvariance, RestingSettles, PTL DEF Spec

=============================================================================
