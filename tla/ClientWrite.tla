----------------------------- MODULE ClientWrite -----------------------------
(* POST /api/write: src/src/server.rs, handle_write and forward_write. A node that does not lead
   forwards the write to the one it takes for the leader, which handles it likewise: a write is a
   chain of handlers, each waiting for the next, while leaders change and nodes stop. *)
EXTENDS Cluster

CONSTANTS
    Writes,     \* requests, each sent once by a client
    Electorates,\* the sets of voters a cluster may have
    Entrances,  \* the machines clients send their writes to
    MaxStops    \* bound: nodes stopped

ASSUME StopsAssumption == MaxStops \in Nat
ASSUME PlacesAssumption == Electorates \subseteq SUBSET Machines \ {{}} /\ Entrances \subseteq Machines

VARIABLES
    chain,      \* each write's handlers, the client's first
    log,        \* the entries in some leader's log, by the handler that put them there
    applied,    \* those that are committed and applied
    serving,    \* the nodes that run
    stops       \* nodes stopped so far

writeVars == <<chain, log, applied>>
nodeVars == <<serving, stops>>
vars == <<clusterVars, writeVars, nodeVars>>

(* The members are fixed: every machine, its own id and address; who is no voter is a learner. *)
Membership(voting) == [voters |-> <<voting>>, nodes |-> [m \in Machines |-> m]]

Init ==
    /\ leaders = <<>> /\ index = 0
    /\ view = [m \in Machines |-> [term |-> 0, sure |-> FALSE]]
    /\ config \in {Membership(voting) : voting \in Electorates} /\ stable = config
    /\ chain = [w \in Writes |-> <<>>] /\ log = {} /\ applied = {}
    /\ serving = Machines /\ stops = 0

-----------------------------------------------------------------------------
(* One handler: at a node, told to go there by a node that knew the leader of term via *)

Handler(m, via) == [at |-> m, via |-> via, attempt |-> 0, step |-> "submit"]

Handlers == UNION {{w} \X DOMAIN chain[w] : w \in Writes}
This(h) == chain[h[1]][h[2]]
Onward(h) == chain[h[1]][h[2] + 1]
Answered == {"ok", "error"}

Runs(h) == This(h).at \in serving
Goes(h, step) == chain' = [chain EXCEPT ![h[1]][h[2]].step = step]

(* The entry of the handler's current attempt. *)
EntryOf(h, term) == [write |-> h[1], hop |-> h[2], attempt |-> This(h).attempt, term |-> term]
Entries(h) == {e \in log : e.write = h[1] /\ e.hop = h[2] /\ e.attempt = This(h).attempt}

(* Whom a node names that refuses a write: the leader it knows; nobody; or itself, when its vote
   is its own and it does not lead. *)
Nobody == "nobody"
Named(m) ==
    IF view[m].sure THEN {KnownLeader(m)}
    ELSE {Nobody} \cup IF view[m].term > 0 /\ KnownLeader(m) = m THEN {m} ELSE {}

(* Mutant of Submit: any node takes the request into its log. *)
SubmitAnywhere(h) ==
    /\ Runs(h) /\ This(h).step = "submit"
    /\ log' = log \cup {EntryOf(h, view[This(h).at].term)}
    /\ Goes(h, "appended")
    /\ UNCHANGED <<clusterVars, applied, nodeVars>>

(* client_write at a node that leads, as far as it knows: the request is in its log. *)
Submit(h) ==
    /\ Runs(h) /\ This(h).step = "submit" /\ Leads(This(h).at)
    /\ log' = log \cup {EntryOf(h, view[This(h).at].term)}
    /\ Goes(h, "appended")
    /\ UNCHANGED <<clusterVars, applied, nodeVars>>

(* ForwardToLeader: from a node that does not lead, or for an entry that a later leader's log cut
   off. *)
Refused(h) ==
    /\ Runs(h)
    /\ \/ This(h).step = "submit" /\ ~Leads(This(h).at)
       \/ /\ This(h).step = "appended"
          /\ view[This(h).at].sure /\ ~Leads(This(h).at)
          /\ Entries(h) \cap applied = {}

(* Mutant of Forward: whoever is named, this node included. *)
ForwardToAnyone(h) ==
    /\ Refused(h)
    /\ \E leader \in Named(This(h).at) \ {Nobody} :
          chain' = [chain EXCEPT ![h[1]] =
                      Append([@ EXCEPT ![h[2]].step = "forwarded"], Handler(leader, view[This(h).at].term))]
    /\ UNCHANGED <<clusterVars, log, applied, nodeVars>>

(* forward_write, to a node other than this one. *)
Forward(h) ==
    /\ Refused(h)
    /\ \E leader \in Named(This(h).at) \ {Nobody, This(h).at} :
          chain' = [chain EXCEPT ![h[1]] =
                      Append([@ EXCEPT ![h[2]].step = "forwarded"], Handler(leader, view[This(h).at].term))]
    /\ UNCHANGED <<clusterVars, log, applied, nodeVars>>

(* No other node is named: the first time the handler waits for a leader, the second it gives up. *)
Hold(h) ==
    /\ Refused(h)
    /\ Named(This(h).at) \cap {Nobody, This(h).at} # {}
    /\ Goes(h, IF This(h).attempt = 0 THEN "waiting" ELSE "error")
    /\ UNCHANGED <<clusterVars, log, applied, nodeVars>>

(* A leader is known, or WAIT_FOR_LEADER is over. *)
TryAgain(h) ==
    /\ Runs(h) /\ This(h).step = "waiting"
    /\ chain' = [chain EXCEPT ![h[1]][h[2]].step = "submit", ![h[1]][h[2]].attempt = 1]
    /\ UNCHANGED <<clusterVars, log, applied, nodeVars>>

(* The entry was applied, with a response. *)
Respond(h) ==
    /\ Runs(h) /\ This(h).step = "appended"
    /\ Entries(h) \cap applied # {}
    /\ Goes(h, "ok")
    /\ UNCHANGED <<clusterVars, log, applied, nodeVars>>

(* openraft fails otherwise. *)
WriteFails(h) ==
    /\ Runs(h) /\ This(h).step \in {"submit", "appended"}
    /\ Goes(h, "error")
    /\ UNCHANGED <<clusterVars, log, applied, nodeVars>>

(* Mutant of Relay: the answer's status is not looked at. *)
RelayAnything(h) ==
    /\ Runs(h) /\ This(h).step = "forwarded" /\ Onward(h).step \in Answered
    /\ Goes(h, "ok")
    /\ UNCHANGED <<clusterVars, log, applied, nodeVars>>

(* The answer of the node it was forwarded to. *)
Relay(h) ==
    /\ Runs(h) /\ This(h).step = "forwarded" /\ Onward(h).step \in Answered
    /\ Goes(h, Onward(h).step)
    /\ UNCHANGED <<clusterVars, log, applied, nodeVars>>

(* Mutants of ForwardFails: the write is tried again; the forwarded request has no timeout. *)
ForwardFailsRetried(h) ==
    /\ Runs(h) /\ This(h).step = "forwarded"
    /\ chain' = [chain EXCEPT ![h[1]][h[2]].step = IF This(h).attempt = 0 THEN "waiting" ELSE "error"]
    /\ UNCHANGED <<clusterVars, log, applied, nodeVars>>
ForwardNeverFails(h) == FALSE

(* No connection, or FORWARD_WRITE_TIMEOUT: the write may still be handled there. *)
ForwardFails(h) ==
    /\ Runs(h) /\ This(h).step = "forwarded"
    /\ Goes(h, "error")
    /\ UNCHANGED <<clusterVars, log, applied, nodeVars>>

GoesOn(h) ==
    \/ Submit(h) \/ Forward(h) \/ Hold(h) \/ TryAgain(h)
    \/ Respond(h) \/ Relay(h) \/ ForwardFails(h)

-----------------------------------------------------------------------------
(* The client, openraft and the nodes *)

Request(w) ==
    /\ chain[w] = <<>>
    /\ \E m \in serving \cap Entrances : chain' = [chain EXCEPT ![w] = <<Handler(m, 0)>>]
    /\ UNCHANGED <<clusterVars, log, applied, nodeVars>>

(* An entry of an older leader may be in a later one's log too. *)
Apply(e) ==
    /\ e \in log \ applied /\ CanCommit(serving)
    /\ applied' = applied \cup {e}
    /\ UNCHANGED <<clusterVars, chain, log, nodeVars>>

ElectionStep(m) ==
    /\ m \in serving /\ Elect(m, m, serving)
    /\ UNCHANGED <<writeVars, nodeVars>>

ViewStep(m) ==
    /\ m \in serving /\ (Hear(m) \/ Doubt(m))
    /\ UNCHANGED <<writeVars, nodeVars>>

(* A node stops: its connections break. It has the vote it saved when it is started again. *)
Stop(m) ==
    /\ m \in serving /\ stops < MaxStops
    /\ serving' = serving \ {m} /\ stops' = stops + 1
    /\ chain' = [w \in Writes |-> [k \in DOMAIN chain[w] |->
                    IF chain[w][k].at = m /\ chain[w][k].step \notin Answered
                    THEN [chain[w][k] EXCEPT !.step = "error"] ELSE chain[w][k]]]
    /\ view' = [view EXCEPT ![m].sure = @ /\ ~Leads(m)]
    /\ UNCHANGED <<leaders, config, stable, index, log, applied>>

Start(m) ==
    /\ serving' = serving \cup {m} /\ m \notin serving
    /\ UNCHANGED <<clusterVars, writeVars, stops>>

Next ==
    \/ \E w \in Writes : Request(w)
    \/ \E h \in Handlers : GoesOn(h) \/ WriteFails(h)
    \/ \E e \in log : Apply(e)
    \/ \E m \in Machines : ElectionStep(m) \/ ViewStep(m) \/ Stop(m) \/ Start(m)

Spec == Init /\ [][Next]_vars

(* The leader put it there, in this term or an earlier one. *)
InLeadersLog(e) == e.term = Term \/ (Term > 0 /\ chain[e.write][e.hop].at = leaders[Term])

(* A handler goes on, its timeouts end what does not. openraft elects a leader when there is none,
   a deposed one finds out, a leader applies what it has a quorum for. No restart is assumed. *)
MaxHops == MaxTerm + MaxStops + 2
Fairness ==
    /\ \A w \in Writes, k \in 1 .. MaxHops : WF_vars(k \in DOMAIN chain[w] /\ GoesOn(<<w, k>>))
    /\ WF_vars(\E m \in Machines : ElectionStep(m) /\ ~LeaderUp)
    /\ \A m \in Machines : WF_vars(ViewStep(m))
    /\ WF_vars(\E e \in log : InLeadersLog(e) /\ Apply(e))

FairSpec == Spec /\ Fairness

-----------------------------------------------------------------------------
(* Properties *)

(* The shape of the state. *)
Entry == [write : Writes, hop : 1 .. MaxHops, attempt : 0 .. 1, term : 1 .. Term]
TypeOK ==
    /\ leaders \in Seq(Machines) /\ Term < MaxHops
    /\ \A m \in Machines : view[m] \in [term : 0 .. Term, sure : BOOLEAN]
    /\ \A w \in Writes : chain[w] \in Seq([at : Machines, via : 0 .. Term, attempt : 0 .. 1,
            step : {"submit", "appended", "waiting", "forwarded", "ok", "error"}])
    /\ log \subseteq Entry /\ applied \subseteq log
    /\ serving \subseteq Machines /\ stops \in 0 .. MaxStops

(* Forwarding does not go round: each node a write is passed on to was named by one that knew a
   later leader than the node before, so that a chain is no longer than the terms there were. *)
ForwardsClimb ==
    \A w \in Writes : \A k \in DOMAIN chain[w] \ {1} : chain[w][k - 1].via < chain[w][k].via

(* A write is sent again only once the term it was refused in is over: no leader has it in its log
   twice, though two nodes may be trying it, and the first of them unaware. *)
NeverTwiceInOneTerm ==
    \A d, e \in log : d.write = e.write /\ d.term = e.term => d = e

(* A write that is answered with a response was applied, whoever did it on the node's behalf. *)
AnsweredMeansApplied ==
    \A w \in Writes : chain[w] # <<>> /\ chain[w][1].step = "ok" => \E e \in applied : e.write = w

(* client_write has no timeout of its own: a write in the log of the very node it was sent to waits
   there for as long as too few voters run to commit it, or to elect a leader without it. *)
Stranded(w) == chain[w][1].step = "appended" /\ ~HasQuorum(config, Answering(config, serving))

(* A write is answered, with an error at worst, whoever stops and whether a leader ever comes - when
   the node it was forwarded to is gone for good, or waits itself for a majority that does not come
   back, or when no leader is known and none is elected - but for one that is stranded. *)
AnsweredUnlessStranded ==
    \A w \in Writes : chain[w] # <<>> ~>
                         chain[w] # <<>> /\ (chain[w][1].step \in Answered \/ Stranded(w))
=============================================================================
