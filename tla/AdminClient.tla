----------------------------- MODULE AdminClient -----------------------------
(* src/src/admin/client.rs: one admin request driven to an answer. A call is attempted a bounded
   number of times, each at the address the last redirect named; an attempt the client gave up on
   may still be handled later. *)
EXTENDS Integers, FiniteSets

CONSTANTS
    Clients,    \* who makes requests: joining machines and operators
    Nobody,     \* the client of an attempt that was given up on
    NoAddr,     \* no address
    Attempts,   \* ADMIN_ATTEMPTS
    MaxLate     \* bound: attempts that were given up on and are still under way

ASSUME AttemptsAssumption == Attempts \in Nat \ {0} /\ MaxLate \in Nat
ASSUME NobodyAssumption == Nobody \notin Clients

VARIABLES
    call,       \* each client's call
    wire        \* the attempts under way, at the node asked or on the way there

NoId == -1

(* A call's change is what it asks: node_id, or one of the membership changes. *)
NodeId == [op |-> "NodeId", id |-> NoId, addr |-> NoAddr]
Add(i, addr) == [op |-> "Add", id |-> i, addr |-> addr]
SetVoter(i) == [op |-> "SetVoter", id |-> i, addr |-> NoAddr]
SetLearner(i) == [op |-> "SetLearner", id |-> i, addr |-> NoAddr]
Remove(i) == [op |-> "Remove", id |-> i, addr |-> NoAddr]

Idle == [status |-> "idle", change |-> NodeId, target |-> NoAddr, left |-> 0]
Started(change, addr) == [status |-> "ready", change |-> change, target |-> addr, left |-> Attempts]

(* The next attempt goes to the current target. *)
Ask(c) ==
    /\ call[c].status = "ready"
    /\ call' = [call EXCEPT ![c].status = "waiting", ![c].left = @ - 1]
    /\ wire' = wire \cup {[client |-> c, change |-> call[c].change, to |-> call[c].target,
                           step |-> "sent", plan |-> "none", after |-> "none", term |-> 0]}

(* Mutant of Unanswered: the attempts are not counted. *)
UnansweredForEver(c, addr) == [call[c] EXCEPT !.status = "ready", !.target = addr]

(* An attempt that brought no result: another one at addr, or the end. *)
Unanswered(c, addr) ==
    [call[c] EXCEPT !.status = IF call[c].left = 0 THEN "failed" ELSE "ready", !.target = addr]

(* What is left of the wire when client c is gone or drops its call. *)
Abandoned(c) ==
    {{x \in wire : x.client # c}} \cup
    (IF Cardinality({x \in wire : x.client = Nobody}) < MaxLate
     THEN {{IF x.client = c THEN [x EXCEPT !.client = Nobody] ELSE x : x \in wire}} ELSE {})

(* An error, or the timeout: the next attempt goes to the same node. What timed out may still be
   on its way to the node or under way there. *)
AttemptFails(c) ==
    /\ call[c].status = "waiting"
    /\ call' = [call EXCEPT ![c] = Unanswered(c, call[c].target)]
    /\ wire' \in Abandoned(c)

(* The attempt x is answered; nobody listens to one that was given up on. *)
Answer(x, outcome) ==
    /\ wire' = wire \ {x}
    /\ call' = IF x.client = Nobody THEN call ELSE [call EXCEPT ![x.client] = outcome]

Result(x, change) == [call[x.client] EXCEPT !.status = "ok", !.change = change]

(* The handling of x goes on. *)
Advance(x, y) == wire' = (wire \ {x}) \cup {y} /\ UNCHANGED call

=============================================================================
