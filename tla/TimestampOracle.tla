---------------------------- MODULE TimestampOracle ----------------------------
(***************************************************************************)
(* The monotonic timestamp oracle (examples/timestamp_oracle.rs), with the *)
(* part of EzRaft it stands on: linearizable, one write, apply and read.   *)
(*                                                                         *)
(* The leader reserves the timestamps below a mark by a log entry and      *)
(* hands them out from memory; the lease says that it leads.  openraft is  *)
(* external: one leader a term, nobody elected under a valid lease, and    *)
(* one committed log, to which every term adds its leader's blank entry    *)
(* and then a prefix of what that leader wrote - at once or, through a     *)
(* later leader that holds it, after the writer was deposed.               *)
(***************************************************************************)
EXTENDS Integers, Sequences

CONSTANTS
  Nodes,
  Requests,                \* the requests for a timestamp; a refused one may be made again
  Width,                   \* TimeService::reservation_width
  MaxTime,                 \* u64::MAX
  Clock,                   \* the clock readings, of any node in any order
  MaxTerm, MaxWrites, MaxStops  \* bounds: terms, writes a term, stops

ASSUME OracleAssumption ==
  /\ MaxTime \in Nat /\ Clock \subseteq 0 .. MaxTime
  /\ Width \in Nat \ {0} /\ MaxTerm \in Nat /\ MaxWrites \in Nat /\ MaxStops \in Nat

VARIABLES
  leaders,                 \* the leader of each term there was
  leads,                   \* node -> the term it takes itself to lead, or 0
  wrote,                   \* term -> the bounds its leader wrote, in order
  log,                     \* the committed entries; at 0 for a blank one
  applied, state,          \* node -> how many it applied, TimeState::reserved_end
  reserved,                \* node -> TimeService::reserved
  refill,                  \* node -> how far its reserver task has come
  request,                 \* request -> how far it has come; before and acked are ghosts
  fastest,                 \* ghost: the highest clock reading there was
  acknowledged,            \* ghost: the highest mark a write was answered with
  stops

raftVars == <<leaders, leads, wrote, log>>
appVars == <<applied, state>>
vars == <<raftVars, appVars, reserved, refill, request, fastest, acknowledged, stops>>

Larger(a, b) == IF a >= b THEN a ELSE b
Saturated(x) == IF x > MaxTime THEN MaxTime ELSE x

Unreserved == [term |-> 0, next |-> 0, end |-> 0]
Idle == [pc |-> "idle", term |-> 0]
Unasked == [pc |-> "new"]

Init ==
  /\ leaders = <<>> /\ wrote = <<>> /\ log = <<>>
  /\ leads = [n \in Nodes |-> 0]
  /\ applied = [n \in Nodes |-> 0] /\ state = [n \in Nodes |-> 0]
  /\ reserved = [n \in Nodes |-> Unreserved]
  /\ refill = [n \in Nodes |-> Idle]
  /\ request = [r \in Requests |-> Unasked]
  /\ fastest = 0 /\ acknowledged = 0 /\ stops = 0

Answered == {r \in Requests : request[r].pc = "answered"}
Asking(n) == {r \in Requests : request[r].pc = "asked" /\ request[r].node = n}

\* Mutant of Unlocked: there is no lock.
AlwaysUnlocked(n) == TRUE

\* A request holds the lock from before it asks for the term until it is
\* answered; the reserver takes it for one look and for one store.
Unlocked(n) == Asking(n) = {}

Reads(now) == now \in Clock /\ fastest' = Larger(fastest, now)

-----------------------------------------------------------------------------
(* openraft.                                                               *)

Elect(n) ==
  /\ Len(leaders) < MaxTerm
  /\ leaders' = Append(leaders, n) /\ wrote' = Append(wrote, <<>>)
  /\ leads' = [leads EXCEPT ![n] = Len(leaders) + 1]
  /\ UNCHANGED <<log, appVars, reserved, refill, request, fastest, acknowledged, stops>>

\* A leader hears of a later term.  One that was deposed by a candidate who
\* then lost is not told apart: it does nothing until somebody is elected.
StepDown(n) ==
  /\ leads[n] # 0 /\ leads[n] < Len(leaders)
  /\ leads' = [leads EXCEPT ![n] = 0]
  /\ UNCHANGED <<leaders, wrote, log, appVars, reserved, refill, request,
                 fastest, acknowledged, stops>>

LastTerm == IF log = <<>> THEN 0 ELSE log[Len(log)].term

CommitBlank(t) ==
  /\ t > LastTerm
  /\ log' = Append(log, [term |-> t, at |-> 0, upto |-> 0])
  /\ UNCHANGED <<leaders, leads, wrote, appVars, reserved, refill, request,
                 fastest, acknowledged, stops>>

CommitWrite ==
  /\ log # <<>>
  /\ LET t == LastTerm
         k == log[Len(log)].at + 1
     IN  /\ k <= Len(wrote[t])
         /\ log' = Append(log, [term |-> t, at |-> k, upto |-> wrote[t][k]])
  /\ UNCHANGED <<leaders, leads, wrote, appVars, reserved, refill, request,
                 fastest, acknowledged, stops>>

-----------------------------------------------------------------------------
(* EzRaft.                                                                 *)

\* linearizable asks under which leadership: the term, and how much of the
\* log was committed then.  A leader that asks while its lease is valid - and
\* it may be, at any moment until another is elected - is granted it.
Granted(n) == leads[n] # 0 /\ leads[n] = Len(leaders)

\* EzRaft::read, of the mark a node has applied.
Read(n) == state[n]

\* Mutant of Reached: the answer does not wait for the log to be applied.
ReachedAtOnce(n, grant) == TRUE

\* It returns when all that, and the blank entry of the term, is applied here.
Reached(n, grant) ==
  /\ applied[n] >= grant.anchor
  /\ \E i \in 1 .. applied[n] : log[i].term = grant.term

\* Mutant of ApplyReserve: the bound is taken for a width.
ApplyReserveAdds(mark, upto) == [start |-> mark, end |-> Saturated(mark + upto)]

\* TimeState::apply.
ApplyReserve(mark, upto) == [start |-> mark, end |-> Larger(mark, upto)]

\* A committed entry is applied; the write that waits here for this very
\* entry is answered with the interval.
Awaits(n, entry) ==
  refill[n].pc = "waiting" /\ refill[n].wterm = entry.term /\ refill[n].at = entry.at

Apply(n) ==
  /\ applied[n] < Len(log)
  /\ LET entry == log[applied[n] + 1]
         interval == ApplyReserve(state[n], entry.upto)
     IN  /\ state' = [state EXCEPT ![n] = interval.end]
         /\ IF Awaits(n, entry)
            THEN /\ refill' = [refill EXCEPT ![n] = [pc |-> "installing", term |-> refill[n].term,
                                                     interval |-> interval]]
                 /\ acknowledged' = Larger(acknowledged, interval.end)
            ELSE UNCHANGED <<refill, acknowledged>>
  /\ applied' = [applied EXCEPT ![n] = @ + 1]
  /\ UNCHANGED <<raftVars, reserved, request, fastest, stops>>

\* The process stops and is started again: its log is applied anew (a snapshot
\* stands for having applied so much), a leader leads on without a lease.
Stop(n) ==
  /\ stops < MaxStops /\ stops' = stops + 1
  /\ reserved' = [reserved EXCEPT ![n] = Unreserved]
  /\ refill' = [refill EXCEPT ![n] = Idle]
  /\ request' = [r \in Requests |-> IF r \in Asking(n) THEN Unasked ELSE request[r]]
  /\ applied' = [applied EXCEPT ![n] = 0] /\ state' = [state EXCEPT ![n] = 0]
  /\ UNCHANGED <<raftVars, fastest, acknowledged>>

-----------------------------------------------------------------------------
(* The reserver task: run_reserver, refill.                                *)

RefillAsks(n) ==
  /\ refill[n].pc = "idle" /\ Granted(n)
  /\ refill' = [refill EXCEPT ![n] = [pc |-> "asked", term |-> leads[n], anchor |-> Len(log)]]
  /\ UNCHANGED <<raftVars, appVars, reserved, request, fastest, acknowledged, stops>>

\* Reserved::covers.
Covers(own, term, until) == own.term = term /\ own.next < own.end /\ own.end >= until

RefillLooks(n) ==
  /\ refill[n].pc = "asked" /\ Reached(n, refill[n]) /\ Unlocked(n)
  /\ \E now \in Clock :
       /\ Reads(now)
       /\ refill' = [refill EXCEPT ![n] =
            IF Covers(reserved[n], refill[n].term, Saturated(now + Width \div 2))
            THEN Idle
            ELSE [pc |-> "due", term |-> refill[n].term, upto |-> Saturated(now + Width)]]
  /\ UNCHANGED <<raftVars, appVars, reserved, request, acknowledged, stops>>

\* EzRaft::write: one attempt, at this node, in whatever term it leads by now.
RefillWrites(n) ==
  /\ refill[n].pc = "due" /\ leads[n] # 0
  /\ Len(wrote[leads[n]]) < MaxWrites
  /\ wrote' = [wrote EXCEPT ![leads[n]] = Append(@, refill[n].upto)]
  /\ refill' = [refill EXCEPT ![n] = [pc |-> "waiting", term |-> refill[n].term,
                                      wterm |-> leads[n], at |-> Len(wrote[leads[n]]) + 1]]
  /\ UNCHANGED <<leaders, leads, log, appVars, reserved, request,
                 fastest, acknowledged, stops>>

\* linearizable fails while it waits, or the write is refused, or given up when
\* the node no longer leads: it may yet be committed.
RefillFails(n) ==
  /\ \/ refill[n].pc = "asked"
     \/ refill[n].pc = "due" /\ leads[n] # refill[n].term
     \/ refill[n].pc = "waiting" /\ leads[n] # refill[n].wterm
  /\ refill' = [refill EXCEPT ![n] = Idle]
  /\ UNCHANGED <<raftVars, appVars, reserved, request, fastest, acknowledged, stops>>

\* Mutant of Install: the cursor is kept whatever the interval follows.
InstallKeeping(own, term, interval) == [term |-> term, next |-> own.next, end |-> interval.end]

\* Reserved::install.
Install(own, term, interval) ==
  [term |-> term, end |-> interval.end,
   next |-> IF own.term # term \/ own.end # interval.start THEN interval.start ELSE own.next]

RefillInstalls(n) ==
  /\ refill[n].pc = "installing" /\ Unlocked(n)
  /\ reserved' = [reserved EXCEPT ![n] = Install(@, refill[n].term, refill[n].interval)]
  /\ refill' = [refill EXCEPT ![n] = Idle]
  /\ UNCHANGED <<raftVars, appVars, request, fastest, acknowledged, stops>>

-----------------------------------------------------------------------------
(* A request: get_time, next_timestamp.                                    *)

Ask(r, n) ==
  /\ request[r].pc = "new" /\ Unlocked(n) /\ Granted(n)
  /\ request' = [request EXCEPT ![r] =
       [pc |-> "asked", node |-> n, term |-> leads[n], anchor |-> Len(log),
        before |-> Answered, acked |-> acknowledged]]
  /\ UNCHANGED <<raftVars, appVars, reserved, refill, fastest, acknowledged, stops>>

\* linearizable fails while it waits, or the client goes away: the lock is
\* given up, and nobody is answered.
AskFails(r) ==
  /\ request[r].pc = "asked"
  /\ request' = [request EXCEPT ![r] = Unasked]
  /\ UNCHANGED <<raftVars, appVars, reserved, refill, fastest, acknowledged, stops>>

\* Mutant of Takes: the end of the interval is handed out too.
TakesEnd(own, term, timestamp) == own.term = term /\ timestamp <= own.end

\* Reserved::take: is this timestamp the leader's to hand out?
Takes(own, term, timestamp) == own.term = term /\ timestamp < own.end

Take(r) ==
  /\ request[r].pc = "asked" /\ Reached(request[r].node, request[r])
  /\ LET n == request[r].node
         own == reserved[n]
     IN  \E now \in Clock :
           /\ Reads(now)
           /\ LET timestamp == Larger(now, own.next)
              IN  IF Takes(own, request[r].term, timestamp)
                  THEN /\ reserved' = [reserved EXCEPT ![n].next = timestamp + 1]
                       /\ request' = [request EXCEPT ![r] =
                            [pc |-> "answered", term |-> request[r].term,
                             before |-> request[r].before, ts |-> timestamp]]
                  ELSE /\ request' = [request EXCEPT ![r] = Unasked]
                       /\ UNCHANGED reserved
  /\ UNCHANGED <<raftVars, appVars, refill, acknowledged, stops>>

Next ==
  \/ CommitWrite
  \/ \E t \in 1 .. Len(leaders) : CommitBlank(t)
  \/ \E n \in Nodes :
       \/ Elect(n) \/ StepDown(n) \/ Apply(n) \/ Stop(n)
       \/ RefillAsks(n) \/ RefillLooks(n) \/ RefillWrites(n) \/ RefillFails(n) \/ RefillInstalls(n)
       \/ \E r \in Requests : Ask(r, n)
  \/ \E r \in Requests : AskFails(r) \/ Take(r)

Spec == Init /\ [][Next]_vars

-----------------------------------------------------------------------------
(* Correctness.                                                            *)

\* The committed log is in the order of the terms; who applied has applied
\* of it; at most one request holds a lock.
TypeOK ==
  /\ leaders \in Seq(Nodes) /\ Len(wrote) = Len(leaders)
  /\ leads \in [Nodes -> 0 .. Len(leaders)]
  /\ \A i \in 1 .. Len(log) : log[i].term \in 1 .. Len(leaders) /\ log[i].upto \in 0 .. MaxTime
  /\ \A i, j \in 1 .. Len(log) : i < j => log[i].term <= log[j].term
  /\ \A n \in Nodes : /\ applied[n] \in 0 .. Len(log) /\ state[n] \in 0 .. MaxTime
                      /\ reserved[n].next \in 0 .. MaxTime /\ reserved[n].end \in 0 .. MaxTime
                      /\ \A q, r \in Asking(n) : q = r

\* "A new leader starts at the mark, above every value an earlier leader
\* could have served": who asks after another was answered gets more, whoever
\* led then and leads now, and through stops and stale leaders.
InOrder ==
  \A r \in Answered : \A q \in request[r].before : request[q].ts < request[r].ts

\* "It never reuses one": no timestamp is handed out twice, not even to two
\* requests under way at once under two leaders.
Distinct ==
  \A q, r \in Answered : q # r => request[q].ts # request[r].ts

\* "Reserving only up to now + width bounds how far timestamps run ahead of
\* wall-clock time".
NeverFarAhead ==
  \A r \in Answered : request[r].ts < fastest + Width

\* linearizable: "a read issued after this returns sees every write
\* acknowledged before this call".
SeesAcknowledged ==
  \A n \in Nodes : \A r \in Asking(n) : Reached(n, request[r]) => Read(n) >= request[r].acked
=============================================================================
