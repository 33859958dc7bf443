------------------------ MODULE TimestampOracle_proofs ------------------------
(***************************************************************************)
(* No timestamp is handed out twice and no request gets less than one that *)
(* was answered before it asked, for any nodes, requests, clocks, widths   *)
(* and bounds.                                                             *)
(*                                                                         *)
(* A timestamp of term t lies below the mark of some committed entry of a  *)
(* term up to t, and not below the mark of any entry of an earlier term;   *)
(* as terms never decrease along the log, timestamps follow their terms.   *)
(* Within a term there is one leader, and its cursor only climbs.          *)
(***************************************************************************)
EXTENDS TimestampOracle, TLAPS

Positions == 1 .. Len(log)
Time == 0 .. MaxTime
Entry == [term : Nat, at : Nat, upto : Time]

-----------------------------------------------------------------------------
(* The inductive invariant, in parts.                                      *)

RefillTypes(f) ==
  /\ f.pc \in {"idle", "asked", "due", "waiting", "installing"}
  /\ f.term \in Nat
  /\ f.pc = "due" => f.upto \in Time
  /\ f.pc = "waiting" => f.wterm \in Nat /\ f.at \in Nat
  /\ f.pc = "installing" => f.interval.start \in Time /\ f.interval.end \in Time

RequestTypes(q) ==
  /\ q.pc \in {"new", "asked", "answered"}
  /\ q.pc = "asked" => q.node \in Nodes /\ q.term \in Nat /\ q.before \subseteq Requests
  /\ q.pc = "answered" => q.term \in Nat /\ q.ts \in Time /\ q.before \subseteq Requests

Types ==
  /\ leaders \in Seq(Nodes)
  /\ wrote \in Seq(Seq(Time)) /\ Len(wrote) = Len(leaders)
  /\ log \in Seq(Entry)
  /\ leads \in [Nodes -> Nat] /\ applied \in [Nodes -> Nat] /\ state \in [Nodes -> Time]
  /\ reserved \in [Nodes -> [term : Nat, next : Time, end : Time]]
  /\ refill = [n \in Nodes |-> refill[n]]
  /\ \A n \in Nodes : RefillTypes(refill[n])
  /\ request = [r \in Requests |-> request[r]]
  /\ \A r \in Requests : RequestTypes(request[r])

\* The log is in the order of the terms; a leader leads a term it was elected to.
LogInv ==
  /\ \A i \in Positions : /\ log[i].term \in 1 .. Len(leaders)
                          /\ log[i].at <= Len(wrote[log[i].term])
  /\ \A i, j \in Positions : i < j => log[i].term <= log[j].term
  /\ \A n \in Nodes : leads[n] # 0 => leads[n] \in 1 .. Len(leaders) /\ leaders[leads[n]] = n

\* A node's state is the mark of what it applied.
Mark(i, m) ==
  /\ \A j \in 1 .. i : log[j].upto <= m
  /\ m = 0 \/ \E j \in 1 .. i : log[j].upto = m

AppInv == \A n \in Nodes : applied[n] <= Len(log) /\ Mark(applied[n], state[n])

\* What was handed out and reserved in the term of a refill lies below the
\* mark of what precedes the entry at i.
Precedes(n, i) ==
  /\ \A q \in Answered : request[q].term = refill[n].term =>
       \E j \in 1 .. i - 1 : request[q].ts < log[j].upto
  /\ reserved[n].term = refill[n].term =>
       \/ reserved[n].end = 0
       \/ \E j \in 1 .. i - 1 : reserved[n].end <= log[j].upto

WaitingInv(n) ==
  /\ refill[n].wterm \in refill[n].term .. Len(leaders)
  /\ refill[n].at \in 1 .. Len(wrote[refill[n].wterm])
  /\ \A i \in Positions : Awaits(n, log[i]) => Precedes(n, i)

\* The term t reaches up to the mark e: a committed entry of t or of an
\* earlier term carries it, or of a later one, and then t has passed.
Reaches(t, e) ==
  \/ e = 0
  \/ \E k \in Positions : e <= log[k].upto /\ (log[k].term <= t \/ t < Len(leaders))

InstallingInv(n) ==
  LET t == refill[n].term
      interval == refill[n].interval
  IN  /\ \A q \in Answered : request[q].term = t => request[q].ts < interval.start
      /\ reserved[n].term = t => reserved[n].end <= interval.start
      /\ \A k \in Positions : log[k].term < t => log[k].upto <= interval.start
      /\ \E k \in Positions : log[k].term >= t
      /\ Reaches(t, interval.end)

NodeRefill(n) ==
  /\ refill[n].pc # "idle" =>
       /\ refill[n].term \in 1 .. Len(leaders) /\ leaders[refill[n].term] = n
       /\ leads[n] # 0 => leads[n] >= refill[n].term
  /\ refill[n].pc = "waiting" => WaitingInv(n)
  /\ refill[n].pc = "installing" => InstallingInv(n)

RefillInv == \A n \in Nodes : NodeRefill(n)

\* No request under way at n may still draw on what is tagged with t.
Stale(n, t) == t < Len(leaders) /\ \A r \in Asking(n) : request[r].term # t

ReservedBelow(n) ==
  LET own == reserved[n]
  IN  \/ own.end = 0
      \/ \E k \in Positions : own.end <= log[k].upto /\ (log[k].term <= own.term \/ Stale(n, own.term))

NodeReserved(n) ==
  reserved[n].term # 0 =>
    LET own == reserved[n]
    IN  /\ own.term \in 1 .. Len(leaders) /\ leaders[own.term] = n
        /\ \E k \in Positions : log[k].term >= own.term
        /\ ReservedBelow(n)
        /\ \A q \in Answered : request[q].term = own.term => request[q].ts < own.next
        /\ \A k \in Positions : log[k].term < own.term => log[k].upto <= own.next

ReservedInv == \A n \in Nodes : NodeReserved(n)

AskedInv ==
  \A r \in Requests : request[r].pc = "asked" =>
    /\ Asking(request[r].node) = {r}
    /\ request[r].term \in 1 .. Len(leaders) /\ leaders[request[r].term] = request[r].node
    /\ \A q \in request[r].before : q \in Answered /\ request[q].term <= request[r].term

\* Where an answered timestamp lies between the marks.
Lies(r) ==
  /\ request[r].term \in 1 .. Len(leaders)
  /\ \E k \in Positions : log[k].term >= request[r].term
  /\ \E k \in Positions : log[k].term <= request[r].term /\ request[r].ts < log[k].upto
  /\ \A k \in Positions : log[k].term < request[r].term => log[k].upto <= request[r].ts

AnsweredInv ==
  \A r \in Answered :
    /\ Lies(r)
    /\ \A q \in Answered : q # r /\ request[q].term = request[r].term =>
         request[q].ts # request[r].ts
    /\ \A q \in request[r].before : q \in Answered /\ request[q].ts < request[r].ts

IInv == Types /\ LogInv /\ AppInv /\ RefillInv /\ ReservedInv /\ AskedInv /\ AnsweredInv

-----------------------------------------------------------------------------
(* What most steps leave alone.                                            *)

\* Leaders, and what they wrote and committed, are only added to, and the
\* log in the order of the terms.
Kept ==
  /\ Len(leaders) <= Len(leaders')
  /\ \A t \in 1 .. Len(leaders) : leaders'[t] = leaders[t] /\ Len(wrote[t]) <= Len(wrote'[t])
  /\ \A k \in Positions : k \in Positions' /\ log'[k] = log[k]
  /\ \A k \in Positions' \ Positions, j \in Positions : log[j].term <= log'[k].term

SameAnswers == Answered' = Answered /\ \A q \in Answered : request'[q] = request[q]

\* Who asks at n asked before or asks under the last leader.
NewAsking(n) ==
  \A r \in Asking(n)' : \/ request'[r].term = Len(leaders')
                        \/ r \in Asking(n) /\ request'[r].term = request[r].term

\* Times are numbers.
LEMMA TimeIsNat == \A x \in Time : x \in Nat
BY OracleAssumption DEF Time

\* What the entries of a log are.
LEMMA EntryFields ==
  ASSUME NEW l \in Seq(Entry), NEW k \in 1 .. Len(l)
  PROVE  l[k].term \in Nat /\ l[k].at \in Nat /\ l[k].upto \in Time
<1>1. l[k] \in Entry
  OBVIOUS
<1> QED BY <1>1 DEF Entry

\* The lengths that are compared, before a step and after it.
LEMMA Lengths ==
  ASSUME Types, Types'
  PROVE  /\ Len(leaders) \in Nat /\ Len(leaders') \in Nat /\ Len(log) \in Nat /\ Len(log') \in Nat
         /\ \A t \in 1 .. Len(leaders) : Len(wrote[t]) \in Nat
         /\ \A t \in 1 .. Len(leaders') : Len(wrote'[t]) \in Nat
<1>1. Len(leaders) \in Nat /\ Len(leaders') \in Nat /\ Len(log) \in Nat /\ Len(log') \in Nat
  BY DEF Types
<1>2. \A t \in 1 .. Len(leaders) : wrote[t] \in Seq(Time)
  BY DEF Types
<1>3. \A t \in 1 .. Len(leaders') : wrote'[t] \in Seq(Time)
  BY DEF Types
<1> QED BY <1>1, <1>2, <1>3

\* A step that adds nothing to the answers keeps what is known of them.
LEMMA AnsweredKept ==
  ASSUME Types, Types', AnsweredInv, Kept, SameAnswers
  PROVE  AnsweredInv'
<1> SUFFICES ASSUME NEW r \in Answered
    PROVE  /\ Lies(r)'
           /\ \A q \in Answered : q # r /\ request'[q].term = request'[r].term =>
                request'[q].ts # request'[r].ts
           /\ \A q \in request'[r].before : q \in Answered /\ request'[q].ts < request'[r].ts
  BY DEF AnsweredInv, SameAnswers
<1>1. r \in Requests /\ request[r].term \in Nat /\ request[r].ts \in Time /\ request'[r] = request[r]
  BY DEF Types, RequestTypes, Answered, SameAnswers
<1>2. Lies(r)'
  <2>1. Lies(r)
    BY DEF AnsweredInv
  <2>2. request'[r].term \in 1 .. Len(leaders')
    BY <1>1, <2>1 DEF Lies, Kept, Types
  <2>3. \E k \in Positions' : log'[k].term >= request'[r].term
    BY <1>1, <2>1 DEF Lies, Kept
  <2>4. \E k \in Positions' : log'[k].term <= request'[r].term /\ request'[r].ts < log'[k].upto
    BY <1>1, <2>1 DEF Lies, Kept
  <2>5. ASSUME NEW k \in Positions', log'[k].term < request'[r].term
        PROVE  log'[k].upto <= request'[r].ts
    <3>1. CASE k \in Positions
      BY <1>1, <2>1, <2>5, <3>1 DEF Lies, Kept
    <3>2. CASE k \notin Positions
      <4>1. PICK j \in Positions : log[j].term >= request[r].term
        BY <2>1 DEF Lies
      <4>2. log[j].term <= log'[k].term
        BY <3>2 DEF Kept
      <4>3. log[j].term \in Nat /\ log'[k].term \in Nat
        BY EntryFields DEF Types, Positions, Kept
      <4> QED BY <1>1, <2>5, <4>1, <4>2, <4>3
    <3> QED BY <3>1, <3>2
  <2> QED BY <2>2, <2>3, <2>4, <2>5 DEF Lies
<1>3. \A q \in Answered : q # r /\ request'[q].term = request'[r].term =>
        request'[q].ts # request'[r].ts
  BY <1>1 DEF AnsweredInv, SameAnswers
<1>4. \A q \in request'[r].before : q \in Answered /\ request'[q].ts < request'[r].ts
  BY <1>1 DEF AnsweredInv, SameAnswers
<1> QED BY <1>2, <1>3, <1>4

\* A step that leaves a node's reservation alone keeps what is known of it.
LEMMA ReservedKept ==
  ASSUME Types, Types', NEW n \in Nodes, NodeReserved(n), Kept, SameAnswers, NewAsking(n),
         reserved'[n] = reserved[n]
  PROVE  NodeReserved(n)'
<1> SUFFICES ASSUME reserved[n].term # 0 PROVE NodeReserved(n)'
  BY DEF NodeReserved
<1> DEFINE own == reserved[n]
<1>1. own.term \in Nat /\ own.next \in Time /\ own.end \in Time
  BY DEF Types
<1>2. /\ own.term \in 1 .. Len(leaders) /\ leaders[own.term] = n
      /\ \E k \in Positions : log[k].term >= own.term
      /\ ReservedBelow(n)
      /\ \A q \in Answered : request[q].term = own.term => request[q].ts < own.next
      /\ \A k \in Positions : log[k].term < own.term => log[k].upto <= own.next
  BY DEF NodeReserved
<1>3. own.term \in 1 .. Len(leaders') /\ leaders'[own.term] = n
  BY <1>1, <1>2 DEF Kept, Types
<1>4. \E k \in Positions' : log'[k].term >= own.term
  BY <1>2 DEF Kept
<1>5. ReservedBelow(n)'
  <2>1. CASE own.end = 0
    BY <2>1 DEF ReservedBelow
  <2>2. CASE \E k \in Positions : own.end <= log[k].upto /\ (log[k].term <= own.term \/ Stale(n, own.term))
    <3>1. PICK k \in Positions : own.end <= log[k].upto /\ (log[k].term <= own.term \/ Stale(n, own.term))
      BY <2>2
    <3>2. k \in Positions' /\ log'[k] = log[k]
      BY DEF Kept
    <3>3. CASE log[k].term <= own.term
      BY <3>1, <3>2, <3>3 DEF ReservedBelow
    <3>4. CASE Stale(n, own.term)
      <4>1. own.term < Len(leaders') /\ own.term # Len(leaders')
        BY <1>1, <3>4 DEF Stale, Kept, Types
      <4>2. \A r \in Asking(n)' : request'[r].term # own.term
        BY <3>4, <4>1 DEF Stale, NewAsking
      <4>3. Stale(n, own.term)'
        BY <4>1, <4>2 DEF Stale
      <4> QED BY <3>1, <3>2, <4>3 DEF ReservedBelow
    <3> QED BY <3>1, <3>3, <3>4
  <2> QED BY <1>2, <2>1, <2>2 DEF ReservedBelow
<1>6. \A q \in Answered' : request'[q].term = own.term => request'[q].ts < own.next
  BY <1>2 DEF SameAnswers
<1>7. ASSUME NEW k \in Positions', log'[k].term < own.term PROVE log'[k].upto <= own.next
  <2>1. CASE k \in Positions
    BY <1>2, <1>7, <2>1 DEF Kept
  <2>2. CASE k \notin Positions
    <3>1. PICK j \in Positions : log[j].term >= own.term
      BY <1>2
    <3>2. log[j].term <= log'[k].term
      BY <2>2 DEF Kept
    <3>3. log[j].term \in Nat /\ log'[k].term \in Nat
      BY EntryFields DEF Types, Positions, Kept
    <3> QED BY <1>1, <1>7, <3>1, <3>2, <3>3
  <2> QED BY <2>1, <2>2
<1> QED BY <1>3, <1>4, <1>5, <1>6, <1>7 DEF NodeReserved

\* So does one that leaves the interval a refill is to install alone.
LEMMA InstallingKept ==
  ASSUME Types, Types', NEW n \in Nodes, InstallingInv(n), refill[n].pc = "installing",
         Kept, SameAnswers, reserved'[n].term = reserved[n].term,
         reserved'[n].end = reserved[n].end, refill'[n] = refill[n]
  PROVE  InstallingInv(n)'
<1> DEFINE t == refill[n].term
           interval == refill[n].interval
<1>1. t \in Nat /\ interval.start \in Time /\ interval.end \in Time
  BY DEF Types, RefillTypes
<1>2. \A q \in Answered' : request'[q].term = t => request'[q].ts < interval.start
  BY DEF InstallingInv, SameAnswers
<1>3. reserved'[n].term = t => reserved'[n].end <= interval.start
  BY DEF InstallingInv
<1>4. ASSUME NEW k \in Positions', log'[k].term < t PROVE log'[k].upto <= interval.start
  <2>1. CASE k \in Positions
    BY <1>4, <2>1 DEF Kept, InstallingInv
  <2>2. CASE k \notin Positions
    <3>1. PICK j \in Positions : log[j].term >= t
      BY DEF InstallingInv
    <3>2. log[j].term <= log'[k].term
      BY <2>2 DEF Kept
    <3>3. log[j].term \in Nat /\ log'[k].term \in Nat
      BY EntryFields DEF Types, Positions, Kept
    <3> QED BY <1>1, <1>4, <3>1, <3>2, <3>3
  <2> QED BY <2>1, <2>2
<1>5. \E k \in Positions' : log'[k].term >= t
  BY DEF Kept, InstallingInv
<1>6. Reaches(t, interval.end)'
  <2>1. Reaches(t, interval.end)
    BY DEF InstallingInv
  <2>2. Len(leaders) \in Nat /\ Len(leaders') \in Nat
    BY DEF Types
  <2> QED BY <1>1, <2>1, <2>2 DEF Reaches, Kept
<1> QED BY <1>2, <1>3, <1>4, <1>5, <1>6 DEF InstallingInv

\* What a refill not at its last stage is about, kept while nothing is
\* added to the log.
LEMMA WaitingKept ==
  ASSUME Types, Types', NEW n \in Nodes, WaitingInv(n), refill[n].pc = "waiting",
         refill[n].term \in 1 .. Len(leaders), Kept, SameAnswers,
         log' = log, reserved'[n].term = reserved[n].term, reserved'[n].end = reserved[n].end,
         refill'[n] = refill[n]
  PROVE  WaitingInv(n)'
<1> DEFINE f == refill[n]
<1>1. f.term \in Nat /\ f.wterm \in Nat /\ f.at \in Nat
  BY DEF Types, RefillTypes
<1>2. f.wterm \in f.term .. Len(leaders) /\ f.at \in 1 .. Len(wrote[f.wterm]) /\ f.term >= 1
  BY <1>1 DEF WaitingInv
<1>3. f.wterm \in f.term .. Len(leaders')
  BY <1>1, <1>2, Lengths DEF Kept
<1>4. f.at \in 1 .. Len(wrote'[f.wterm])
  <2>1. f.wterm \in 1 .. Len(leaders) /\ f.wterm \in 1 .. Len(leaders')
    BY <1>1, <1>2, <1>3, Lengths
  <2>2. Len(wrote[f.wterm]) \in Nat /\ Len(wrote'[f.wterm]) \in Nat
    BY <2>1, Lengths
  <2> QED BY <1>1, <1>2, <2>1, <2>2 DEF Kept
<1>5. ASSUME NEW i \in Positions, Awaits(n, log[i])'
      PROVE  Precedes(n, i)'
  <2>1. Awaits(n, log[i])
    BY <1>5 DEF Awaits
  <2>2. Precedes(n, i)
    BY <2>1 DEF WaitingInv
  <2> QED BY <2>2 DEF Precedes, SameAnswers
<1> QED BY <1>3, <1>4, <1>5 DEF WaitingInv, Positions

\* A refill whose node neither draws on its term nor comes to lead an
\* earlier one is kept in every stage.
LEMMA RefillKept ==
  ASSUME Types, Types', NEW n \in Nodes, NodeRefill(n), Kept, SameAnswers, log' = log,
         reserved'[n].term = reserved[n].term, reserved'[n].end = reserved[n].end,
         refill'[n] = refill[n],
         leads'[n] \in {0, leads[n], Len(leaders')}
  PROVE  NodeRefill(n)'
<1>1. CASE refill[n].pc = "idle"
  BY <1>1 DEF NodeRefill
<1>2. CASE refill[n].pc # "idle"
  <2>1. /\ refill[n].term \in 1 .. Len(leaders) /\ leaders[refill[n].term] = n
        /\ leads[n] # 0 => leads[n] >= refill[n].term
    BY <1>2 DEF NodeRefill
  <2>2. refill'[n].term \in 1 .. Len(leaders') /\ leaders'[refill'[n].term] = n
    BY <2>1, Lengths DEF Kept
  <2>3. leads'[n] # 0 => leads'[n] >= refill'[n].term
    BY <2>1, <2>2, Lengths
  <2>4. refill[n].pc = "waiting" => WaitingInv(n)'
    BY <2>1, WaitingKept DEF NodeRefill
  <2>5. refill[n].pc = "installing" => InstallingInv(n)'
    BY InstallingKept DEF NodeRefill
  <2> QED BY <2>2, <2>3, <2>4, <2>5 DEF NodeRefill
<1> QED BY <1>1, <1>2

\* What is applied is kept with the log.
LEMMA AppKept ==
  ASSUME Types, Types', AppInv, Kept, UNCHANGED appVars
  PROVE  AppInv'
<1> SUFFICES ASSUME NEW n \in Nodes PROVE applied[n] <= Len(log') /\ Mark(applied[n], state[n])'
  BY DEF AppInv, appVars
<1>1. applied[n] \in Nat /\ applied[n] <= Len(log) /\ Mark(applied[n], state[n])
  BY DEF AppInv, Types
<1>2. \A j \in 1 .. applied[n] : j \in Positions /\ j \in Positions' /\ log'[j] = log[j]
  BY <1>1 DEF Kept, Positions, Types
<1>3. applied[n] <= Len(log')
  <2>1. CASE applied[n] = 0
    BY <2>1 DEF Types
  <2>2. CASE applied[n] # 0
    <3>1. applied[n] \in 1 .. applied[n]
      BY <1>1, <2>2
    <3> QED BY <1>1, <1>2, <3>1 DEF Positions, Types
  <2> QED BY <2>1, <2>2
<1>4. Mark(applied[n], state[n])'
  BY <1>1, <1>2 DEF Mark, appVars
<1> QED BY <1>3, <1>4

-----------------------------------------------------------------------------
(* openraft's steps.                                                       *)

LEMMA ElectKeeps ==
  ASSUME IInv, NEW n \in Nodes, Elect(n)
  PROVE  IInv'
<1> USE DEF appVars
<1>1. /\ leaders' = Append(leaders, n) /\ wrote' = Append(wrote, <<>>)
      /\ leads' = [leads EXCEPT ![n] = Len(leaders) + 1]
      /\ UNCHANGED <<log, applied, state, reserved, refill, request>>
  BY DEF Elect
<1>2. /\ leaders' \in Seq(Nodes) /\ Len(leaders') = Len(leaders) + 1
      /\ \A t \in 1 .. Len(leaders) : leaders'[t] = leaders[t]
      /\ leaders'[Len(leaders) + 1] = n /\ Len(leaders) \in Nat
  BY <1>1 DEF IInv, Types
<1>3. /\ wrote' \in Seq(Seq(Time)) /\ Len(wrote') = Len(wrote) + 1
      /\ \A t \in 1 .. Len(wrote) : wrote'[t] = wrote[t]
  BY <1>1 DEF IInv, Types
<1>4. Types'
  BY <1>1, <1>2, <1>3 DEF IInv, Types
<1>5. Kept
  <2>1. \A t \in 1 .. Len(leaders) : Len(wrote[t]) \in Nat
    BY SMTT(30) DEF IInv, Types
  <2> QED BY SMTT(30), <1>1, <1>2, <1>3, <2>1 DEF Kept, Positions, IInv, Types
<1>6. SameAnswers
  BY <1>1 DEF SameAnswers, Answered
<1>7. LogInv'
  <2>1. ASSUME NEW i \in Positions'
        PROVE  log'[i].term \in 1 .. Len(leaders') /\ log'[i].at <= Len(wrote'[log'[i].term])
    <3>1. log[i].term \in 1 .. Len(leaders) /\ log[i].at <= Len(wrote[log[i].term])
      BY <1>1, <2>1 DEF IInv, LogInv, Positions
    <3> QED BY <1>1, <1>2, <1>3, <3>1 DEF IInv, Types
  <2>2. \A i, j \in Positions' : i < j => log'[i].term <= log'[j].term
    BY <1>1 DEF IInv, LogInv, Positions
  <2>3. ASSUME NEW m \in Nodes, leads'[m] # 0
        PROVE  leads'[m] \in 1 .. Len(leaders') /\ leaders'[leads'[m]] = m
    <3>1. CASE m = n
      BY <1>1, <1>2, <3>1 DEF IInv, Types
    <3>2. CASE m # n
      BY <1>1, <1>2, <2>3, <3>2 DEF IInv, Types, LogInv
    <3> QED BY <3>1, <3>2
  <2> QED BY <2>1, <2>2, <2>3 DEF LogInv
<1>8. AppInv'
  BY <1>1, <1>4, <1>5, AppKept DEF IInv
<1>9. RefillInv'
  <2> SUFFICES ASSUME NEW m \in Nodes PROVE NodeRefill(m)'
    BY DEF RefillInv
  <2>1. leads'[m] \in {0, leads[m], Len(leaders')}
    BY <1>1, <1>2 DEF IInv, Types
  <2> QED BY <1>1, <1>4, <1>5, <1>6, <2>1, RefillKept DEF IInv, RefillInv
<1>10. ReservedInv'
  <2> SUFFICES ASSUME NEW m \in Nodes PROVE NodeReserved(m)'
    BY DEF ReservedInv
  <2>1. NewAsking(m)
    BY <1>1 DEF NewAsking, Asking
  <2> QED BY <1>1, <1>4, <1>5, <1>6, <2>1, ReservedKept DEF IInv, ReservedInv
<1>11. AskedInv'
  <2> SUFFICES ASSUME NEW r \in Requests, request[r].pc = "asked"
      PROVE  /\ Asking(request[r].node)' = {r}
             /\ request[r].term \in 1 .. Len(leaders') /\ leaders'[request[r].term] = request[r].node
             /\ \A q \in request[r].before : q \in Answered' /\ request[q].term <= request[r].term
    BY <1>1 DEF AskedInv
  <2>1. Asking(request[r].node)' = Asking(request[r].node) /\ Answered' = Answered
    BY <1>1 DEF Asking, Answered
  <2>2. /\ Asking(request[r].node) = {r}
        /\ request[r].term \in 1 .. Len(leaders) /\ leaders[request[r].term] = request[r].node
        /\ \A q \in request[r].before : q \in Answered /\ request[q].term <= request[r].term
    BY DEF IInv, AskedInv
  <2> QED BY <1>2, <2>1, <2>2
<1>12. AnsweredInv'
  BY <1>4, <1>5, <1>6, AnsweredKept DEF IInv
<1> QED BY <1>4, <1>7, <1>8, <1>9, <1>10, <1>11, <1>12 DEF IInv

LEMMA StepDownKeeps ==
  ASSUME IInv, NEW n \in Nodes, StepDown(n)
  PROVE  IInv'
<1> USE DEF appVars
<1>1. /\ leads' = [leads EXCEPT ![n] = 0]
      /\ UNCHANGED <<leaders, wrote, log, applied, state, reserved, refill, request>>
  BY DEF StepDown
<1>2. Types'
  BY <1>1 DEF IInv, Types
<1>3. Kept /\ SameAnswers
  <2>1. \A t \in 1 .. Len(leaders) : Len(wrote[t]) \in Nat
    BY SMTT(30) DEF IInv, Types
  <2> QED BY <1>1, <2>1 DEF Kept, SameAnswers, Answered, Positions, IInv, Types
<1>4. LogInv'
  BY <1>1 DEF IInv, LogInv, Positions, Types
<1>5. AppInv'
  BY <1>1, <1>2, <1>3, AppKept DEF IInv
<1>6. RefillInv'
  <2> SUFFICES ASSUME NEW m \in Nodes PROVE NodeRefill(m)'
    BY DEF RefillInv
  <2>1. leads'[m] \in {0, leads[m], Len(leaders')}
    BY <1>1 DEF IInv, Types
  <2> QED BY <1>1, <1>2, <1>3, <2>1, RefillKept DEF IInv, RefillInv
<1>7. ReservedInv'
  <2> SUFFICES ASSUME NEW m \in Nodes PROVE NodeReserved(m)'
    BY DEF ReservedInv
  <2>1. NewAsking(m)
    BY <1>1 DEF NewAsking, Asking
  <2> QED BY <1>1, <1>2, <1>3, <2>1, ReservedKept DEF IInv, ReservedInv
<1>8. AskedInv'
  BY <1>1 DEF IInv, AskedInv, Asking, Answered
<1>9. AnsweredInv'
  BY <1>2, <1>3, AnsweredKept DEF IInv
<1> QED BY <1>2, <1>4, <1>5, <1>6, <1>7, <1>8, <1>9 DEF IInv

\* The log is added to, in the order of the terms.
LEMMA CommitKeeps ==
  ASSUME IInv, NEW e \in Entry, log' = Append(log, e),
         e.term \in 1 .. Len(leaders), e.at <= Len(wrote[e.term]),
         \A i \in Positions : log[i].term <= e.term,
         UNCHANGED <<leaders, leads, wrote, applied, state, reserved, refill, request>>
  PROVE  IInv'
<1> USE DEF appVars
<1>1. /\ log' \in Seq(Entry) /\ Len(log') = Len(log) + 1 /\ Len(log) \in Nat
      /\ \A k \in 1 .. Len(log) : log'[k] = log[k]
      /\ log'[Len(log) + 1] = e
  BY SMTT(30) DEF IInv, Types
<1>2. Types'
  BY <1>1 DEF IInv, Types
<1>3. Positions' = Positions \cup {Len(log) + 1}
  BY <1>1 DEF Positions
<1>4. Kept /\ SameAnswers
  <2>1. \A k \in Positions' \ Positions : log'[k] = e
    BY <1>1, <1>3
  <2>2. \A t \in 1 .. Len(leaders) : Len(wrote[t]) <= Len(wrote'[t])
    BY <1>2, Lengths DEF IInv
  <2> QED BY <1>1, <1>2, <1>3, <2>1, <2>2, Lengths DEF Kept, SameAnswers, Answered, Positions, IInv
<1>5. LogInv'
  <2>1. ASSUME NEW i \in Positions'
        PROVE  log'[i].term \in 1 .. Len(leaders) /\ log'[i].at <= Len(wrote[log'[i].term])
    BY <1>1, <1>3 DEF IInv, LogInv, Positions
  <2>2. ASSUME NEW i \in Positions', NEW j \in Positions', i < j
        PROVE  log'[i].term <= log'[j].term
    <3>1. i \in Positions
      BY <1>1, <1>3, <2>2 DEF Positions
    <3> QED BY <1>1, <1>3, <2>2, <3>1 DEF IInv, LogInv, Positions
  <2> QED BY <2>1, <2>2 DEF IInv, LogInv
<1>6. AppInv'
  BY <1>2, <1>4, AppKept DEF IInv
<1>7. RefillInv'
  <2> SUFFICES ASSUME NEW n \in Nodes PROVE NodeRefill(n)'
    BY DEF RefillInv
  <2>1. NodeRefill(n) /\ Types
    BY DEF IInv, RefillInv
  <2>2. ASSUME refill[n].pc = "waiting" PROVE WaitingInv(n)'
    <3>1. WaitingInv(n) /\ refill[n].term \in 1 .. Len(leaders)
      BY <2>1, <2>2 DEF NodeRefill
    <3>2. ASSUME NEW i \in Positions, Awaits(n, log[i])
          PROVE  Precedes(n, i)'
      <4>1. Precedes(n, i)
        BY <3>1, <3>2 DEF WaitingInv
      <4>2. \A j \in 1 .. i - 1 : log'[j] = log[j]
        BY <1>1 DEF Positions
      <4> QED BY <4>1, <4>2 DEF Precedes, Answered
    <3>3. ASSUME NEW i \in {Len(log) + 1} PROVE Precedes(n, i)'
      <4>1. 1 .. i - 1 = Positions
        BY <1>1 DEF Positions
      <4>2. \A q \in Answered : \E k \in Positions : request[q].ts < log'[k].upto
        BY <1>1 DEF IInv, AnsweredInv, Lies, Positions
      <4>3. reserved[n].term = refill[n].term =>
              reserved[n].end = 0 \/ \E k \in Positions : reserved[n].end <= log'[k].upto
        BY <1>1, <3>1 DEF IInv, ReservedInv, NodeReserved, ReservedBelow, Positions
      <4> QED BY <1>1, <4>1, <4>2, <4>3 DEF Precedes, Answered
    <3>4. ASSUME NEW i \in Positions', Awaits(n, log[i])'
          PROVE  Precedes(n, i)'
      <4>1. CASE i \in Positions
        <5>1. Awaits(n, log[i])
          BY <1>1, <3>4, <4>1 DEF Awaits, Positions
        <5> QED BY <3>2, <4>1, <5>1
      <4>2. CASE i = Len(log) + 1
        BY <3>3, <4>2
      <4> QED BY <1>3, <4>1, <4>2
    <3> QED BY <3>1, <3>4 DEF WaitingInv
  <2>3. refill[n].pc = "installing" => InstallingInv(n)'
    BY <1>2, <1>4, <2>1, InstallingKept DEF NodeRefill
  <2> QED BY <2>1, <2>2, <2>3 DEF NodeRefill
<1>8. ReservedInv'
  <2> SUFFICES ASSUME NEW m \in Nodes PROVE NodeReserved(m)'
    BY DEF ReservedInv
  <2>1. NewAsking(m)
    BY DEF NewAsking, Asking
  <2> QED BY <1>2, <1>4, <2>1, ReservedKept DEF IInv, ReservedInv
<1>9. AskedInv'
  BY DEF IInv, AskedInv, Asking, Answered
<1>10. AnsweredInv'
  BY <1>2, <1>4, AnsweredKept DEF IInv
<1> QED BY <1>2, <1>5, <1>6, <1>7, <1>8, <1>9, <1>10 DEF IInv

\* The last entry is of the last term of the log.
LEMMA LastIsLast ==
  ASSUME Types, LogInv
  PROVE  /\ LastTerm \in 0 .. Len(leaders)
         /\ \A i \in Positions : log[i].term <= LastTerm
<1>1. CASE log = <<>>
  BY <1>1 DEF LastTerm, Positions, Types
<1>2. CASE log # <<>>
  <2> DEFINE last == Len(log)
  <2>1. last \in Positions /\ LastTerm = log[last].term /\ last \in Nat
    BY <1>2 DEF LastTerm, Positions, Types
  <2>2. log[last].term \in 1 .. Len(leaders) /\ Len(leaders) \in Nat
    BY <2>1 DEF LogInv, Types
  <2>3. ASSUME NEW i \in Positions PROVE log[i].term <= log[last].term
    <3>1. CASE i = last
      BY <2>2, <3>1
    <3>2. CASE i < last
      BY <2>1, <3>2 DEF LogInv
    <3> QED BY <2>1, <3>1, <3>2 DEF Positions
  <2>4. log[last].term \in Nat
    BY <2>2
  <2> HIDE DEF last
  <2> QED BY <2>1, <2>2, <2>3, <2>4
<1> QED BY <1>1, <1>2

LEMMA CommitBlankKeeps ==
  ASSUME IInv, NEW t \in 1 .. Len(leaders), CommitBlank(t)
  PROVE  IInv'
<1> DEFINE e == [term |-> t, at |-> 0, upto |-> 0]
<1>1. /\ t > LastTerm /\ log' = Append(log, e)
      /\ UNCHANGED <<leaders, leads, wrote, applied, state, reserved, refill, request>>
  BY DEF CommitBlank, appVars
<1>2. Types /\ LogInv /\ Len(leaders) \in Nat
  BY DEF IInv, Types
<1>3. e \in Entry
  BY <1>2, OracleAssumption DEF Entry, Time
<1>4. e.at <= Len(wrote[e.term])
  <2>1. wrote[t] \in Seq(Time)
    BY <1>2 DEF Types
  <2> QED BY <2>1
<1>5. \A i \in Positions : log[i].term <= e.term
  <2>1. LastTerm \in Nat
    BY <1>2, LastIsLast
  <2>2. \A i \in Positions : log[i].term \in Nat
    BY <1>2, EntryFields DEF Types, Positions
  <2> QED BY <1>1, <1>2, <2>1, <2>2, LastIsLast
<1> HIDE DEF e
<1>6. e.term \in 1 .. Len(leaders)
  BY DEF e
<1> QED BY <1>1, <1>3, <1>4, <1>5, <1>6, CommitKeeps

LEMMA CommitWriteKeeps ==
  ASSUME IInv, CommitWrite
  PROVE  IInv'
<1> DEFINE t == LastTerm
           k == log[Len(log)].at + 1
           e == [term |-> t, at |-> k, upto |-> wrote[t][k]]
<1>1. /\ log # <<>> /\ k <= Len(wrote[t]) /\ log' = Append(log, e)
      /\ UNCHANGED <<leaders, leads, wrote, applied, state, reserved, refill, request>>
  BY DEF CommitWrite, appVars
<1>2. Types /\ LogInv /\ Len(leaders) \in Nat
  BY DEF IInv, Types
<1>3. Len(log) \in Positions /\ t = log[Len(log)].term
  BY <1>1, <1>2 DEF LastTerm, Positions, Types
<1>4. t \in 1 .. Len(leaders) /\ log[Len(log)].at \in Nat
  BY <1>2, <1>3, EntryFields DEF LogInv, Types, Positions
<1>5. wrote[t] \in Seq(Time)
  BY <1>2, <1>4 DEF Types
<1>6. wrote[t][k] \in Time
  BY <1>1, <1>4, <1>5
<1>7. e \in Entry
  <2>1. t \in Nat /\ k \in Nat
    BY <1>2, <1>4
  <2> QED BY <1>6, <2>1 DEF Entry
<1>8. \A i \in Positions : log[i].term <= t
  BY <1>2, LastIsLast
<1>9. e.term = t /\ e.at = k
  OBVIOUS
<1> HIDE DEF e, t, k
<1> QED BY <1>1, <1>4, <1>7, <1>8, <1>9, CommitKeeps

-----------------------------------------------------------------------------
(* A node's steps.                                                         *)

\* A step that changes no leader, log, answer or reservation, and no refill
\* but that of n, keeps the invariant if it keeps it of that refill and of
\* the requests under way.
LEMMA NodeStepKeeps ==
  ASSUME IInv, Types', Kept, SameAnswers, NEW n \in Nodes, LogInv', AppInv', AskedInv',
         UNCHANGED <<leaders, leads, log, reserved>>,
         \A m \in Nodes : m # n => refill'[m] = refill[m],
         \A m \in Nodes : NewAsking(m),
         NodeRefill(n)'
  PROVE  IInv'
<1>1. RefillInv'
  <2> SUFFICES ASSUME NEW m \in Nodes, m # n PROVE NodeRefill(m)'
    BY DEF RefillInv
  <2> QED BY RefillKept DEF IInv, RefillInv
<1>2. ReservedInv'
  BY ReservedKept DEF IInv, ReservedInv
<1>3. AnsweredInv'
  BY AnsweredKept DEF IInv
<1> QED BY <1>1, <1>2, <1>3 DEF IInv

\* Nothing of openraft's changes.
LEMMA RaftKept ==
  ASSUME Types, Types', UNCHANGED raftVars
  PROVE  Kept
<1>1. \A t \in 1 .. Len(leaders) : Len(wrote[t]) <= Len(wrote'[t])
  BY Lengths DEF raftVars
<1> QED BY <1>1, Lengths DEF Kept, raftVars, Positions

LEMMA LogUnchanged ==
  ASSUME LogInv, UNCHANGED raftVars
  PROVE  LogInv'
BY DEF LogInv, raftVars, Positions

LEMMA AskedUnchanged ==
  ASSUME AskedInv, UNCHANGED <<leaders, request>>
  PROVE  AskedInv' /\ SameAnswers /\ \A m \in Nodes : NewAsking(m)
BY DEF AskedInv, Asking, Answered, SameAnswers, NewAsking

\* A refill comes to a stage that says no more than the term it asked in.
LEMMA RefillStepKeeps ==
  ASSUME IInv, NEW n \in Nodes, NEW f, RefillTypes(f), f.pc \in {"idle", "asked", "due"},
         f.pc # "idle" => /\ f.term \in 1 .. Len(leaders) /\ leaders[f.term] = n
                          /\ leads[n] # 0 => leads[n] >= f.term,
         refill' = [refill EXCEPT ![n] = f],
         UNCHANGED raftVars, UNCHANGED <<applied, state, reserved, request>>
  PROVE  IInv'
<1>1. Types
  BY DEF IInv
<1>2. refill'[n] = f /\ \A m \in Nodes : m # n => refill'[m] = refill[m]
  BY <1>1 DEF Types
<1>3. Types'
  <2>1. \A m \in Nodes : RefillTypes(refill'[m])
    BY <1>1, <1>2 DEF Types
  <2>2. refill' = [m \in Nodes |-> refill'[m]]
    BY <1>1 DEF Types
  <2> QED BY <1>1, <2>1, <2>2 DEF Types, raftVars
<1>4. NodeRefill(n)'
  BY <1>2 DEF NodeRefill, raftVars
<1>5. Kept /\ LogInv' /\ AppInv'
  <2>1. Kept
    BY <1>1, <1>3, RaftKept
  <2> QED BY <1>1, <1>3, <2>1, LogUnchanged, AppKept DEF IInv, appVars
<1>6. AskedInv' /\ SameAnswers /\ \A m \in Nodes : NewAsking(m)
  BY AskedUnchanged DEF IInv, raftVars
<1> QED BY <1>2, <1>3, <1>4, <1>5, <1>6, NodeStepKeeps DEF raftVars

LEMMA RefillAsksKeeps ==
  ASSUME IInv, NEW n \in Nodes, RefillAsks(n)
  PROVE  IInv'
<1> DEFINE asked == [pc |-> "asked", term |-> leads[n], anchor |-> Len(log)]
<1>1. /\ Granted(n) /\ refill' = [refill EXCEPT ![n] = asked]
      /\ UNCHANGED raftVars /\ UNCHANGED <<applied, state, reserved, request>>
  BY DEF RefillAsks, appVars
<1>2. leads[n] \in 1 .. Len(leaders) /\ leaders[leads[n]] = n /\ leads[n] \in Nat
  BY <1>1 DEF IInv, LogInv, Granted, Types
<1>3. RefillTypes(asked) /\ asked.pc = "asked" /\ asked.term = leads[n]
  BY <1>2 DEF RefillTypes
<1> HIDE DEF asked
<1>4. /\ asked.term \in 1 .. Len(leaders) /\ leaders[asked.term] = n
      /\ leads[n] # 0 => leads[n] >= asked.term
  BY <1>2, <1>3
<1> QED BY <1>1, <1>3, <1>4, RefillStepKeeps

\* To look is to be done or to go on to write.
LEMMA RefillLooksKeeps ==
  ASSUME IInv, NEW n \in Nodes, RefillLooks(n)
  PROVE  IInv'
<1>1. PICK now \in Clock :
        /\ refill[n].pc = "asked"
        /\ refill' = [refill EXCEPT ![n] =
             IF Covers(reserved[n], refill[n].term, Saturated(now + Width \div 2)) THEN Idle
             ELSE [pc |-> "due", term |-> refill[n].term, upto |-> Saturated(now + Width)]]
        /\ UNCHANGED raftVars /\ UNCHANGED <<applied, state, reserved, request>>
  BY DEF RefillLooks, appVars
<1> DEFINE due == [pc |-> "due", term |-> refill[n].term, upto |-> Saturated(now + Width)]
<1>2. NodeRefill(n) /\ refill[n].term \in Nat
  BY DEF IInv, RefillInv, Types, RefillTypes
<1>3. Saturated(now + Width) \in Time
  BY OracleAssumption DEF Saturated, Time
<1>4. RefillTypes(due) /\ due.pc = "due" /\ due.term = refill[n].term
  BY <1>2, <1>3 DEF RefillTypes
<1>5. RefillTypes(Idle) /\ Idle.pc = "idle"
  BY DEF RefillTypes, Idle
<1>6. PICK f \in {Idle, due} : refill' = [refill EXCEPT ![n] = f]
  BY <1>1
<1> HIDE DEF due
<1>7. refill[n].term \in 1 .. Len(leaders) /\ leaders[refill[n].term] = n
      /\ (leads[n] # 0 => leads[n] >= refill[n].term)
  BY <1>1, <1>2 DEF NodeRefill
<1> QED BY <1>1, <1>4, <1>5, <1>6, <1>7, RefillStepKeeps

LEMMA RefillFailsKeeps ==
  ASSUME IInv, NEW n \in Nodes, RefillFails(n)
  PROVE  IInv'
<1>1. /\ refill' = [refill EXCEPT ![n] = Idle]
      /\ UNCHANGED raftVars /\ UNCHANGED <<applied, state, reserved, request>>
  BY DEF RefillFails, appVars
<1>2. RefillTypes(Idle) /\ Idle.pc = "idle"
  BY DEF RefillTypes, Idle
<1> QED BY <1>1, <1>2, RefillStepKeeps

LEMMA RefillWritesKeeps ==
  ASSUME IInv, NEW n \in Nodes, RefillWrites(n)
  PROVE  IInv'
<1> DEFINE t == leads[n]
           k == Len(wrote[t]) + 1
           f == [pc |-> "waiting", term |-> refill[n].term, wterm |-> t, at |-> k]
<1>1. /\ refill[n].pc = "due" /\ t # 0
      /\ wrote' = [wrote EXCEPT ![t] = Append(wrote[t], refill[n].upto)]
      /\ refill' = [refill EXCEPT ![n] = f]
      /\ UNCHANGED <<leaders, leads, log, applied, state, reserved, request>>
  BY DEF RefillWrites, appVars
<1>2. Types /\ LogInv /\ NodeRefill(n) /\ refill[n].term \in Nat /\ refill[n].upto \in Time
  BY <1>1 DEF IInv, RefillInv, Types, RefillTypes
<1>3. t \in 1 .. Len(leaders) /\ t \in Nat /\ Len(leaders) \in Nat
  BY <1>1, <1>2 DEF LogInv, Types
<1>4. wrote[t] \in Seq(Time) /\ k \in Nat \ {0} /\ Len(wrote[t]) \in Nat
  <2>1. wrote \in Seq(Seq(Time)) /\ t \in 1 .. Len(wrote)
    BY <1>2, <1>3 DEF Types
  <2>2. wrote[t] \in Seq(Time)
    BY <2>1
  <2> QED BY <2>2
<1>5. Append(wrote[t], refill[n].upto) \in Seq(Time) /\ Len(Append(wrote[t], refill[n].upto)) = k
  BY <1>2, <1>4
<1>6. /\ wrote' \in Seq(Seq(Time)) /\ Len(wrote') = Len(wrote) /\ Len(wrote'[t]) = k
      /\ \A u \in 1 .. Len(leaders) : u # t => wrote'[u] = wrote[u]
  BY <1>1, <1>2, <1>3, <1>5 DEF Types
<1>7. refill'[n] = f /\ \A m \in Nodes : m # n => refill'[m] = refill[m]
  BY <1>1, <1>2 DEF Types
<1>8. f.pc = "waiting" /\ f.term = refill[n].term /\ f.wterm = t /\ f.at = k
  OBVIOUS
<1>9. RefillTypes(f)
  BY <1>2, <1>3, <1>4, <1>8 DEF RefillTypes
<1> HIDE DEF f
<1>10. Types'
  <2>1. \A m \in Nodes : RefillTypes(refill'[m])
    BY <1>2, <1>7, <1>9 DEF Types
  <2>2. refill' = [m \in Nodes |-> refill'[m]]
    BY <1>1, <1>2 DEF Types
  <2> QED BY <1>1, <1>2, <1>6, <2>1, <2>2 DEF Types
<1>11. ASSUME NEW u \in 1 .. Len(leaders) PROVE Len(wrote[u]) <= Len(wrote'[u])
  <2>1. CASE u = t
    BY <1>4, <1>6, <2>1
  <2>2. CASE u # t
    BY SMTT(30), <1>2, <1>6, <1>10, <2>2, Lengths
  <2> QED BY <2>1, <2>2
<1>12. Kept
  BY <1>1, <1>2, <1>10, <1>11, Lengths DEF Kept, Positions
<1>13. LogInv'
  <2>1. ASSUME NEW i \in Positions PROVE log[i].at <= Len(wrote'[log[i].term])
    <3>1. log[i].term \in 1 .. Len(leaders) /\ log[i].at <= Len(wrote[log[i].term])
      BY <1>2 DEF LogInv
    <3>2. log[i].at \in Nat
      BY <1>2, EntryFields DEF Types, Positions
    <3> QED BY <1>2, <1>10, <1>1, <1>11, <3>1, <3>2, Lengths
  <2> QED BY <1>1, <1>2, <2>1 DEF LogInv, Positions
<1>14. NodeRefill(n)'
  <2>1. refill[n].term \in 1 .. Len(leaders) /\ leaders[refill[n].term] = n /\ t >= refill[n].term
    BY <1>1, <1>2 DEF NodeRefill
  <2>2. ASSUME NEW i \in Positions', Awaits(n, log[i])' PROVE FALSE
    <3>1. log[i].term = t /\ log[i].at = k /\ i \in Positions
      BY <1>1, <1>7, <1>8, <2>2 DEF Awaits, Positions
    <3>2. log[i].at <= Len(wrote[t])
      BY <1>2, <3>1 DEF LogInv
    <3> QED BY <1>4, <3>1, <3>2
  <2>3. t \in refill[n].term .. Len(leaders) /\ k \in 1 .. Len(wrote'[t])
    BY <1>2, <1>3, <1>4, <1>6, <2>1
  <2>4. WaitingInv(n)'
    BY <1>1, <1>7, <1>8, <2>2, <2>3 DEF WaitingInv
  <2> QED BY <1>1, <1>7, <1>8, <2>1, <2>4 DEF NodeRefill
<1>15. AppInv'
  BY <1>1, <1>2, <1>10, <1>12, AppKept DEF IInv, appVars
<1>16. AskedInv' /\ SameAnswers /\ \A m \in Nodes : NewAsking(m)
  BY <1>1, AskedUnchanged DEF IInv
<1> QED BY <1>1, <1>7, <1>10, <1>12, <1>13, <1>14, <1>15, <1>16, NodeStepKeeps

\* One more entry applied raises the mark to the larger of the two.
LEMMA MarkNext ==
  ASSUME Types, NEW i \in Positions, NEW m \in Time, Mark(i - 1, m)
  PROVE  Mark(i, Larger(m, log[i].upto)) /\ Larger(m, log[i].upto) \in Time
<1>1. i \in Nat \ {0} /\ m \in Nat
  BY TimeIsNat DEF Positions
<1>2. \A j \in 1 .. i : log[j].upto \in Time /\ log[j].upto \in Nat
  BY EntryFields, TimeIsNat DEF Types, Positions
<1>3. \A j \in 1 .. i : j = i \/ j \in 1 .. i - 1
  BY <1>1
<1>4. i \in 1 .. i /\ \A j \in 1 .. i - 1 : j \in 1 .. i
  BY <1>1
<1>5. \A j \in 1 .. i : log[j].upto <= Larger(m, log[i].upto)
  BY <1>1, <1>2, <1>3, <1>4 DEF Mark, Larger
<1>6. Larger(m, log[i].upto) = 0 \/ \E j \in 1 .. i : log[j].upto = Larger(m, log[i].upto)
  BY <1>4 DEF Mark, Larger
<1>7. Larger(m, log[i].upto) \in Time
  BY <1>2, <1>4 DEF Larger
<1> QED BY <1>5, <1>6, <1>7 DEF Mark

\* The write that is answered is given what lies between the marks before
\* and after its entry.
LEMMA AnsweredWrite ==
  ASSUME Types, LogInv, AnsweredInv, ReservedInv, NEW n \in Nodes, NEW i \in Positions,
         refill[n].pc = "waiting", refill[n].term \in 1 .. Len(leaders), WaitingInv(n),
         Awaits(n, log[i]), NEW m \in Time, Mark(i - 1, m),
         UNCHANGED raftVars, UNCHANGED <<reserved, request>>,
         refill'[n] = [pc |-> "installing", term |-> refill[n].term,
                       interval |-> ApplyReserve(m, log[i].upto)]
  PROVE  InstallingInv(n)'
<1> DEFINE t == refill[n].term
           end == Larger(m, log[i].upto)
<1>1. /\ refill'[n].term = t /\ refill'[n].interval.start = m /\ refill'[n].interval.end = end
  BY DEF ApplyReserve
<1>2. /\ t \in Nat /\ Len(leaders) \in Nat /\ i \in Nat \ {0} /\ m \in Nat
      /\ \A k \in Positions : log[k].term \in Nat /\ log[k].upto \in Nat
  <2>1. log \in Seq(Entry) /\ leaders \in Seq(Nodes)
    BY DEF Types
  <2>2. \A k \in Positions : log[k].term \in Nat /\ log[k].upto \in Nat
    BY <2>1, EntryFields, TimeIsNat DEF Positions
  <2>3. Len(leaders) \in Nat /\ Len(log) \in Nat
    BY <2>1
  <2>4. t \in Nat
    BY DEF Types, RefillTypes
  <2>5. m \in Nat
    BY TimeIsNat
  <2> QED BY <2>2, <2>3, <2>4, <2>5 DEF Positions
<1>3. log[i].term \in t .. Len(leaders)
  BY DEF WaitingInv, Awaits
<1>4. Precedes(n, i)
  BY DEF WaitingInv
<1>5. \A j \in 1 .. i - 1 : j \in Positions /\ log[j].upto <= m /\ log[j].upto \in Nat
  BY <1>2 DEF Mark, Positions
<1>6. ASSUME NEW q \in Answered, request[q].term = t
      PROVE  request[q].ts < m
  <2>1. PICK j \in 1 .. i - 1 : request[q].ts < log[j].upto
    BY <1>4, <1>6 DEF Precedes
  <2>2. request[q].ts \in Nat
    BY TimeIsNat DEF Types, RequestTypes, Answered
  <2> QED BY <1>2, <1>5, <2>1, <2>2
<1>7. reserved[n].term = t => reserved[n].end <= m
  <2>1. reserved[n].end \in Nat
    BY TimeIsNat DEF Types
  <2> QED BY <1>2, <1>4, <1>5, <2>1 DEF Precedes
<1>8. ASSUME NEW k \in Positions, log[k].term < t
      PROVE  log[k].upto <= m
  <2>1. log[k].term < log[i].term
    BY <1>2, <1>3, <1>8
  <2>2. k < i
    BY <1>2, <2>1 DEF LogInv, Positions
  <2>3. k \in 1 .. i - 1
    BY <1>2, <2>2 DEF Positions
  <2> QED BY <1>5, <2>3
<1>9. \E k \in Positions : log[k].term >= t
  BY <1>2, <1>3
<1>10. Reaches(t, end)
  <2>1. Mark(i, end)
    BY MarkNext
  <2>2. CASE end = 0
    BY <2>2 DEF Reaches
  <2>3. CASE end # 0
    <3>1. PICK j \in 1 .. i : log[j].upto = end
      BY <2>1, <2>3 DEF Mark
    <3>2. j \in Positions /\ log[j].term <= log[i].term
      BY <1>2 DEF LogInv, Positions
    <3>3. log[j].term <= t \/ t < Len(leaders)
      BY <1>2, <1>3, <3>2
    <3>4. end <= log[j].upto
      BY <1>2, <3>1, <3>2
    <3> HIDE DEF end
    <3> QED BY <3>2, <3>3, <3>4 DEF Reaches
  <2> QED BY <2>2, <2>3
<1>11. Reaches(t, end)'
  BY <1>10 DEF Reaches, raftVars, Positions
<1>12. leaders' = leaders /\ log' = log /\ Answered' = Answered /\ request' = request /\ Positions' = Positions
  BY DEF raftVars, Answered, Positions
<1>13. Reaches(refill[n].term, refill[n].interval.end)'
  BY <1>1, <1>10, <1>12 DEF Reaches
<1> HIDE DEF t, end
<1> QED BY <1>1, <1>6, <1>7, <1>8, <1>9, <1>12, <1>13 DEF InstallingInv

LEMMA ApplyKeeps ==
  ASSUME IInv, NEW n \in Nodes, Apply(n)
  PROVE  IInv'
<1> DEFINE i == applied[n] + 1
           interval == ApplyReserve(state[n], log[i].upto)
           f == [pc |-> "installing", term |-> refill[n].term, interval |-> interval]
<1>1. /\ applied[n] < Len(log)
      /\ state' = [state EXCEPT ![n] = interval.end]
      /\ applied' = [applied EXCEPT ![n] = i]
      /\ IF Awaits(n, log[i]) THEN refill' = [refill EXCEPT ![n] = f] ELSE UNCHANGED refill
      /\ UNCHANGED raftVars /\ UNCHANGED <<reserved, request>>
  BY DEF Apply
<1>2. Types /\ LogInv /\ AnsweredInv /\ ReservedInv /\ NodeRefill(n)
  BY DEF IInv, RefillInv
<1>3. i \in Positions /\ i - 1 = applied[n] /\ i <= Len(log)
  BY <1>1, <1>2 DEF Types, Positions
<1>4. state[n] \in Time /\ Mark(i - 1, state[n])
  BY <1>2, <1>3 DEF IInv, AppInv, Types
<1>5. Mark(i, interval.end) /\ interval.end \in Time /\ interval.start = state[n]
  BY <1>2, <1>3, <1>4, MarkNext DEF ApplyReserve
<1>6. f.pc = "installing" /\ f.term = refill[n].term /\ f.interval = interval
  OBVIOUS
<1>7. RefillTypes(f)
  BY <1>2, <1>4, <1>5, <1>6 DEF RefillTypes, Types
<1>8. /\ refill'[n] = (IF Awaits(n, log[i]) THEN f ELSE refill[n])
      /\ \A m \in Nodes : m # n => refill'[m] = refill[m]
      /\ refill' = [m \in Nodes |-> refill'[m]]
  BY <1>1, <1>2 DEF Types
<1>9. Types'
  <2>1. \A m \in Nodes : RefillTypes(refill'[m])
    BY <1>2, <1>7, <1>8 DEF Types
  <2>2. applied' \in [Nodes -> Nat] /\ state' \in [Nodes -> Time]
    BY <1>1, <1>2, <1>5 DEF Types
  <2> HIDE DEF f, interval, i
  <2> QED BY <1>1, <1>2, <1>8, <2>1, <2>2 DEF Types, raftVars
<1>10. Kept
  BY <1>1, <1>2, <1>9, RaftKept
<1>11. AppInv'
  <2> SUFFICES ASSUME NEW m \in Nodes PROVE applied'[m] <= Len(log) /\ Mark(applied'[m], state'[m])
    BY <1>1 DEF AppInv, Mark, raftVars
  <2>1. CASE m = n
    <3>1. applied'[m] = i /\ state'[m] = interval.end
      BY <1>1, <1>2, <2>1 DEF Types
    <3> QED BY <1>3, <1>5, <3>1
  <2>2. CASE m # n
    <3>1. applied'[m] = applied[m] /\ state'[m] = state[m]
      BY <1>1, <1>2, <2>2 DEF Types
    <3> QED BY <3>1 DEF IInv, AppInv
  <2> QED BY <2>1, <2>2
<1>12. AskedInv' /\ SameAnswers /\ \A m \in Nodes : NewAsking(m)
  BY <1>1, AskedUnchanged DEF IInv, raftVars
<1>13. LogInv'
  BY <1>1, <1>2, LogUnchanged
<1>14. NodeRefill(n)'
  <2>1. CASE Awaits(n, log[i])
    <3>1. refill[n].pc = "waiting" /\ WaitingInv(n)
      BY <1>2, <2>1 DEF Awaits, NodeRefill
    <3>2. /\ refill[n].term \in 1 .. Len(leaders) /\ leaders[refill[n].term] = n
          /\ leads[n] # 0 => leads[n] >= refill[n].term
      BY <1>2, <3>1 DEF NodeRefill
    <3>3. InstallingInv(n)'
      BY <1>1, <1>2, <1>3, <1>4, <1>8, <2>1, <3>1, <3>2, AnsweredWrite
    <3> HIDE DEF f
    <3> QED BY <1>1, <1>6, <1>8, <2>1, <3>2, <3>3 DEF NodeRefill, raftVars
  <2>2. CASE ~Awaits(n, log[i])
    BY <1>1, <1>2, <1>8, <1>9, <1>10, <1>12, <2>2, RefillKept DEF raftVars
  <2> QED BY <2>1, <2>2
<1> HIDE DEF f, interval, i
<1> QED BY <1>1, <1>8, <1>9, <1>10, <1>11, <1>12, <1>13, <1>14, NodeStepKeeps DEF raftVars

LEMMA StopKeeps ==
  ASSUME IInv, NEW n \in Nodes, Stop(n)
  PROVE  IInv'
<1>1. /\ reserved' = [reserved EXCEPT ![n] = Unreserved]
      /\ refill' = [refill EXCEPT ![n] = Idle]
      /\ request' = [r \in Requests |-> IF r \in Asking(n) THEN Unasked ELSE request[r]]
      /\ applied' = [applied EXCEPT ![n] = 0] /\ state' = [state EXCEPT ![n] = 0]
      /\ UNCHANGED raftVars
  BY DEF Stop
<1>2. Types
  BY DEF IInv
<1>3. /\ refill'[n] = Idle /\ reserved'[n] = Unreserved /\ applied'[n] = 0 /\ state'[n] = 0
      /\ \A m \in Nodes : m # n => /\ refill'[m] = refill[m] /\ reserved'[m] = reserved[m]
                                   /\ applied'[m] = applied[m] /\ state'[m] = state[m]
  BY <1>1, <1>2 DEF Types
<1>4. ASSUME NEW r \in Requests
      PROVE  request'[r] = Unasked \/ (request'[r] = request[r] /\ r \notin Asking(n))
  <2>1. request'[r] = IF r \in Asking(n) THEN Unasked ELSE request[r]
    BY <1>1
  <2> QED BY <2>1
<1>5. Types'
  <2>1. \A m \in Nodes : RefillTypes(refill'[m])
    <3>1. RefillTypes(Idle)
      BY DEF RefillTypes, Idle
    <3> QED BY <1>2, <1>3, <3>1 DEF Types
  <2>2. refill' = [m \in Nodes |-> refill'[m]] /\ request' = [r \in Requests |-> request'[r]]
    BY <1>1, <1>2 DEF Types
  <2>3. \A r \in Requests : RequestTypes(request'[r])
    <3>1. RequestTypes(Unasked)
      BY DEF RequestTypes, Unasked
    <3> QED BY <1>2, <1>4, <3>1 DEF Types
  <2>4. 0 \in Time
    BY OracleAssumption DEF Time
  <2>5. reserved' \in [Nodes -> [term : Nat, next : Time, end : Time]]
    BY <1>1, <1>2, <2>4 DEF Types, Unreserved
  <2>6. applied' \in [Nodes -> Nat] /\ state' \in [Nodes -> Time]
    BY <1>1, <1>2, <2>4 DEF Types
  <2> QED BY <1>1, <1>2, <2>1, <2>2, <2>3, <2>5, <2>6 DEF Types, raftVars
<1>6. Kept
  BY <1>1, <1>2, <1>5, RaftKept
<1>7. SameAnswers
  BY <1>1, <1>4 DEF SameAnswers, Answered, Asking, Unasked
<1>8. \A m \in Nodes : Asking(m)' \subseteq Asking(m) /\ \A r \in Asking(m)' : request'[r] = request[r]
  BY <1>4 DEF Asking, Unasked
<1>9. LogInv'
  BY <1>1, LogUnchanged DEF IInv
<1>10. AppInv'
  <2>1. \A m \in Nodes : m = n \/ (applied'[m] = applied[m] /\ state'[m] = state[m])
    BY <1>3
  <2>2. Len(log) \in Nat
    BY <1>2 DEF Types
  <2> QED BY <1>1, <1>3, <2>1, <2>2 DEF IInv, AppInv, Mark, raftVars
<1>11. RefillInv'
  <2> SUFFICES ASSUME NEW m \in Nodes PROVE NodeRefill(m)'
    BY DEF RefillInv
  <2>1. CASE m = n
    BY <1>3, <2>1 DEF NodeRefill, Idle
  <2>2. CASE m # n
    BY <1>1, <1>2, <1>3, <1>5, <1>6, <1>7, <2>2, RefillKept DEF IInv, RefillInv, raftVars
  <2> QED BY <2>1, <2>2
<1>12. ReservedInv'
  <2> SUFFICES ASSUME NEW m \in Nodes PROVE NodeReserved(m)'
    BY DEF ReservedInv
  <2>1. CASE m = n
    BY <1>3, <2>1 DEF NodeReserved, Unreserved
  <2>2. CASE m # n
    <3>1. NewAsking(m)
      BY <1>8 DEF NewAsking
    <3> QED BY <1>2, <1>3, <1>5, <1>6, <1>7, <2>2, <3>1, ReservedKept DEF IInv, ReservedInv
  <2> QED BY <2>1, <2>2
<1>13. AskedInv'
  <2> SUFFICES ASSUME NEW r \in Requests, request'[r].pc = "asked"
      PROVE  /\ Asking(request[r].node)' = {r}
             /\ request'[r].term \in 1 .. Len(leaders') /\ leaders'[request'[r].term] = request'[r].node
             /\ \A q \in request'[r].before : q \in Answered' /\ request'[q].term <= request'[r].term
    BY DEF AskedInv
  <2>1. request'[r] = request[r]
    BY <1>4 DEF Unasked
  <2>2. /\ request[r].node \in Nodes /\ Asking(request[r].node) = {r}
        /\ request[r].term \in 1 .. Len(leaders) /\ leaders[request[r].term] = request[r].node
        /\ \A q \in request[r].before : q \in Answered /\ request[q].term <= request[r].term
    BY <1>2, <2>1 DEF IInv, AskedInv, Types, RequestTypes
  <2>3. r \in Asking(request[r].node)'
    BY <2>1 DEF Asking
  <2> QED BY SMTT(30), <1>1, <1>7, <1>8, <2>1, <2>2, <2>3 DEF SameAnswers, raftVars
<1>14. AnsweredInv'
  BY <1>2, <1>5, <1>6, <1>7, AnsweredKept DEF IInv
<1> QED BY <1>5, <1>9, <1>10, <1>11, <1>12, <1>13, <1>14 DEF IInv

\* What a refill installs is reserved in its term, whatever was before.
LEMMA RefillInstallsKeeps ==
  ASSUME IInv, NEW n \in Nodes, RefillInstalls(n)
  PROVE  IInv'
<1> DEFINE t == refill[n].term
           interval == refill[n].interval
           own == reserved[n]
           new == Install(own, t, interval)
<1>1. /\ refill[n].pc = "installing" /\ Unlocked(n)
      /\ reserved' = [reserved EXCEPT ![n] = new]
      /\ refill' = [refill EXCEPT ![n] = Idle]
      /\ UNCHANGED raftVars /\ UNCHANGED <<applied, state, request>>
  BY DEF RefillInstalls, appVars
<1>2. Types /\ NodeReserved(n) /\ NodeRefill(n)
  BY DEF IInv, ReservedInv, RefillInv
<1>3. /\ refill'[n] = Idle /\ reserved'[n] = new
      /\ \A m \in Nodes : m # n => refill'[m] = refill[m] /\ reserved'[m] = reserved[m]
  BY <1>1, <1>2 DEF Types
<1>4. /\ t \in Nat /\ interval.start \in Time /\ interval.end \in Time
      /\ own.term \in Nat /\ own.next \in Time /\ own.end \in Time
  BY <1>1, <1>2 DEF Types, RefillTypes
<1>5. /\ new.term = t /\ new.end = interval.end
      /\ new.next = interval.start \/ (own.term = t /\ new.next = own.next)
  BY DEF Install
<1>6. new \in [term : Nat, next : Time, end : Time]
  BY <1>4 DEF Install
<1> HIDE DEF new
<1>7. Types'
  <2>1. \A m \in Nodes : RefillTypes(refill'[m])
    <3>1. RefillTypes(Idle)
      BY DEF RefillTypes, Idle
    <3> QED BY <1>2, <1>3, <3>1 DEF Types
  <2>2. refill' = [m \in Nodes |-> refill'[m]]
    BY <1>1, <1>2 DEF Types
  <2>3. reserved' \in [Nodes -> [term : Nat, next : Time, end : Time]]
    BY <1>1, <1>2, <1>6 DEF Types
  <2> QED BY <1>1, <1>2, <2>1, <2>2, <2>3 DEF Types, raftVars
<1>8. Kept
  BY <1>1, <1>2, <1>7, RaftKept
<1>9. AskedInv' /\ SameAnswers /\ \A m \in Nodes : NewAsking(m)
  BY <1>1, AskedUnchanged DEF IInv, raftVars
<1>10. LogInv' /\ AppInv'
  BY <1>1, <1>2, <1>7, <1>8, LogUnchanged, AppKept DEF IInv, appVars
<1>11. RefillInv'
  <2> SUFFICES ASSUME NEW m \in Nodes PROVE NodeRefill(m)'
    BY DEF RefillInv
  <2>1. CASE m = n
    BY <1>3, <2>1 DEF NodeRefill, Idle
  <2>2. CASE m # n
    BY <1>1, <1>2, <1>3, <1>7, <1>8, <1>9, <2>2, RefillKept DEF IInv, RefillInv, raftVars
  <2> QED BY <2>1, <2>2
<1>12. NodeReserved(n)'
  <2>1. t \in 1 .. Len(leaders) /\ leaders[t] = n /\ t # 0
    BY <1>1, <1>2 DEF NodeRefill, Types
  <2>2. InstallingInv(n)
    BY <1>1, <1>2 DEF NodeRefill
  <2>3. \A q \in Answered : request[q].term = t => request[q].ts < new.next
    <3>1. CASE new.next = interval.start
      BY <2>2, <3>1 DEF InstallingInv
    <3>2. CASE own.term = t /\ new.next = own.next
      BY <1>2, <2>1, <3>2 DEF NodeReserved
    <3> QED BY <1>5, <3>1, <3>2
  <2>4. \A k \in Positions : log[k].term < t => log[k].upto <= new.next
    <3>1. CASE new.next = interval.start
      BY <2>2, <3>1 DEF InstallingInv
    <3>2. CASE own.term = t /\ new.next = own.next
      BY <1>2, <2>1, <3>2 DEF NodeReserved
    <3> QED BY <1>5, <3>1, <3>2
  <2>5. \E k \in Positions : log[k].term >= t
    BY <2>2 DEF InstallingInv
  <2>6. t < Len(leaders) => Stale(n, t)
    BY <1>1 DEF Stale, Unlocked
  <2>7. \/ interval.end = 0
        \/ \E k \in Positions : interval.end <= log[k].upto /\ (log[k].term <= t \/ Stale(n, t))
    BY <2>2, <2>6 DEF InstallingInv, Reaches
  <2>8. /\ leaders' = leaders /\ log' = log /\ Positions' = Positions /\ request' = request
        /\ Answered' = Answered /\ Asking(n)' = Asking(n)
    BY <1>1 DEF raftVars, Positions, Answered, Asking
  <2>9. ReservedBelow(n)'
    BY <1>3, <1>5, <2>7, <2>8 DEF ReservedBelow, Stale
  <2> HIDE DEF t, interval, own
  <2> QED BY <1>3, <1>5, <2>1, <2>3, <2>4, <2>5, <2>8, <2>9 DEF NodeReserved
<1>13. ReservedInv'
  <2> SUFFICES ASSUME NEW m \in Nodes, m # n PROVE NodeReserved(m)'
    BY <1>12 DEF ReservedInv
  <2> QED BY <1>2, <1>3, <1>7, <1>8, <1>9, ReservedKept DEF IInv, ReservedInv
<1>14. AnsweredInv'
  BY <1>2, <1>7, <1>8, <1>9, AnsweredKept DEF IInv
<1> QED BY <1>7, <1>9, <1>10, <1>11, <1>13, <1>14 DEF IInv

-----------------------------------------------------------------------------
(* A request's steps.                                                      *)

LEMMA AskKeeps ==
  ASSUME IInv, NEW r \in Requests, NEW n \in Nodes, Ask(r, n)
  PROVE  IInv'
<1> DEFINE asked == [pc |-> "asked", node |-> n, term |-> leads[n], anchor |-> Len(log),
                     before |-> Answered, acked |-> acknowledged]
<1>1. /\ request[r].pc = "new" /\ Unlocked(n) /\ Granted(n)
      /\ request' = [request EXCEPT ![r] = asked]
      /\ UNCHANGED raftVars /\ UNCHANGED <<applied, state, reserved, refill>>
  BY DEF Ask, appVars
<1>2. Types /\ leads[n] = Len(leaders) /\ leads[n] \in 1 .. Len(leaders) /\ leaders[leads[n]] = n
  BY <1>1 DEF IInv, LogInv, Granted
<1>3. request'[r] = asked /\ \A q \in Requests : q # r => request'[q] = request[q]
  BY <1>1, <1>2 DEF Types
<1>4. /\ asked.pc = "asked" /\ asked.node = n /\ asked.term = leads[n] /\ asked.before = Answered
  OBVIOUS
<1>5. RequestTypes(asked)
  BY <1>2, <1>4 DEF RequestTypes, Types, Answered
<1> HIDE DEF asked
<1>6. Types'
  <2>1. \A q \in Requests : RequestTypes(request'[q])
    BY <1>2, <1>3, <1>5 DEF Types
  <2>2. request' = [q \in Requests |-> request'[q]]
    BY <1>1, <1>2 DEF Types
  <2> QED BY <1>1, <1>2, <2>1, <2>2 DEF Types, raftVars
<1>7. Kept
  BY <1>1, <1>2, <1>6, RaftKept
<1>8. SameAnswers
  BY <1>1, <1>3, <1>4 DEF SameAnswers, Answered
<1>9. ASSUME NEW m \in Nodes
      PROVE  Asking(m)' = IF m = n THEN {r} ELSE Asking(m)
  BY <1>1, <1>3, <1>4 DEF Asking, Unlocked
<1>10. \A m \in Nodes : NewAsking(m)
  BY <1>1, <1>2, <1>3, <1>4 DEF NewAsking, Asking, raftVars
<1>11. LogInv' /\ AppInv'
  BY <1>1, <1>2, <1>6, <1>7, LogUnchanged, AppKept DEF IInv, appVars
<1>12. AskedInv'
  <2> SUFFICES ASSUME NEW p \in Requests, request'[p].pc = "asked"
      PROVE  /\ Asking(request[p].node)' = {p}
             /\ request'[p].term \in 1 .. Len(leaders') /\ leaders'[request'[p].term] = request'[p].node
             /\ \A q \in request'[p].before : q \in Answered' /\ request'[q].term <= request'[p].term
    BY DEF AskedInv
  <2>1. CASE p = r
    <3>1. \A q \in Answered : request[q].term <= Len(leaders) /\ request'[q] = request[q]
      BY <1>8 DEF IInv, AnsweredInv, Lies, SameAnswers
    <3> QED BY <1>1, <1>2, <1>3, <1>4, <1>8, <1>9, <2>1, <3>1 DEF SameAnswers, raftVars
  <2>2. CASE p # r
    <3>1. request'[p] = request[p]
      BY <1>3, <2>2
    <3>2. /\ request[p].node \in Nodes /\ Asking(request[p].node) = {p}
          /\ request[p].term \in 1 .. Len(leaders) /\ leaders[request[p].term] = request[p].node
          /\ \A q \in request[p].before : q \in Answered /\ request[q].term <= request[p].term
      BY <1>2, <3>1 DEF IInv, AskedInv, Types, RequestTypes
    <3>3. request[p].node # n
      BY <1>1, <3>2 DEF Unlocked
    <3> QED BY <1>1, <1>8, <1>9, <3>1, <3>2, <3>3 DEF SameAnswers, raftVars
  <2> QED BY <2>1, <2>2
<1>13. NodeRefill(n)'
  BY <1>1, <1>2, <1>6, <1>7, <1>8, RefillKept DEF IInv, RefillInv, raftVars
<1> QED BY <1>1, <1>6, <1>7, <1>8, <1>10, <1>11, <1>12, <1>13, NodeStepKeeps DEF raftVars

\* A request that is refused leaves only its lock.
LEMMA RefusedKeeps ==
  ASSUME IInv, NEW r \in Requests, request[r].pc = "asked",
         request' = [request EXCEPT ![r] = Unasked],
         UNCHANGED raftVars, UNCHANGED <<applied, state, reserved, refill>>
  PROVE  IInv'
<1>1. Types /\ request[r].node \in Nodes
  BY DEF IInv, Types, RequestTypes
<1>2. request'[r] = Unasked /\ \A q \in Requests : q # r => request'[q] = request[q]
  BY <1>1 DEF Types
<1>3. Types'
  <2>1. RequestTypes(Unasked)
    BY DEF RequestTypes, Unasked
  <2>2. \A q \in Requests : RequestTypes(request'[q])
    BY <1>1, <1>2, <2>1 DEF Types
  <2>3. request' = [q \in Requests |-> request'[q]]
    BY <1>1 DEF Types
  <2> QED BY <1>1, <2>2, <2>3 DEF Types, raftVars
<1>4. Kept
  BY <1>1, <1>3, RaftKept
<1>5. SameAnswers
  BY <1>2 DEF SameAnswers, Answered, Unasked
<1>6. \A m \in Nodes : Asking(m)' = Asking(m) \ {r}
  BY <1>2 DEF Asking, Unasked
<1>7. \A m \in Nodes : NewAsking(m)
  BY <1>2, <1>6 DEF NewAsking, Asking
<1>8. LogInv' /\ AppInv'
  BY <1>1, <1>3, <1>4, LogUnchanged, AppKept DEF IInv, appVars
<1>9. AskedInv'
  <2> SUFFICES ASSUME NEW p \in Requests, request'[p].pc = "asked"
      PROVE  /\ Asking(request[p].node)' = {p}
             /\ request'[p].term \in 1 .. Len(leaders') /\ leaders'[request'[p].term] = request'[p].node
             /\ \A q \in request'[p].before : q \in Answered' /\ request'[q].term <= request'[p].term
    BY DEF AskedInv
  <2>1. p # r /\ request'[p] = request[p]
    BY <1>2 DEF Unasked
  <2>2. /\ request[p].node \in Nodes /\ Asking(request[p].node) = {p}
        /\ request[p].term \in 1 .. Len(leaders) /\ leaders[request[p].term] = request[p].node
        /\ \A q \in request[p].before : q \in Answered /\ request[q].term <= request[p].term
    BY <1>1, <2>1 DEF IInv, AskedInv, Types, RequestTypes
  <2> QED BY <1>5, <1>6, <2>1, <2>2 DEF SameAnswers, raftVars
<1>10. PICK n \in Nodes : n = request[r].node
  BY <1>1
<1>11. NodeRefill(n)'
  BY <1>1, <1>3, <1>4, <1>5, RefillKept DEF IInv, RefillInv, raftVars
<1> QED BY <1>3, <1>4, <1>5, <1>7, <1>8, <1>9, <1>11, NodeStepKeeps DEF raftVars

\* Timestamps of different terms are in the order of the terms.
LEMMA TermsInOrder ==
  ASSUME NEW lo, NEW hi, NEW loTerm \in Nat, NEW hiTerm \in Nat, lo \in Nat, hi \in Nat,
         loTerm < hiTerm, Types,
         \E k \in Positions : log[k].term <= loTerm /\ lo < log[k].upto,
         \A k \in Positions : log[k].term < hiTerm => log[k].upto <= hi
  PROVE  lo < hi
<1>1. PICK k \in Positions : log[k].term <= loTerm /\ lo < log[k].upto
  OBVIOUS
<1>2. log[k].term \in Nat /\ log[k].upto \in Nat
  BY EntryFields, TimeIsNat DEF Types, Positions
<1>3. log[k].upto <= hi
  BY <1>1, <1>2
<1> QED BY <1>1, <1>2, <1>3

\* The heart of it: what is taken from the reservation of a term lies above
\* all that was handed out in it or before it.
LEMMA TakenKeeps ==
  ASSUME IInv, NEW r \in Requests, request[r].pc = "asked",
         NEW n \in Nodes, n = request[r].node, NEW now \in Time, NEW ts,
         ts = Larger(now, reserved[n].next),
         Takes(reserved[n], request[r].term, ts),
         reserved' = [reserved EXCEPT ![n].next = ts + 1],
         request' = [request EXCEPT ![r] =
           [pc |-> "answered", term |-> request[r].term, before |-> request[r].before, ts |-> ts]],
         UNCHANGED raftVars, UNCHANGED <<applied, state, refill>>
  PROVE  IInv'
<1> DEFINE t == request[r].term
           own == reserved[n]
           answer == [pc |-> "answered", term |-> t, before |-> request[r].before, ts |-> ts]
<1>1. Types /\ LogInv /\ AnsweredInv
  BY DEF IInv
<1>2. /\ own.term = t /\ own.next \in Time /\ own.end \in Time
      /\ own.next \in Nat /\ own.end \in Nat /\ now \in Nat
  BY <1>1, TimeIsNat DEF Types, Takes
<1>3. ts \in Nat /\ ts < own.end /\ ts >= own.next /\ own.end # 0
  BY <1>2 DEF Takes, Larger
<1>4. ts \in Time /\ ts + 1 \in Time
  BY <1>2, <1>3, OracleAssumption DEF Time
<1>5. /\ t \in 1 .. Len(leaders) /\ leaders[t] = n /\ Asking(n) = {r} /\ t \in Nat /\ t # 0
      /\ request[r].before \subseteq Requests
      /\ \A q \in request[r].before : q \in Answered /\ request[q].term <= t
  <2>1. t \in Nat /\ request[r].before \subseteq Requests
    BY <1>1 DEF Types, RequestTypes
  <2>2. /\ t \in 1 .. Len(leaders) /\ leaders[t] = n /\ Asking(n) = {r}
        /\ \A q \in request[r].before : q \in Answered /\ request[q].term <= t
    BY DEF IInv, AskedInv
  <2>3. t # 0
    BY <2>2
  <2> QED BY <2>1, <2>2, <2>3
<1>6. /\ answer.pc = "answered" /\ answer.term = t /\ answer.before = request[r].before
      /\ answer.ts = ts
  OBVIOUS
<1>7. RequestTypes(answer)
  BY <1>4, <1>5, <1>6 DEF RequestTypes
<1>8. request'[r] = answer /\ \A q \in Requests : q # r => request'[q] = request[q]
  BY <1>1 DEF Types
<1> HIDE DEF answer
<1>9. /\ reserved'[n].next = ts + 1 /\ reserved'[n].term = t /\ reserved'[n].end = own.end
      /\ \A m \in Nodes : m # n => reserved'[m] = reserved[m]
  BY <1>1, <1>2 DEF Types
<1>10. Types'
  <2>1. \A q \in Requests : RequestTypes(request'[q])
    BY <1>1, <1>7, <1>8 DEF Types
  <2>2. request' = [q \in Requests |-> request'[q]]
    BY <1>1 DEF Types
  <2>3. reserved' \in [Nodes -> [term : Nat, next : Time, end : Time]]
    <3>1. [own EXCEPT !.next = ts + 1] \in [term : Nat, next : Time, end : Time]
      BY <1>1, <1>4 DEF Types
    <3>2. reserved' = [reserved EXCEPT ![n] = [own EXCEPT !.next = ts + 1]]
      OBVIOUS
    <3> HIDE DEF own
    <3> QED BY <1>1, <3>1, <3>2 DEF Types
  <2> QED BY <1>1, <2>1, <2>2, <2>3 DEF Types, raftVars
<1>11. Kept
  BY <1>1, <1>10, RaftKept
<1>12. /\ Answered' = Answered \cup {r} /\ r \notin Answered
       /\ \A q \in Answered : request'[q] = request[q] /\ q # r
       /\ \A m \in Nodes : Asking(m)' = Asking(m) \ {r}
       /\ leaders' = leaders /\ log' = log /\ Positions' = Positions
  BY <1>6, <1>8 DEF Answered, Asking, raftVars, Positions
<1>13. NodeReserved(n)
  BY DEF IInv, ReservedInv
<1>14. \A q \in Answered : request[q].term = t => request[q].ts < ts
  <2>1. \A q \in Answered : request[q].term = t => request[q].ts < own.next
    BY <1>2, <1>5, <1>13 DEF NodeReserved
  <2>2. \A q \in Answered : request[q].ts \in Nat
    BY <1>1, TimeIsNat DEF Types, RequestTypes, Answered
  <2> QED BY <1>2, <1>3, <2>1, <2>2
<1>15. LogInv' /\ AppInv'
  BY <1>1, <1>10, <1>11, LogUnchanged, AppKept DEF IInv, appVars
<1>16. \A k \in Positions : log[k].upto \in Nat /\ log[k].term \in Nat
  BY <1>1, EntryFields, TimeIsNat DEF Types, Positions
<1>17. \E k \in Positions : own.end <= log[k].upto /\ log[k].term <= t
  <2>1. ~Stale(n, t)
    BY <1>5 DEF Stale
  <2> QED BY <1>2, <1>3, <1>5, <1>13, <2>1 DEF NodeReserved, ReservedBelow
<1>18. Lies(r)'
  <2>1. \E k \in Positions : log[k].term >= t
    BY <1>2, <1>5, <1>13 DEF NodeReserved
  <2>2. \E k \in Positions : log[k].term <= t /\ ts < log[k].upto
    BY <1>2, <1>3, <1>16, <1>17
  <2>3. \A k \in Positions : log[k].term < t => log[k].upto <= ts
    BY <1>2, <1>3, <1>5, <1>13, <1>16 DEF NodeReserved
  <2> HIDE DEF t
  <2> QED BY <1>5, <1>6, <1>8, <1>12, <2>1, <2>2, <2>3 DEF Lies
<1>19. AnsweredInv'
  <2> SUFFICES ASSUME NEW p \in Answered'
      PROVE  /\ Lies(p)'
             /\ \A q \in Answered' : q # p /\ request'[q].term = request'[p].term =>
                  request'[q].ts # request'[p].ts
             /\ \A q \in request'[p].before : q \in Answered' /\ request'[q].ts < request'[p].ts
    BY DEF AnsweredInv
  <2>1. CASE p = r
    <3>1. ASSUME NEW q \in Answered', q # p, request'[q].term = request'[p].term
          PROVE  request'[q].ts # request'[p].ts
      <4>1. q \in Answered /\ request[q].term = t /\ request'[q] = request[q] /\ request[q].ts \in Nat
        BY <1>1, <1>6, <1>8, <1>12, <2>1, <3>1, TimeIsNat DEF Types, RequestTypes, Answered
      <4> QED BY <1>3, <1>6, <1>8, <1>14, <2>1, <4>1
    <3>2. ASSUME NEW q \in request[r].before
          PROVE  q \in Answered /\ request[q].ts < ts
      <4>1. q \in Answered /\ request[q].term <= t
        BY <1>5
      <4>2. request[q].term \in Nat /\ request[q].ts \in Nat
        BY <1>1, <4>1, TimeIsNat DEF Types, RequestTypes, Answered
      <4>3. CASE request[q].term = t
        BY <1>14, <4>1, <4>3
      <4>4. CASE request[q].term < t
        <5>1. \E k \in Positions : log[k].term <= request[q].term /\ request[q].ts < log[k].upto
          BY <1>1, <4>1 DEF AnsweredInv, Lies
        <5>2. \A k \in Positions : log[k].term < t => log[k].upto <= ts
          BY <1>2, <1>3, <1>5, <1>13, <1>16 DEF NodeReserved
        <5> HIDE DEF t
        <5> QED BY <1>1, <1>3, <1>5, <4>2, <4>4, <5>1, <5>2, TermsInOrder
      <4> QED BY <1>5, <4>1, <4>2, <4>3, <4>4
    <3> QED BY <1>6, <1>8, <1>12, <1>18, <2>1, <3>1, <3>2
  <2>2. CASE p # r
    <3>1. p \in Answered /\ request'[p] = request[p] /\ p \in Requests
      BY <1>12, <2>2 DEF Answered
    <3>2. Lies(p) /\ Lies(p)'
      BY <1>1, <1>12, <3>1 DEF AnsweredInv, Lies
    <3>3. ASSUME NEW q \in Answered', q # p, request'[q].term = request'[p].term
          PROVE  request'[q].ts # request'[p].ts
      <4>1. CASE q = r
        <5>1. request[p].ts < ts /\ request[p].ts \in Nat
          BY <1>1, <1>6, <1>8, <1>14, <3>1, <3>3, <4>1, TimeIsNat DEF Types, RequestTypes, Answered
        <5> QED BY <1>3, <1>6, <1>8, <3>1, <4>1, <5>1
      <4>2. CASE q # r
        BY <1>1, <1>12, <3>1, <3>3, <4>2 DEF AnsweredInv
      <4> QED BY <4>1, <4>2
    <3>4. \A q \in request'[p].before : q \in Answered' /\ request'[q].ts < request'[p].ts
      BY <1>1, <1>12, <3>1 DEF AnsweredInv
    <3> QED BY <3>2, <3>3, <3>4
  <2> QED BY <2>1, <2>2
<1>20. AskedInv'
  <2> SUFFICES ASSUME NEW p \in Requests, request'[p].pc = "asked"
      PROVE  /\ Asking(request[p].node)' = {p}
             /\ request'[p].term \in 1 .. Len(leaders') /\ leaders'[request'[p].term] = request'[p].node
             /\ \A q \in request'[p].before : q \in Answered' /\ request'[q].term <= request'[p].term
    BY DEF AskedInv
  <2>1. p # r /\ request'[p] = request[p]
    BY <1>6, <1>8
  <2>2. /\ request[p].node \in Nodes /\ Asking(request[p].node) = {p}
        /\ request[p].term \in 1 .. Len(leaders) /\ leaders[request[p].term] = request[p].node
        /\ \A q \in request[p].before : q \in Answered /\ request[q].term <= request[p].term
    BY <1>1, <2>1 DEF IInv, AskedInv, Types, RequestTypes
  <2> QED BY <1>12, <2>1, <2>2
<1>21. ReservedInv'
  <2> SUFFICES ASSUME NEW m \in Nodes PROVE NodeReserved(m)'
    BY DEF ReservedInv
  <2>1. NodeReserved(m)
    BY DEF IInv, ReservedInv
  <2>2. \A u : Stale(m, u) => Stale(m, u)'
    BY <1>8, <1>12 DEF Stale, Asking
  <2>3. reserved'[m].term = reserved[m].term /\ reserved'[m].end = reserved[m].end
    BY <1>2, <1>9
  <2>4. ASSUME reserved[m].term # 0 PROVE ReservedBelow(m)'
    BY <1>12, <2>1, <2>2, <2>3, <2>4 DEF NodeReserved, ReservedBelow
  <2>5. ASSUME reserved[m].term # 0, NEW q \in Answered', request'[q].term = reserved[m].term
        PROVE  request'[q].ts < reserved'[m].next
    <3>1. CASE m = n
      <4>1. CASE q = r
        BY <1>3, <1>6, <1>8, <1>9, <3>1, <4>1
      <4>2. CASE q # r
        <5>1. q \in Answered /\ request'[q] = request[q] /\ request[q].ts \in Nat
          BY <1>1, <1>12, <4>2, TimeIsNat DEF Types, RequestTypes, Answered
        <5> QED BY <1>2, <1>3, <1>9, <1>14, <2>5, <3>1, <5>1
      <4> QED BY <4>1, <4>2
    <3>2. CASE m # n
      <4>1. q # r
        BY <1>5, <1>6, <1>8, <2>1, <2>5, <3>2 DEF NodeReserved
      <4> QED BY <1>9, <1>12, <2>1, <2>5, <3>2, <4>1 DEF NodeReserved
    <3> QED BY <3>1, <3>2
  <2>6. ASSUME reserved[m].term # 0, NEW k \in Positions, log[k].term < reserved[m].term
        PROVE  log[k].upto <= reserved'[m].next
    <3>1. log[k].upto <= reserved[m].next
      BY <2>1, <2>6 DEF NodeReserved
    <3>2. CASE m = n
      BY <1>2, <1>3, <1>9, <1>16, <3>1, <3>2
    <3>3. CASE m # n
      BY <1>9, <3>1, <3>3
    <3> QED BY <3>2, <3>3
  <2> HIDE DEF own, t
  <2> QED BY <1>12, <2>1, <2>3, <2>4, <2>5, <2>6 DEF NodeReserved
<1>22. RefillInv'
  <2> SUFFICES ASSUME NEW m \in Nodes PROVE NodeRefill(m)'
    BY DEF RefillInv
  <2>1. NodeRefill(m)
    BY DEF IInv, RefillInv
  <2>2. /\ reserved'[m].term = reserved[m].term /\ reserved'[m].end = reserved[m].end
        /\ refill' = refill /\ leads' = leads /\ wrote' = wrote
    BY <1>2, <1>9 DEF raftVars
  <2>3. ASSUME refill[m].pc # "idle", refill[m].term = t
        PROVE  m = n
    BY <1>5, <2>1, <2>3 DEF NodeRefill
  <2>4. ASSUME refill[m].pc = "waiting", NEW i \in Positions, Precedes(m, i)
        PROVE  Precedes(m, i)'
    <3>1. ASSUME NEW q \in Answered', request'[q].term = refill[m].term
          PROVE  \E j \in 1 .. i - 1 : request'[q].ts < log[j].upto
      <4>1. CASE q = r
        <5>1. m = n /\ refill[m].term = t
          BY <1>6, <1>8, <2>3, <2>4, <3>1, <4>1
        <5>2. PICK j \in 1 .. i - 1 : own.end <= log[j].upto
          BY <1>2, <1>3, <2>4, <5>1 DEF Precedes
        <5>3. log[j].upto \in Nat
          BY <1>1, <1>16 DEF Positions, Types
        <5> QED BY <1>2, <1>3, <1>6, <1>8, <4>1, <5>2, <5>3
      <4>2. CASE q # r
        BY <1>12, <2>4, <3>1, <4>2 DEF Precedes
      <4> QED BY <4>1, <4>2
    <3> QED BY <1>12, <2>2, <2>4, <3>1 DEF Precedes
  <2>5. ASSUME refill[m].pc = "waiting" PROVE WaitingInv(m)'
    BY <1>12, <2>1, <2>2, <2>4, <2>5 DEF NodeRefill, WaitingInv, Awaits
  <2>6. ASSUME refill[m].pc = "installing" PROVE InstallingInv(m)'
    <3>1. InstallingInv(m)
      BY <2>1, <2>6 DEF NodeRefill
    <3>2. ASSUME NEW q \in Answered', request'[q].term = refill[m].term
          PROVE  request'[q].ts < refill[m].interval.start
      <4>1. CASE q = r
        <5>1. m = n /\ refill[m].term = t
          BY <1>6, <1>8, <2>3, <2>6, <3>2, <4>1
        <5>2. own.end <= refill[m].interval.start /\ refill[m].interval.start \in Nat
          BY <1>1, <1>2, <2>6, <3>1, <5>1, TimeIsNat DEF InstallingInv, Types, RefillTypes
        <5> QED BY <1>2, <1>3, <1>6, <1>8, <4>1, <5>2
      <4>2. CASE q # r
        BY <1>12, <3>1, <3>2, <4>2 DEF InstallingInv
      <4> QED BY <4>1, <4>2
    <3> QED BY <1>12, <2>2, <3>1, <3>2 DEF InstallingInv, Reaches
  <2> QED BY <1>12, <2>1, <2>2, <2>5, <2>6 DEF NodeRefill
<1> QED BY <1>10, <1>15, <1>19, <1>20, <1>21, <1>22 DEF IInv

LEMMA TakeKeeps ==
  ASSUME IInv, NEW r \in Requests, Take(r)
  PROVE  IInv'
<1> DEFINE n == request[r].node
<1>1. request[r].pc = "asked" /\ UNCHANGED raftVars /\ UNCHANGED <<applied, state, refill>>
  BY DEF Take, appVars
<1>2. n \in Nodes
  BY <1>1 DEF IInv, Types, RequestTypes
<1>3. PICK now \in Clock :
        LET ts == Larger(now, reserved[n].next)
        IN  IF Takes(reserved[n], request[r].term, ts)
            THEN /\ reserved' = [reserved EXCEPT ![n].next = ts + 1]
                 /\ request' = [request EXCEPT ![r] =
                      [pc |-> "answered", term |-> request[r].term,
                       before |-> request[r].before, ts |-> ts]]
            ELSE request' = [request EXCEPT ![r] = Unasked] /\ UNCHANGED reserved
  BY DEF Take
<1>4. now \in Time
  BY OracleAssumption DEF Time
<1> DEFINE ts == Larger(now, reserved[n].next)
<1>5. CASE Takes(reserved[n], request[r].term, ts)
  BY <1>1, <1>2, <1>3, <1>4, <1>5, TakenKeeps
<1>6. CASE ~Takes(reserved[n], request[r].term, ts)
  BY <1>1, <1>3, <1>6, RefusedKeeps
<1> QED BY <1>5, <1>6

LEMMA AskFailsKeeps ==
  ASSUME IInv, NEW r \in Requests, AskFails(r)
  PROVE  IInv'
BY RefusedKeeps DEF AskFails, appVars

-----------------------------------------------------------------------------
(* The invariant of the specification.                                     *)

LEMMA InitHolds == Init => IInv
<1> SUFFICES ASSUME Init PROVE IInv
  OBVIOUS
<1>1. /\ leaders = <<>> /\ wrote = <<>> /\ log = <<>> /\ Len(leaders) = 0 /\ Len(log) = 0
      /\ \A n \in Nodes : /\ leads[n] = 0 /\ applied[n] = 0 /\ state[n] = 0
                          /\ reserved[n] = Unreserved /\ refill[n] = Idle
      /\ \A r \in Requests : request[r] = Unasked
  BY DEF Init
<1>2. Types
  <2>1. 0 \in Time
    BY OracleAssumption DEF Time
  <2>2. RefillTypes(Idle) /\ RequestTypes(Unasked)
    BY DEF RefillTypes, RequestTypes, Idle, Unasked
  <2>3. leaders \in Seq(Nodes) /\ wrote \in Seq(Seq(Time)) /\ log \in Seq(Entry) /\ Len(wrote) = Len(leaders)
    BY <1>1
  <2>4. Unreserved \in [term : Nat, next : Time, end : Time]
    BY <2>1 DEF Unreserved
  <2> QED BY <1>1, <2>1, <2>2, <2>3, <2>4 DEF Types, Init
<1>3. Positions = {} /\ Answered = {}
  BY <1>1 DEF Positions, Answered, Unasked
<1>4. LogInv
  BY <1>1, <1>3 DEF LogInv
<1>5. AppInv
  <2>1. \A j \in 1 .. 0 : FALSE
    OBVIOUS
  <2>2. Mark(0, 0)
    BY <2>1 DEF Mark
  <2> SUFFICES ASSUME NEW n \in Nodes PROVE applied[n] <= Len(log) /\ Mark(applied[n], state[n])
    BY DEF AppInv
  <2>3. applied[n] = 0 /\ state[n] = 0 /\ Len(log) = 0
    BY <1>1
  <2>4. applied[n] <= Len(log)
    BY <2>3
  <2> QED BY <2>2, <2>3, <2>4
<1>6. RefillInv /\ ReservedInv
  BY <1>1 DEF RefillInv, NodeRefill, Idle, ReservedInv, NodeReserved, Unreserved
<1>7. AskedInv /\ AnsweredInv
  BY <1>1, <1>3 DEF AskedInv, AnsweredInv, Unasked
<1> QED BY <1>2, <1>4, <1>5, <1>6, <1>7 DEF IInv

LEMMA NextKeeps == IInv /\ [Next]_vars => IInv'
<1> SUFFICES ASSUME IInv, [Next]_vars PROVE IInv'
  OBVIOUS
<1>1. ASSUME CommitWrite PROVE IInv'
  BY <1>1, CommitWriteKeeps
<1>2. ASSUME NEW t \in 1 .. Len(leaders), CommitBlank(t) PROVE IInv'
  BY <1>2, CommitBlankKeeps
<1>3. ASSUME NEW n \in Nodes, Elect(n) PROVE IInv'
  BY <1>3, ElectKeeps
<1>4. ASSUME NEW n \in Nodes, StepDown(n) PROVE IInv'
  BY <1>4, StepDownKeeps
<1>5. ASSUME NEW n \in Nodes, Apply(n) PROVE IInv'
  BY <1>5, ApplyKeeps
<1>6. ASSUME NEW n \in Nodes, Stop(n) PROVE IInv'
  BY <1>6, StopKeeps
<1>7. ASSUME NEW n \in Nodes, RefillAsks(n) PROVE IInv'
  BY <1>7, RefillAsksKeeps
<1>8. ASSUME NEW n \in Nodes, RefillLooks(n) PROVE IInv'
  BY <1>8, RefillLooksKeeps
<1>9. ASSUME NEW n \in Nodes, RefillWrites(n) PROVE IInv'
  BY <1>9, RefillWritesKeeps
<1>10. ASSUME NEW n \in Nodes, RefillFails(n) PROVE IInv'
  BY <1>10, RefillFailsKeeps
<1>11. ASSUME NEW n \in Nodes, RefillInstalls(n) PROVE IInv'
  BY <1>11, RefillInstallsKeeps
<1>12. ASSUME NEW r \in Requests, NEW n \in Nodes, Ask(r, n) PROVE IInv'
  BY <1>12, AskKeeps
<1>13. ASSUME NEW r \in Requests, Take(r) PROVE IInv'
  BY <1>13, TakeKeeps
<1>14. ASSUME NEW r \in Requests, AskFails(r) PROVE IInv'
  BY <1>14, AskFailsKeeps
<1>15. ASSUME UNCHANGED vars PROVE IInv'
  <2>1. UNCHANGED raftVars /\ UNCHANGED <<applied, state, reserved, refill, request>>
    BY <1>15 DEF vars, appVars
  <2>2. Types /\ Types'
    BY <2>1 DEF IInv, Types, raftVars
  <2>3. Kept
    BY <2>1, <2>2, RaftKept
  <2>4. AskedInv' /\ SameAnswers /\ \A m \in Nodes : NewAsking(m)
    BY <2>1, AskedUnchanged DEF IInv, raftVars
  <2>5. LogInv' /\ AppInv'
    BY <2>1, <2>2, <2>3, LogUnchanged, AppKept DEF IInv, appVars
  <2>6. RefillInv'
    BY <2>1, <2>2, <2>3, <2>4, RefillKept DEF IInv, RefillInv, raftVars
  <2>7. ReservedInv'
    BY <2>1, <2>2, <2>3, <2>4, ReservedKept DEF IInv, ReservedInv
  <2>8. AnsweredInv'
    BY <2>2, <2>3, <2>4, AnsweredKept DEF IInv
  <2> QED BY <2>2, <2>4, <2>5, <2>6, <2>7, <2>8 DEF IInv
<1> QED BY <1>1, <1>2, <1>3, <1>4, <1>5, <1>6, <1>7, <1>8, <1>9, <1>10, <1>11, <1>12, <1>13, <1>14, <1>15 DEF Next

LEMMA Invariant == Spec => []IInv
<1> QED BY InitHolds, NextKeeps, PTL DEF Spec

\* The oracle's state is of its types, its log in the order of the terms,
\* and a node's lock has one holder.
THEOREM OracleTypes == Spec => []TypeOK
<1>1. IInv => TypeOK
  <2> SUFFICES ASSUME IInv PROVE TypeOK
    OBVIOUS
  <2>1. Types /\ LogInv /\ AppInv /\ AskedInv
    BY DEF IInv
  <2>2. leaders \in Seq(Nodes) /\ Len(wrote) = Len(leaders) /\ Len(leaders) \in Nat /\ Len(log) \in Nat
    BY <2>1 DEF Types
  <2>3. leads \in [Nodes -> 0 .. Len(leaders)]
    <3>1. leads = [n \in Nodes |-> leads[n]]
      BY <2>1 DEF Types
    <3>2. ASSUME NEW n \in Nodes PROVE leads[n] \in 0 .. Len(leaders)
      BY <2>1, <2>2 DEF Types, LogInv
    <3> QED BY <3>1, <3>2
  <2>4. \A i \in 1 .. Len(log) : log[i].term \in 1 .. Len(leaders) /\ log[i].upto \in 0 .. MaxTime
    BY <2>1, EntryFields DEF LogInv, Types, Positions, Time
  <2>5. \A i, j \in 1 .. Len(log) : i < j => log[i].term <= log[j].term
    BY <2>1 DEF LogInv, Positions
  <2>6. ASSUME NEW n \in Nodes
        PROVE  /\ applied[n] \in 0 .. Len(log) /\ state[n] \in 0 .. MaxTime
               /\ reserved[n].next \in 0 .. MaxTime /\ reserved[n].end \in 0 .. MaxTime
    BY <2>1, <2>2 DEF Types, AppInv, Time
  <2>7. ASSUME NEW n \in Nodes, NEW q \in Asking(n), NEW r \in Asking(n)
        PROVE  q = r
    BY <2>1 DEF AskedInv, Asking
  <2> QED BY <2>2, <2>3, <2>4, <2>5, <2>6, <2>7 DEF TypeOK
<1> QED BY <1>1, Invariant, PTL

\* Who asks after another was answered gets more: through any number of
\* leaders, stops and late commits, and whatever the clocks say.
THEOREM OracleInOrder == Spec => []InOrder
<1>1. IInv => InOrder
  BY DEF IInv, AnsweredInv, InOrder
<1> QED BY <1>1, Invariant, PTL

\* No timestamp is handed out twice: not within a term, where one cursor
\* climbs, and not in two, whose timestamps are in the order of the terms.
THEOREM OracleDistinct == Spec => []Distinct
<1>1. IInv => Distinct
  <2> SUFFICES ASSUME IInv, NEW q \in Answered, NEW r \in Answered, q # r
      PROVE  request[q].ts # request[r].ts
    BY DEF Distinct
  <2>1. Types /\ AnsweredInv /\ Lies(q) /\ Lies(r)
    BY DEF IInv, AnsweredInv
  <2>2. /\ request[q].term \in Nat /\ request[q].ts \in Nat
        /\ request[r].term \in Nat /\ request[r].ts \in Nat
    BY <2>1, TimeIsNat DEF Types, RequestTypes, Answered
  <2>3. CASE request[q].term = request[r].term
    BY <2>1, <2>3 DEF AnsweredInv
  <2>4. CASE request[q].term < request[r].term
    <3>1. request[q].ts < request[r].ts
      BY <2>1, <2>2, <2>4, TermsInOrder DEF Lies
    <3> QED BY <2>2, <3>1
  <2>5. CASE request[r].term < request[q].term
    <3>1. request[r].ts < request[q].ts
      BY <2>1, <2>2, <2>5, TermsInOrder DEF Lies
    <3> QED BY <2>2, <3>1
  <2> QED BY <2>2, <2>3, <2>4, <2>5
<1> QED BY <1>1, Invariant, PTL
=============================================================================
