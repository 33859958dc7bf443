---------------------- MODULE TimestampOracleMarks_proofs ----------------------
(***************************************************************************)
(* What the oracle's marks bound, for every number of nodes, requests,     *)
(* terms, writes and stops: how far timestamps run ahead of the clock, and *)
(* what a node that answers a linearizable read has applied.               *)
(***************************************************************************)
EXTENDS TimestampOracle_proofs

-----------------------------------------------------------------------------
(* No mark is further than a width ahead of the fastest clock.             *)

WroteFar == \A t \in 1 .. Len(wrote) : \A k \in 1 .. Len(wrote[t]) : wrote[t][k] <= fastest + Width

LogFar == \A k \in Positions : log[k].upto <= fastest + Width

NodeFar(n) ==
  /\ state[n] <= fastest + Width
  /\ reserved[n].end <= fastest + Width
  /\ refill[n].pc = "due" => refill[n].upto <= fastest + Width
  /\ refill[n].pc = "installing" => refill[n].interval.end <= fastest + Width

RequestFar(r) == request[r].pc = "answered" => request[r].ts < fastest + Width

FarInv ==
  /\ fastest \in Nat
  /\ WroteFar /\ LogFar
  /\ \A n \in Nodes : NodeFar(n)
  /\ \A r \in Requests : RequestFar(r)

LEMMA BoundMoves ==
  ASSUME NEW a \in Nat, NEW b \in Nat, b >= a, NEW w \in Nat, NEW x \in Nat
  PROVE  /\ x <= a + w => x <= b + w
         /\ x < a + w => x < b + w
OBVIOUS

\* The clocks only move the bound up, for whatever a step leaves alone.
LEMMA FarKept ==
  ASSUME Types, FarInv, fastest' \in Nat, fastest' >= fastest
  PROVE  /\ UNCHANGED wrote => WroteFar'
         /\ UNCHANGED log => LogFar'
         /\ \A n \in Nodes : UNCHANGED <<state[n], refill[n]>> /\ reserved'[n].end = reserved[n].end
              => NodeFar(n)'
         /\ \A r \in Requests : UNCHANGED request[r] => RequestFar(r)'
<1>1. fastest \in Nat /\ Width \in Nat
  BY OracleAssumption DEF FarInv
<1>2. \A x \in Nat : (x <= fastest + Width => x <= fastest' + Width)
                  /\ (x < fastest + Width => x < fastest' + Width)
  BY <1>1, BoundMoves
<1>3. ASSUME UNCHANGED wrote PROVE WroteFar'
  <2>1. \A t \in 1 .. Len(wrote) : wrote[t] \in Seq(Time)
    BY DEF Types
  <2>2. \A t \in 1 .. Len(wrote) : \A k \in 1 .. Len(wrote[t]) : wrote[t][k] \in Nat
    BY <2>1, TimeIsNat
  <2> QED BY <1>2, <1>3, <2>2 DEF FarInv, WroteFar
<1>4. ASSUME UNCHANGED log PROVE LogFar'
  <2>1. \A k \in Positions : log[k].upto \in Nat
    BY EntryFields, TimeIsNat DEF Types, Positions
  <2> QED BY <1>2, <1>4, <2>1 DEF FarInv, LogFar, Positions
<1>5. ASSUME NEW n \in Nodes, UNCHANGED <<state[n], refill[n]>>, reserved'[n].end = reserved[n].end
      PROVE  NodeFar(n)'
  <2>1. NodeFar(n) /\ RefillTypes(refill[n])
    BY DEF FarInv, Types
  <2>2. state[n] \in Nat /\ reserved[n].end \in Nat
    BY TimeIsNat DEF Types
  <2>3. /\ refill[n].pc = "due" => refill[n].upto \in Nat
        /\ refill[n].pc = "installing" => refill[n].interval.end \in Nat
    BY <2>1, TimeIsNat DEF RefillTypes
  <2> QED BY <1>2, <1>5, <2>1, <2>2, <2>3 DEF NodeFar
<1>6. ASSUME NEW r \in Requests, UNCHANGED request[r] PROVE RequestFar(r)'
  <2>1. request[r].pc = "answered" => request[r].ts \in Nat
    BY TimeIsNat DEF Types, RequestTypes
  <2> QED BY <1>2, <1>6, <2>1 DEF FarInv, RequestFar
<1> QED BY <1>3, <1>4, <1>5, <1>6

\* A clock is read: the bound for what was reserved up to a width ahead of it.
LEMMA ReadsFar ==
  ASSUME FarInv, NEW now, Reads(now)
  PROVE  /\ now \in Nat /\ fastest' \in Nat /\ fastest' >= fastest /\ fastest' >= now
         /\ Saturated(now + Width) <= fastest' + Width
<1>1. fastest \in Nat /\ now \in Nat /\ Width \in Nat /\ MaxTime \in Nat
  BY OracleAssumption DEF FarInv, Reads
<1>2. fastest' = Larger(fastest, now)
  BY DEF Reads
<1>3. fastest' \in Nat /\ fastest' >= fastest /\ fastest' >= now
  BY <1>1, <1>2 DEF Larger
<1>4. Saturated(now + Width) \in Nat /\ Saturated(now + Width) <= now + Width
  BY <1>1 DEF Saturated
<1> QED BY <1>1, <1>3, <1>4, BoundMoves

\* One entry is committed, not further ahead than the others.
LEMMA CommitFar ==
  ASSUME Types, FarInv, NEW e \in Entry, e.upto <= fastest + Width, log' = Append(log, e),
         UNCHANGED <<wrote, state, reserved, refill, request, fastest>>
  PROVE  FarInv'
<1>1. fastest' \in Nat /\ fastest' >= fastest
  BY DEF FarInv
<1>2. LogFar'
  <2> SUFFICES ASSUME NEW k \in Positions' PROVE log'[k].upto <= fastest + Width
    BY DEF LogFar
  <2>1. log \in Seq(Entry) /\ Len(log) \in Nat /\ k \in 1 .. Len(log) + 1
    BY DEF Types, Positions
  <2>2. CASE k \in 1 .. Len(log)
    <3>1. log'[k] = log[k] /\ k \in Positions
      BY <2>1, <2>2 DEF Positions
    <3> QED BY <3>1 DEF FarInv, LogFar
  <2>3. CASE k = Len(log) + 1
    <3>1. log'[k] = e
      BY <2>1, <2>3
    <3> QED BY <3>1
  <2> QED BY <2>1, <2>2, <2>3
<1> QED BY <1>1, <1>2, FarKept DEF FarInv

\* One node's reserver task or state takes a step, with the bound where it is
\* or with a clock read.
LEMMA NodeStepFar ==
  ASSUME Types, FarInv, fastest' \in Nat, fastest' >= fastest, NEW n \in Nodes, NodeFar(n)',
         \A m \in Nodes : m # n => UNCHANGED <<state[m], reserved[m], refill[m]>>,
         UNCHANGED <<wrote, log, request>>
  PROVE  FarInv'
<1>1. \A m \in Nodes : NodeFar(m)'
  <2> SUFFICES ASSUME NEW m \in Nodes, m # n PROVE NodeFar(m)'
    OBVIOUS
  <2> QED BY FarKept
<1> QED BY <1>1, FarKept DEF FarInv

LEMMA NextFar == Types /\ LogInv /\ FarInv /\ [Next]_vars => FarInv'
<1> SUFFICES ASSUME Types, LogInv, FarInv, [Next]_vars PROVE FarInv'
  OBVIOUS
<1> USE DEF appVars, raftVars
<1>1. fastest \in Nat /\ Width \in Nat
  BY OracleAssumption DEF FarInv
<1>2. ASSUME CommitWrite PROVE FarInv'
  <2> DEFINE t == LastTerm
             k == log[Len(log)].at + 1
             e == [term |-> t, at |-> k, upto |-> wrote[t][k]]
  <2>1. /\ log # <<>> /\ k <= Len(wrote[t]) /\ log' = Append(log, e)
        /\ UNCHANGED <<wrote, state, reserved, refill, request, fastest>>
    BY <1>2 DEF CommitWrite
  <2>2. Len(log) \in Positions /\ t = log[Len(log)].term
    BY <2>1 DEF Types, Positions, LastTerm
  <2>3. log[Len(log)].at \in Nat /\ t \in Nat
    BY <2>2, EntryFields DEF Types, Positions
  <2>4. t \in 1 .. Len(wrote)
    BY <2>2 DEF LogInv, Types
  <2>5. wrote[t] \in Seq(Time)
    BY <2>4 DEF Types
  <2>6. k \in 1 .. Len(wrote[t])
    BY <2>1, <2>3, <2>5
  <2>7. e \in Entry /\ e.upto <= fastest + Width
    BY <2>3, <2>4, <2>5, <2>6 DEF Entry, FarInv, WroteFar
  <2> HIDE DEF e
  <2> QED BY <2>1, <2>7, CommitFar
<1>3. ASSUME NEW t \in 1 .. Len(leaders), CommitBlank(t) PROVE FarInv'
  <2> DEFINE e == [term |-> t, at |-> 0, upto |-> 0]
  <2>1. /\ log' = Append(log, e)
        /\ UNCHANGED <<wrote, state, reserved, refill, request, fastest>>
    BY <1>3 DEF CommitBlank
  <2>2. e \in Entry /\ e.upto <= fastest + Width
    BY <1>1, OracleAssumption DEF Entry, Time
  <2> HIDE DEF e
  <2> QED BY <2>1, <2>2, CommitFar
<1>4. ASSUME NEW n \in Nodes, Elect(n) PROVE FarInv'
  <2>1. wrote' = Append(wrote, <<>>) /\ UNCHANGED <<log, state, reserved, refill, request, fastest>>
    BY <1>4 DEF Elect
  <2>2. wrote \in Seq(Seq(Time))
    BY DEF Types
  <2>3. WroteFar'
    <3> SUFFICES ASSUME NEW t \in 1 .. Len(wrote'), NEW k \in 1 .. Len(wrote'[t])
        PROVE  wrote'[t][k] <= fastest + Width
      BY <2>1 DEF WroteFar
    <3>1. CASE t \in 1 .. Len(wrote)
      <4>1. wrote'[t] = wrote[t]
        BY <2>1, <2>2, <3>1
      <4> QED BY <3>1, <4>1 DEF FarInv, WroteFar
    <3>2. CASE t = Len(wrote) + 1
      <4>1. wrote'[t] = <<>>
        BY <2>1, <2>2, <3>2
      <4> QED BY <4>1
    <3>3. t \in 1 .. Len(wrote) \/ t = Len(wrote) + 1
      BY <2>1, <2>2
    <3> QED BY <3>1, <3>2, <3>3
  <2> QED BY <1>1, <2>1, <2>3, FarKept DEF FarInv
<1>5. ASSUME NEW n \in Nodes, StepDown(n) PROVE FarInv'
  <2>1. UNCHANGED <<wrote, log, state, reserved, refill, request, fastest>>
    BY <1>5 DEF StepDown
  <2> QED BY <1>1, <2>1, FarKept DEF FarInv
<1>6. ASSUME NEW n \in Nodes, Apply(n) PROVE FarInv'
  <2> DEFINE i == applied[n] + 1
             interval == ApplyReserve(state[n], log[i].upto)
             f == [pc |-> "installing", term |-> refill[n].term, interval |-> interval]
  <2>1. /\ applied[n] < Len(log)
        /\ state' = [state EXCEPT ![n] = interval.end]
        /\ IF Awaits(n, log[i]) THEN refill' = [refill EXCEPT ![n] = f] ELSE UNCHANGED refill
        /\ UNCHANGED <<wrote, log, reserved, request, fastest>>
    BY <1>6 DEF Apply
  <2>2. i \in Positions
    BY <2>1 DEF Types, Positions
  <2>3. interval.end <= fastest + Width
    BY <2>2 DEF FarInv, LogFar, NodeFar, ApplyReserve, Larger
  <2>4. f.pc = "installing" /\ f.interval.end = interval.end
    OBVIOUS
  <2> HIDE DEF interval, i
  <2>5. state'[n] = interval.end /\ refill'[n] \in {f, refill[n]}
    BY <2>1 DEF Types
  <2> HIDE DEF f
  <2>6. NodeFar(n)'
    BY <2>1, <2>3, <2>4, <2>5 DEF FarInv, NodeFar
  <2>7. \A m \in Nodes : m # n => UNCHANGED <<state[m], reserved[m], refill[m]>>
    BY <2>1 DEF Types
  <2> QED BY <1>1, <2>1, <2>6, <2>7, NodeStepFar
<1>7. ASSUME NEW n \in Nodes, Stop(n) PROVE FarInv'
  <2>1. /\ reserved' = [reserved EXCEPT ![n] = Unreserved]
        /\ refill' = [refill EXCEPT ![n] = Idle]
        /\ request' = [r \in Requests |-> IF r \in Asking(n) THEN Unasked ELSE request[r]]
        /\ state' = [state EXCEPT ![n] = 0]
        /\ UNCHANGED <<wrote, log, fastest>>
    BY <1>7 DEF Stop
  <2>2. state'[n] = 0 /\ reserved'[n].end = 0 /\ refill'[n].pc = "idle"
    BY <2>1 DEF Types, Unreserved, Idle
  <2>3. NodeFar(n)'
    BY <1>1, <2>1, <2>2 DEF NodeFar
  <2>4. \A m \in Nodes : m # n => UNCHANGED <<state[m], reserved[m], refill[m]>>
    BY <2>1 DEF Types
  <2>5. \A r \in Requests : request'[r].pc = "answered" => UNCHANGED request[r]
    BY <2>1 DEF Unasked
  <2>6. \A r \in Requests : RequestFar(r)'
    BY <1>1, <2>1, <2>5, FarKept DEF RequestFar
  <2>7. \A m \in Nodes : NodeFar(m)'
    BY <1>1, <2>1, <2>3, <2>4, FarKept
  <2> QED BY <1>1, <2>1, <2>6, <2>7, FarKept DEF FarInv
<1>8. ASSUME NEW n \in Nodes, RefillAsks(n) PROVE FarInv'
  <2> DEFINE f == [pc |-> "asked", term |-> leads[n], anchor |-> Len(log)]
  <2>1. refill' = [refill EXCEPT ![n] = f] /\ UNCHANGED <<wrote, log, state, reserved, request, fastest>>
    BY <1>8 DEF RefillAsks
  <2>2. f.pc = "asked"
    OBVIOUS
  <2> HIDE DEF f
  <2>3. refill'[n].pc = "asked" /\ \A m \in Nodes : m # n => UNCHANGED refill[m]
    BY <2>1, <2>2 DEF Types
  <2>4. NodeFar(n)'
    BY <2>1, <2>3 DEF FarInv, NodeFar
  <2> QED BY <1>1, <2>1, <2>3, <2>4, NodeStepFar
<1>9. ASSUME NEW n \in Nodes, RefillLooks(n) PROVE FarInv'
  <2>1. PICK now \in Clock :
          /\ Reads(now)
          /\ refill' = [refill EXCEPT ![n] =
               IF Covers(reserved[n], refill[n].term, Saturated(now + Width \div 2)) THEN Idle
               ELSE [pc |-> "due", term |-> refill[n].term, upto |-> Saturated(now + Width)]]
    BY <1>9 DEF RefillLooks
  <2>2. UNCHANGED <<wrote, log, state, reserved, request>>
    BY <1>9 DEF RefillLooks
  <2>3. /\ fastest' \in Nat /\ fastest' >= fastest
        /\ Saturated(now + Width) <= fastest' + Width
    BY <2>1, ReadsFar
  <2>4. /\ refill'[n].pc \in {"idle", "due"}
        /\ refill'[n].pc = "due" => refill'[n].upto = Saturated(now + Width)
        /\ \A m \in Nodes : m # n => UNCHANGED refill[m]
    BY <2>1 DEF Types, Idle
  <2>5. state[n] <= fastest' + Width /\ reserved[n].end <= fastest' + Width
    <3>1. state[n] \in Nat /\ reserved[n].end \in Nat
      BY TimeIsNat DEF Types
    <3> QED BY <1>1, <2>3, <3>1 DEF FarInv, NodeFar
  <2>6. NodeFar(n)'
    BY <2>2, <2>3, <2>4, <2>5 DEF NodeFar
  <2> QED BY <2>2, <2>3, <2>4, <2>6, NodeStepFar
<1>10. ASSUME NEW n \in Nodes, RefillWrites(n) PROVE FarInv'
  <2> DEFINE t == leads[n]
             k == Len(wrote[t]) + 1
             f == [pc |-> "waiting", term |-> refill[n].term, wterm |-> t, at |-> k]
  <2>1. /\ refill[n].pc = "due" /\ t # 0
        /\ wrote' = [wrote EXCEPT ![t] = Append(wrote[t], refill[n].upto)]
        /\ refill' = [refill EXCEPT ![n] = f]
        /\ UNCHANGED <<log, state, reserved, request, fastest>>
    BY <1>10 DEF RefillWrites
  <2>2. t \in 1 .. Len(wrote) /\ wrote \in Seq(Seq(Time)) /\ wrote[t] \in Seq(Time)
    BY <2>1 DEF LogInv, Types
  <2>3. refill[n].upto <= fastest + Width
    BY <2>1 DEF FarInv, NodeFar
  <2>4. WroteFar'
    <3> SUFFICES ASSUME NEW s \in 1 .. Len(wrote'), NEW j \in 1 .. Len(wrote'[s])
        PROVE  wrote'[s][j] <= fastest + Width
      BY <2>1 DEF WroteFar
    <3>1. s \in 1 .. Len(wrote)
      BY <2>1, <2>2
    <3>2. CASE s # t
      <4>1. wrote'[s] = wrote[s]
        BY <2>1, <2>2, <3>1, <3>2
      <4> QED BY <3>1, <4>1 DEF FarInv, WroteFar
    <3>3. CASE s = t
      <4>1. wrote'[s] = Append(wrote[t], refill[n].upto)
        BY <2>1, <2>2, <3>3
      <4>2. CASE j \in 1 .. Len(wrote[t])
        <5>1. wrote'[s][j] = wrote[t][j]
          BY <2>2, <4>1, <4>2
        <5> QED BY <2>2, <4>2, <5>1 DEF FarInv, WroteFar
      <4>3. CASE j = Len(wrote[t]) + 1
        <5>1. wrote'[s][j] = refill[n].upto
          BY <2>2, <4>1, <4>3
        <5> QED BY <2>3, <5>1
      <4>4. j \in 1 .. Len(wrote[t]) \/ j = Len(wrote[t]) + 1
        BY <2>2, <4>1
      <4> QED BY <4>2, <4>3, <4>4
    <3> QED BY <3>2, <3>3
  <2>5. f.pc = "waiting"
    OBVIOUS
  <2> HIDE DEF f, k, t
  <2>6. refill'[n].pc = "waiting" /\ \A m \in Nodes : m # n => UNCHANGED refill[m]
    BY <2>1, <2>5 DEF Types
  <2>7. NodeFar(n)'
    BY <2>1, <2>6 DEF FarInv, NodeFar
  <2>8. \A m \in Nodes : NodeFar(m)'
    BY <1>1, <2>1, <2>6, <2>7, FarKept
  <2> QED BY <1>1, <2>1, <2>4, <2>8, FarKept DEF FarInv
<1>11. ASSUME NEW n \in Nodes, RefillFails(n) PROVE FarInv'
  <2>1. refill' = [refill EXCEPT ![n] = Idle] /\ UNCHANGED <<wrote, log, state, reserved, request, fastest>>
    BY <1>11 DEF RefillFails
  <2>2. refill'[n].pc = "idle" /\ \A m \in Nodes : m # n => UNCHANGED refill[m]
    BY <2>1 DEF Types, Idle
  <2>3. NodeFar(n)'
    BY <2>1, <2>2 DEF FarInv, NodeFar
  <2> QED BY <1>1, <2>1, <2>2, <2>3, NodeStepFar
<1>12. ASSUME NEW n \in Nodes, RefillInstalls(n) PROVE FarInv'
  <2>1. /\ refill[n].pc = "installing"
        /\ reserved' = [reserved EXCEPT ![n] = Install(@, refill[n].term, refill[n].interval)]
        /\ refill' = [refill EXCEPT ![n] = Idle]
        /\ UNCHANGED <<wrote, log, state, request, fastest>>
    BY <1>12 DEF RefillInstalls
  <2>2. reserved'[n].end = refill[n].interval.end /\ refill'[n].pc = "idle"
    BY <2>1 DEF Types, Install, Idle
  <2>3. \A m \in Nodes : m # n => UNCHANGED <<reserved[m], refill[m]>>
    BY <2>1 DEF Types
  <2>4. NodeFar(n)'
    BY <2>1, <2>2 DEF FarInv, NodeFar
  <2> QED BY <1>1, <2>1, <2>3, <2>4, NodeStepFar
<1>13. ASSUME NEW r \in Requests, NEW n \in Nodes, Ask(r, n) PROVE FarInv'
  <2> DEFINE q == [pc |-> "asked", node |-> n, term |-> leads[n], anchor |-> Len(log),
                   before |-> Answered, acked |-> acknowledged]
  <2>1. request' = [request EXCEPT ![r] = q] /\ UNCHANGED <<wrote, log, state, reserved, refill, fastest>>
    BY <1>13 DEF Ask
  <2>2. q.pc = "asked"
    OBVIOUS
  <2> HIDE DEF q
  <2>3. request'[r].pc = "asked" /\ \A p \in Requests : p # r => UNCHANGED request[p]
    BY <2>1, <2>2 DEF Types
  <2>4. \A p \in Requests : RequestFar(p)'
    <3>1. RequestFar(r)'
      BY <2>3 DEF RequestFar
    <3> QED BY <1>1, <2>1, <2>3, <3>1, FarKept
  <2> QED BY <1>1, <2>1, <2>4, FarKept DEF FarInv
<1>14. ASSUME NEW r \in Requests, Take(r) PROVE FarInv'
  <2> DEFINE n == request[r].node
  <2>1. UNCHANGED <<wrote, log, state, refill>> /\ request[r].pc = "asked"
    BY <1>14 DEF Take
  <2>2. PICK now \in Clock :
          /\ Reads(now)
          /\ LET ts == Larger(now, reserved[n].next)
             IN  IF Takes(reserved[n], request[r].term, ts)
                 THEN /\ reserved' = [reserved EXCEPT ![n].next = ts + 1]
                      /\ request' = [request EXCEPT ![r] =
                           [pc |-> "answered", term |-> request[r].term,
                            before |-> request[r].before, ts |-> ts]]
                 ELSE /\ request' = [request EXCEPT ![r] = Unasked]
                      /\ UNCHANGED reserved
    BY <1>14 DEF Take
  <2>3. fastest' \in Nat /\ fastest' >= fastest
    BY <2>2, ReadsFar
  <2>4. n \in Nodes
    BY <2>1 DEF Types, RequestTypes
  <2>5. \A m \in Nodes : reserved'[m].end = reserved[m].end
    <3>1. \/ \E x : reserved' = [reserved EXCEPT ![n].next = x]
          \/ reserved' = reserved
      BY <2>2
    <3>2. reserved \in [Nodes -> [term : Nat, next : Time, end : Time]]
      BY DEF Types
    <3> HIDE DEF n
    <3> QED BY <2>4, <3>1, <3>2
  <2>6. \A p \in Requests : p # r => UNCHANGED request[p]
    BY <2>2 DEF Types
  <2>7. RequestFar(r)'
    <3> DEFINE ts == Larger(now, reserved[n].next)
    <3>1. CASE Takes(reserved[n], request[r].term, ts)
      <4>1. request'[r].ts = ts
        BY <2>2, <3>1 DEF Types
      <4>2. ts < reserved[n].end /\ reserved[n].end <= fastest + Width
        BY <2>4, <3>1 DEF Takes, FarInv, NodeFar
      <4>3. now \in Nat /\ reserved[n].next \in Nat /\ reserved[n].end \in Nat
        BY <2>2, <2>4, ReadsFar, TimeIsNat DEF Types
      <4>4. ts \in Nat
        BY <4>3 DEF Larger
      <4> HIDE DEF ts, n
      <4>5. ts < fastest' + Width
        <5>1. ts < fastest + Width
          BY <1>1, <4>2, <4>3, <4>4
        <5> QED BY <1>1, <2>3, <4>4, <5>1, BoundMoves
      <4> QED BY <4>1, <4>5 DEF RequestFar
    <3>2. CASE ~Takes(reserved[n], request[r].term, ts)
      <4>1. request'[r] = Unasked
        BY <2>2, <3>2 DEF Types
      <4> QED BY <4>1 DEF RequestFar, Unasked
    <3> QED BY <3>1, <3>2
  <2>8. \A p \in Requests : RequestFar(p)'
    BY <2>3, <2>6, <2>7, FarKept
  <2> QED BY <2>1, <2>3, <2>5, <2>8, FarKept DEF FarInv
<1>15. ASSUME NEW r \in Requests, AskFails(r) PROVE FarInv'
  <2>1. request' = [request EXCEPT ![r] = Unasked] /\ UNCHANGED <<wrote, log, state, reserved, refill, fastest>>
    BY <1>15 DEF AskFails
  <2>2. request'[r] = Unasked /\ \A p \in Requests : p # r => UNCHANGED request[p]
    BY <2>1 DEF Types
  <2>3. \A p \in Requests : RequestFar(p)'
    <3>1. RequestFar(r)'
      BY <2>2 DEF RequestFar, Unasked
    <3> QED BY <1>1, <2>1, <2>2, <3>1, FarKept
  <2> QED BY <1>1, <2>1, <2>3, FarKept DEF FarInv
<1>16. ASSUME UNCHANGED vars PROVE FarInv'
  <2>1. UNCHANGED <<wrote, log, state, reserved, refill, request, fastest>>
    BY <1>16 DEF vars
  <2> QED BY <1>1, <2>1, FarKept DEF FarInv
<1> QED BY <1>2, <1>3, <1>4, <1>5, <1>6, <1>7, <1>8, <1>9, <1>10, <1>11, <1>12, <1>13, <1>14,
           <1>15, <1>16 DEF Next

\* Timestamps run less than a width ahead of the fastest clock, although a
\* mark may be raised by several leaders, some of them deposed.
THEOREM OracleNeverFarAhead == Spec => []NeverFarAhead
<1>1. Init => FarInv
  <2> SUFFICES ASSUME Init PROVE FarInv
    OBVIOUS
  <2>1. 0 <= 0 + Width /\ Width \in Nat
    BY OracleAssumption
  <2>2. WroteFar /\ LogFar
    BY DEF Init, WroteFar, LogFar, Positions
  <2>3. \A n \in Nodes : NodeFar(n)
    BY <2>1 DEF Init, NodeFar, Unreserved, Idle
  <2>4. \A r \in Requests : RequestFar(r)
    BY DEF Init, RequestFar, Unasked
  <2> QED BY <2>1, <2>2, <2>3, <2>4 DEF Init, FarInv
<1>2. IInv /\ FarInv /\ [Next]_vars => FarInv'
  BY NextFar DEF IInv
<1>3. FarInv => NeverFarAhead
  BY DEF FarInv, RequestFar, NeverFarAhead, Answered
<1> QED BY <1>1, <1>2, <1>3, Invariant, PTL DEF Spec

-----------------------------------------------------------------------------
(* A mark a write was answered with is in the committed log, below the     *)
(* anchor of every request that came after the answer.                     *)

InLog(m, i) == m = 0 \/ \E k \in 1 .. i : m <= log[k].upto

AskedBelow(r) ==
  request[r].pc = "asked" =>
    /\ request[r].anchor \in Nat /\ request[r].anchor <= Len(log)
    /\ request[r].acked \in Nat
    /\ InLog(request[r].acked, request[r].anchor)

AckInv ==
  /\ acknowledged \in Nat /\ InLog(acknowledged, Len(log))
  /\ \A r \in Requests : AskedBelow(r)

\* The log keeps what it has.
LogGrows ==
  /\ Len(log) \in Nat /\ Len(log') \in Nat /\ Len(log) <= Len(log')
  /\ \A k \in 1 .. Len(log) : log'[k] = log[k]

LEMMA NextGrows == Types /\ [Next]_vars => LogGrows
<1> SUFFICES ASSUME Types, [Next]_vars PROVE LogGrows
  OBVIOUS
<1>1. Len(log) \in Nat /\ log \in Seq(Entry)
  BY DEF Types
<1>2. ASSUME NEW e, log' = Append(log, e) PROVE LogGrows
  BY <1>1, <1>2 DEF LogGrows
<1>3. ASSUME UNCHANGED log PROVE LogGrows
  BY <1>1, <1>3 DEF LogGrows
<1>4. CASE CommitWrite
  BY <1>2, <1>4 DEF CommitWrite
<1>5. ASSUME NEW t \in 1 .. Len(leaders), CommitBlank(t) PROVE LogGrows
  BY <1>2, <1>5 DEF CommitBlank
<1>6. CASE UNCHANGED vars
  BY <1>3, <1>6 DEF vars, raftVars
<1>7. ASSUME NEW n \in Nodes, Elect(n) \/ StepDown(n) \/ RefillWrites(n) PROVE UNCHANGED log
  BY <1>7 DEF Elect, StepDown, RefillWrites
<1>8. ASSUME NEW n \in Nodes, Apply(n) \/ Stop(n) PROVE UNCHANGED log
  BY <1>8 DEF Apply, Stop, raftVars
<1>9. ASSUME NEW n \in Nodes, RefillAsks(n) \/ RefillLooks(n) \/ RefillFails(n) \/ RefillInstalls(n)
      PROVE  UNCHANGED log
  BY <1>9 DEF RefillAsks, RefillLooks, RefillFails, RefillInstalls, raftVars
<1>10. ASSUME NEW r \in Requests, NEW n \in Nodes, Ask(r, n) PROVE UNCHANGED log
  BY <1>10 DEF Ask, raftVars
<1>11. ASSUME NEW r \in Requests, AskFails(r) \/ Take(r) PROVE UNCHANGED log
  BY <1>11 DEF AskFails, Take, raftVars
<1> QED BY <1>3, <1>4, <1>5, <1>6, <1>7, <1>8, <1>9, <1>10, <1>11 DEF Next

LEMMA InLogKept ==
  ASSUME LogGrows, NEW m \in Nat, NEW i \in Nat, NEW j \in Nat, i <= Len(log), i <= j, InLog(m, i)
  PROVE  m = 0 \/ \E k \in 1 .. j : m <= log'[k].upto
<1> SUFFICES ASSUME m # 0 PROVE \E k \in 1 .. j : m <= log'[k].upto
  OBVIOUS
<1>1. PICK k \in 1 .. i : m <= log[k].upto
  BY DEF InLog
<1>2. k \in 1 .. j /\ k \in 1 .. Len(log)
  BY DEF LogGrows
<1> QED BY <1>1, <1>2 DEF LogGrows

\* A request that was under way is where it was, and no mark was acknowledged.
LEMMA AckKept ==
  ASSUME AckInv, LogGrows, UNCHANGED acknowledged,
         \A r \in Requests : UNCHANGED request[r] \/ request'[r].pc # "asked"
  PROVE  AckInv'
<1>1. acknowledged' \in Nat /\ InLog(acknowledged, Len(log))'
  <2>1. acknowledged \in Nat /\ InLog(acknowledged, Len(log)) /\ Len(log) \in Nat /\ Len(log') \in Nat
        /\ Len(log) <= Len(log') /\ Len(log) <= Len(log)
    BY DEF AckInv, LogGrows
  <2>2. acknowledged = 0 \/ \E k \in 1 .. Len(log') : acknowledged <= log'[k].upto
    BY <2>1, InLogKept
  <2> QED BY <2>1, <2>2 DEF InLog
<1>2. ASSUME NEW r \in Requests PROVE AskedBelow(r)'
  <2> SUFFICES ASSUME request'[r].pc = "asked" PROVE AskedBelow(r)'
    BY DEF AskedBelow
  <2>1. request'[r] = request[r] /\ AskedBelow(r)
    BY DEF AckInv
  <2>2. /\ request[r].anchor \in Nat /\ request[r].anchor <= Len(log)
        /\ request[r].acked \in Nat /\ InLog(request[r].acked, request[r].anchor)
    BY <2>1 DEF AskedBelow
  <2>3. InLog(request[r].acked, request[r].anchor)'
    <3>1. \/ request[r].acked = 0
          \/ \E k \in 1 .. request[r].anchor : request[r].acked <= log'[k].upto
      <4>1. request[r].anchor <= request[r].anchor
        BY <2>2
      <4> QED BY <2>2, <4>1, InLogKept
    <3> QED BY <2>1, <3>1 DEF InLog
  <2>4. request[r].anchor <= Len(log')
    BY <2>2 DEF LogGrows
  <2> QED BY <2>1, <2>2, <2>3, <2>4 DEF AskedBelow
<1> QED BY <1>1, <1>2 DEF AckInv

LEMMA NextAcks == Types /\ AppInv /\ AckInv /\ [Next]_vars => AckInv'
<1> SUFFICES ASSUME Types, AppInv, AckInv, [Next]_vars PROVE AckInv'
  OBVIOUS
<1>1. LogGrows
  BY NextGrows
<1>2. ASSUME UNCHANGED <<request, acknowledged>> PROVE AckInv'
  BY <1>1, <1>2, AckKept
<1>3. CASE CommitWrite
  BY <1>2, <1>3 DEF CommitWrite
<1>4. ASSUME NEW t \in 1 .. Len(leaders), CommitBlank(t) PROVE AckInv'
  BY <1>2, <1>4 DEF CommitBlank
<1>5. CASE UNCHANGED vars
  BY <1>2, <1>5 DEF vars
<1>6. ASSUME NEW n \in Nodes, Elect(n) \/ StepDown(n) \/ RefillWrites(n)
      PROVE  UNCHANGED <<request, acknowledged>>
  BY <1>6 DEF Elect, StepDown, RefillWrites
<1>7. ASSUME NEW n \in Nodes, RefillAsks(n) \/ RefillLooks(n) \/ RefillFails(n) \/ RefillInstalls(n)
      PROVE  UNCHANGED <<request, acknowledged>>
  BY <1>7 DEF RefillAsks, RefillLooks, RefillFails, RefillInstalls
<1>8. ASSUME NEW n \in Nodes, Apply(n) PROVE AckInv'
  <2> DEFINE i == applied[n] + 1
             mark == Larger(state[n], log[i].upto)
  <2>1. /\ applied[n] < Len(log) /\ UNCHANGED <<log, request>>
        /\ acknowledged' = Larger(acknowledged, mark) \/ UNCHANGED acknowledged
    BY <1>8 DEF Apply, ApplyReserve, raftVars
  <2>2. i \in Positions /\ i - 1 = applied[n] /\ i <= Len(log) /\ Len(log) \in Nat /\ i \in Nat
    BY <2>1 DEF Types, Positions
  <2>3. Mark(i, mark) /\ mark \in Time
    <3>1. state[n] \in Time /\ Mark(i - 1, state[n])
      BY <2>2 DEF Types, AppInv
    <3> QED BY <2>2, <3>1, MarkNext
  <2>4. mark \in Nat /\ InLog(mark, Len(log))
    <3> HIDE DEF mark
    <3>1. mark \in Nat
      BY <2>3, TimeIsNat
    <3>2. CASE mark = 0
      BY <3>1, <3>2 DEF InLog
    <3>3. CASE mark # 0
      <4>1. PICK k \in 1 .. i : log[k].upto = mark
        BY <2>3, <3>3 DEF Mark
      <4>2. k \in 1 .. Len(log) /\ mark <= log[k].upto
        BY <2>2, <3>1, <4>1
      <4> QED BY <3>1, <4>2 DEF InLog
    <3> QED BY <3>2, <3>3
  <2> HIDE DEF mark, i
  <2>5. acknowledged' \in Nat /\ InLog(acknowledged', Len(log))
    BY <2>1, <2>4 DEF AckInv, Larger
  <2>6. InLog(acknowledged, Len(log))'
    BY <2>1, <2>5 DEF InLog
  <2>7. \A r \in Requests : AskedBelow(r)'
    BY <2>1 DEF AckInv, AskedBelow, InLog
  <2> QED BY <2>5, <2>6, <2>7 DEF AckInv
<1>9. ASSUME NEW n \in Nodes, Stop(n) PROVE AckInv'
  <2>1. /\ request' = [r \in Requests |-> IF r \in Asking(n) THEN Unasked ELSE request[r]]
        /\ UNCHANGED acknowledged
    BY <1>9 DEF Stop
  <2>2. \A r \in Requests : UNCHANGED request[r] \/ request'[r].pc # "asked"
    BY <2>1 DEF Unasked
  <2> QED BY <1>1, <2>1, <2>2, AckKept
<1>10. ASSUME NEW r \in Requests, NEW n \in Nodes, Ask(r, n) PROVE AckInv'
  <2> DEFINE q == [pc |-> "asked", node |-> n, term |-> leads[n], anchor |-> Len(log),
                   before |-> Answered, acked |-> acknowledged]
  <2>1. request' = [request EXCEPT ![r] = q] /\ UNCHANGED <<log, acknowledged>>
    BY <1>10 DEF Ask, raftVars
  <2>2. q.anchor = Len(log) /\ q.acked = acknowledged /\ Len(log) \in Nat
    BY DEF Types
  <2> HIDE DEF q
  <2>3. request'[r] = q /\ \A p \in Requests : p # r => request'[p] = request[p]
    BY <2>1 DEF Types
  <2>4. AskedBelow(r)'
    BY <2>1, <2>2, <2>3 DEF AskedBelow, AckInv, InLog
  <2>5. ASSUME NEW p \in Requests, p # r PROVE AskedBelow(p)'
    BY <2>1, <2>3, <2>5 DEF AskedBelow, AckInv, InLog
  <2>6. InLog(acknowledged, Len(log))' /\ acknowledged' \in Nat
    BY <2>1 DEF AckInv, InLog
  <2> QED BY <2>4, <2>5, <2>6 DEF AckInv
<1>11. ASSUME NEW r \in Requests, AskFails(r) \/ Take(r) PROVE AckInv'
  <2>1. /\ UNCHANGED acknowledged
        /\ \/ \E ts : request' = [request EXCEPT ![r] =
                [pc |-> "answered", term |-> request[r].term, before |-> request[r].before, ts |-> ts]]
           \/ request' = [request EXCEPT ![r] = Unasked]
    BY <1>11 DEF AskFails, Take
  <2>2. \A p \in Requests : UNCHANGED request[p] \/ request'[p].pc # "asked"
    BY <2>1 DEF Types, Unasked
  <2> QED BY <1>1, <2>1, <2>2, AckKept
<1> QED BY <1>2, <1>3, <1>4, <1>5, <1>6, <1>7, <1>8, <1>9, <1>10, <1>11 DEF Next

\* A linearizable read sees every write acknowledged before it: whichever node
\* answered the write and whichever answers the read, after any number of
\* elections and restarts between them.
THEOREM OracleSeesAcknowledged == Spec => []SeesAcknowledged
<1>1. Init => AckInv
  BY DEF Init, AckInv, InLog, AskedBelow, Unasked
<1>2. IInv /\ AckInv /\ [Next]_vars => AckInv'
  BY NextAcks DEF IInv
<1>3. IInv /\ AckInv => SeesAcknowledged
  <2> SUFFICES ASSUME IInv, AckInv, NEW n \in Nodes, NEW r \in Asking(n), Reached(n, request[r])
      PROVE  state[n] >= request[r].acked
    BY DEF SeesAcknowledged, Read
  <2>1. Types /\ r \in Requests /\ request[r].pc = "asked" /\ Mark(applied[n], state[n])
    BY DEF IInv, Asking, AppInv
  <2>2. /\ request[r].anchor \in Nat /\ request[r].acked \in Nat /\ applied[n] \in Nat
        /\ request[r].anchor <= Len(log) /\ Len(log) \in Nat
        /\ InLog(request[r].acked, request[r].anchor)
    BY <2>1 DEF AckInv, AskedBelow, Types
  <2>3. state[n] \in Nat
    BY <2>1, TimeIsNat DEF Types
  <2>4. applied[n] >= request[r].anchor
    BY DEF Reached
  <2>5. CASE request[r].acked # 0
    <3>1. PICK k \in 1 .. request[r].anchor : request[r].acked <= log[k].upto
      BY <2>2, <2>5 DEF InLog
    <3>2. log[k].upto \in Nat
      BY <2>1, <2>2, EntryFields, TimeIsNat DEF Types
    <3>3. log[k].upto <= state[n]
      BY <2>1, <2>2, <2>4 DEF Mark
    <3> QED BY <2>2, <2>3, <3>1, <3>2, <3>3
  <2> QED BY <2>2, <2>3, <2>5
<1> QED BY <1>1, <1>2, <1>3, Invariant, PTL DEF Spec
=============================================================================
