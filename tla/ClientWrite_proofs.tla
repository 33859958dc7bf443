-------------------------- MODULE ClientWrite_proofs --------------------------
(* Theorems about the write path, for any machines, writes, terms and stops: forwarding climbs
   through the terms, no leader takes a write twice, and an answer is true. *)
EXTENDS ClientWrite, TLAPS

-----------------------------------------------------------------------------
(* The invariant, in parts. *)

Steps == {"submit", "appended", "waiting", "forwarded", "ok", "error"}
HandlerType == [at : Machines, via : Nat, attempt : 0 .. 1, step : Steps]
EntryType == [write : Writes, hop : Nat, attempt : 0 .. 1, term : Nat]

Types ==
    /\ leaders \in Seq(Machines)
    /\ view \in [Machines -> [term : Nat, sure : BOOLEAN]]
    /\ chain \in [Writes -> Seq(HandlerType)]
    /\ log \subseteq EntryType /\ applied \subseteq log
    /\ serving \subseteq Machines

(* A node knows every term it led, and is sure of none before the first. *)
ViewInv ==
    \A m \in Machines :
        /\ view[m].term <= Term
        /\ view[m].sure => view[m].term > 0
        /\ \A t \in 1 .. Term : leaders[t] = m => t <= view[m].term

(* A write is passed on to the leader of a later term, and only the last handler still tries. *)
LinkInv(w, k) ==
    /\ k - 1 <= chain[w][k].via /\ chain[w][k].via <= Term
    /\ k = 1 => chain[w][k].via = 0
    /\ k > 1 => chain[w][k].at = leaders[chain[w][k].via]
    /\ \A j \in 1 .. k - 1 : chain[w][j].via < chain[w][k].via
    /\ k < Len(chain[w]) => chain[w][k].step \in {"forwarded", "ok", "error"}
    /\ chain[w][k].step = "forwarded" => k < Len(chain[w])
    /\ chain[w][k].step = "waiting" => chain[w][k].attempt = 0

ChainInv == \A w \in Writes : \A k \in 1 .. Len(chain[w]) : LinkInv(w, k)

(* An entry was put into the log of its term's leader by a handler there; once the handler does
   not wait for it any more, that node has known a later term, or the next was told of one. *)
EntryInv(e) ==
    LET h == chain[e.write][e.hop]
    IN  /\ e.term \in 1 .. Term /\ e.hop \in 1 .. Len(chain[e.write])
        /\ h.at = leaders[e.term]
        /\ e.attempt <= h.attempt
        /\ e.attempt = h.attempt => h.step # "submit"
        /\ h.step = "waiting" \/ e.attempt < h.attempt => e.term < view[h.at].term
        /\ e.hop < Len(chain[e.write]) => e.term < chain[e.write][e.hop + 1].via

LogInv == (\A e \in log : EntryInv(e)) /\ NeverTwiceInOneTerm

OkInv ==
    \A w \in Writes : \A k \in 1 .. Len(chain[w]) :
        chain[w][k].step = "ok" => \E e \in applied : e.write = w

(* Terms are bounded by the elections held against a leader and the stops that ended one. *)
BoundInv ==
    /\ stops \in 0 .. MaxStops
    /\ Term <= MaxTerm + stops + 1
    /\ ~LeaderUp => Term <= MaxTerm + stops

IInv == Types /\ ViewInv /\ ChainInv /\ LogInv /\ OkInv /\ BoundInv

-----------------------------------------------------------------------------
(* One handler moves to another step, and nothing else of any chain changes. *)

Becomes(w, k, s, a) ==
    /\ chain' \in [Writes -> Seq(HandlerType)]
    /\ \A v \in Writes : Len(chain'[v]) = Len(chain[v])
    /\ \A v \in Writes : \A j \in 1 .. Len(chain[v]) :
          /\ chain'[v][j].at = chain[v][j].at /\ chain'[v][j].via = chain[v][j].via
          /\ v # w \/ j # k => chain'[v][j] = chain[v][j]
    /\ chain'[w][k].step = s /\ chain'[w][k].attempt = a

LEMMA LengthsAreNat == Types => Term \in Nat /\ \A w \in Writes : Len(chain[w]) \in Nat
BY DEF Types, Term

LEMMA HandlerOf ==
    ASSUME Types, NEW h \in Handlers
    PROVE  /\ h[1] \in Writes /\ h[2] \in 1 .. Len(chain[h[1]])
           /\ This(h) = chain[h[1]][h[2]] /\ This(h) \in HandlerType
<1>1. PICK w \in Writes : h \in {w} \X DOMAIN chain[w]
  BY DEF Handlers
<1>2. h[1] = w /\ h[2] \in DOMAIN chain[w]
  BY <1>1
<1>3. chain[w] \in Seq(HandlerType)
  BY DEF Types
<1> QED BY <1>2, <1>3 DEF This

LEMMA EachHandler ==
    ASSUME Types, NEW w \in Writes, NEW k \in 1 .. Len(chain[w])
    PROVE  /\ chain[w][k] \in HandlerType
           /\ chain[w][k].via \in Nat /\ chain[w][k].at \in Machines /\ chain[w][k].attempt \in 0 .. 1
<1>1. chain[w] \in Seq(HandlerType)
  BY DEF Types
<1>2. chain[w][k] \in HandlerType
  BY <1>1
<1> QED BY <1>2 DEF HandlerType

LEMMA ReplaceBecomes ==
    ASSUME Types, NEW w \in Writes, NEW k \in 1 .. Len(chain[w]), NEW new \in HandlerType,
           new.at = chain[w][k].at, new.via = chain[w][k].via,
           chain' = [chain EXCEPT ![w] = [chain[w] EXCEPT ![k] = new]]
    PROVE  Becomes(w, k, new.step, new.attempt)
<1>1. chain \in [Writes -> Seq(HandlerType)] /\ chain[w] \in Seq(HandlerType)
  BY DEF Types
<1>2. /\ [chain[w] EXCEPT ![k] = new] \in Seq(HandlerType)
      /\ Len([chain[w] EXCEPT ![k] = new]) = Len(chain[w])
  BY <1>1
<1>3. \A j \in 1 .. Len(chain[w]) : [chain[w] EXCEPT ![k] = new][j] = IF j = k THEN new ELSE chain[w][j]
  BY <1>1
<1>4. \A v \in Writes : chain'[v] = IF v = w THEN [chain[w] EXCEPT ![k] = new] ELSE chain[v]
  BY <1>1
<1>5. chain' \in [Writes -> Seq(HandlerType)]
  BY <1>1, <1>2
<1>6. \A v \in Writes : Len(chain'[v]) = Len(chain[v])
  BY <1>2, <1>4
<1>7. \A j \in 1 .. Len(chain[w]) : chain'[w][j] = IF j = k THEN new ELSE chain[w][j]
  BY <1>3, <1>4
<1>8. \A v \in Writes : v # w => chain'[v] = chain[v]
  BY <1>4
<1> QED BY <1>5, <1>6, <1>7, <1>8 DEF Becomes

LEMMA GoesBecomes ==
    ASSUME Types, NEW h \in Handlers, NEW s \in Steps, Goes(h, s)
    PROVE  Becomes(h[1], h[2], s, This(h).attempt)
<1> DEFINE w == h[1]
           k == h[2]
           new == [chain[w][k] EXCEPT !.step = s]
<1>1. w \in Writes /\ k \in 1 .. Len(chain[w]) /\ chain[w][k] \in HandlerType /\ This(h) = chain[w][k]
  BY HandlerOf
<1>2. /\ new \in HandlerType /\ new.at = chain[w][k].at /\ new.via = chain[w][k].via
      /\ new.step = s /\ new.attempt = chain[w][k].attempt
  BY <1>1 DEF HandlerType
<1>3. chain' = [chain EXCEPT ![w] = [chain[w] EXCEPT ![k] = new]]
  BY <1>1 DEF Goes, Types
<1> HIDE DEF new, w, k
<1>4. Becomes(w, k, new.step, new.attempt)
  BY <1>1, <1>2, <1>3, ReplaceBecomes
<1> QED BY <1>1, <1>2, <1>4 DEF w, k

(* What a handler's step must keep, when it may put an entry into the log. *)
LEMMA MoveKeeps ==
    ASSUME IInv, NEW w \in Writes, NEW k \in 1 .. Len(chain[w]), NEW s \in Steps, NEW a \in 0 .. 1,
           Becomes(w, k, s, a), UNCHANGED <<leaders, view, applied, nodeVars>>,
           log \subseteq log', log' \subseteq EntryType, NeverTwiceInOneTerm',
           \A e \in log' \ log : EntryInv(e)',
           k < Len(chain[w]) => s \in {"forwarded", "ok", "error"},
           s = "forwarded" => k < Len(chain[w]),
           s = "waiting" => a = 0,
           s = "ok" => \E e \in applied : e.write = w,
           \A e \in log : e.write = w /\ e.hop = k =>
               /\ e.attempt <= a
               /\ e.attempt = a => s # "submit"
               /\ s = "waiting" \/ e.attempt < a => e.term < view[chain[w][k].at].term
    PROVE  IInv'
<1> USE DEF nodeVars
<1>1. Types /\ Types' /\ Term' = Term /\ Term \in Nat
  BY DEF IInv, Types, Becomes, Term
<1>2. \A v \in Writes : Len(chain'[v]) = Len(chain[v]) /\ Len(chain[v]) \in Nat
  BY <1>1, LengthsAreNat DEF Becomes
<1>3. ViewInv'
  BY <1>1 DEF IInv, ViewInv
<1>4. ChainInv'
  <2> SUFFICES ASSUME NEW v \in Writes, NEW j \in 1 .. Len(chain[v]) PROVE LinkInv(v, j)'
    BY <1>2 DEF ChainInv
  <2>1. LinkInv(v, j)
    BY DEF IInv, ChainInv
  <2>2. /\ chain'[v][j].at = chain[v][j].at /\ chain'[v][j].via = chain[v][j].via
        /\ v # w \/ j # k => chain'[v][j] = chain[v][j]
        /\ \A i \in 1 .. j - 1 : chain'[v][i].via = chain[v][i].via
    <3>1. \A i \in 1 .. j - 1 : i \in 1 .. Len(chain[v])
      BY <1>2
    <3> QED BY <3>1 DEF Becomes
  <2>3. /\ j < Len(chain[v]) => chain'[v][j].step \in {"forwarded", "ok", "error"}
        /\ chain'[v][j].step = "forwarded" => j < Len(chain[v])
        /\ chain'[v][j].step = "waiting" => chain'[v][j].attempt = 0
    BY <2>1, <2>2 DEF LinkInv, Becomes
  <2> QED BY <1>1, <1>2, <2>1, <2>2, <2>3 DEF LinkInv
<1>5. LogInv'
  <2>1. NeverTwiceInOneTerm' /\ \A e \in log' \ log : EntryInv(e)'
    OBVIOUS
  <2>2. ASSUME NEW e \in log PROVE EntryInv(e)'
    <3>1. EntryInv(e) /\ e.write \in Writes /\ e.hop \in Nat
      BY <1>1 DEF IInv, LogInv, Types, EntryType
    <3>2. e.hop \in 1 .. Len(chain[e.write])
      BY <3>1 DEF EntryInv
    <3>3. /\ chain'[e.write][e.hop].at = chain[e.write][e.hop].at
          /\ e.write # w \/ e.hop # k => chain'[e.write][e.hop] = chain[e.write][e.hop]
      BY <3>1, <3>2 DEF Becomes
    <3>4. e.hop < Len(chain[e.write]) => chain'[e.write][e.hop + 1].via = chain[e.write][e.hop + 1].via
      <4>1. e.hop < Len(chain[e.write]) => e.hop + 1 \in 1 .. Len(chain[e.write])
        BY <1>2, <3>1, <3>2
      <4> QED BY <3>1, <4>1 DEF Becomes
    <3>5. CASE e.write = w /\ e.hop = k
      <4>1. chain'[e.write][e.hop].step = s /\ chain'[e.write][e.hop].attempt = a
        BY <3>5 DEF Becomes
      <4>2. /\ e.attempt <= a
            /\ e.attempt = a => s # "submit"
            /\ s = "waiting" \/ e.attempt < a => e.term < view[chain[e.write][e.hop].at].term
        BY <3>5
      <4> QED BY <1>1, <1>2, <3>1, <3>3, <3>4, <4>1, <4>2 DEF EntryInv
    <3>6. CASE e.write # w \/ e.hop # k
      BY <1>1, <1>2, <3>1, <3>3, <3>4, <3>6 DEF EntryInv
    <3> QED BY <3>5, <3>6
  <2> QED BY <2>1, <2>2 DEF LogInv
<1>6. OkInv'
  <2> SUFFICES ASSUME NEW v \in Writes, NEW j \in 1 .. Len(chain[v]), chain'[v][j].step = "ok"
      PROVE  \E e \in applied : e.write = v
    BY <1>2 DEF OkInv
  <2>1. CASE v = w /\ j = k
    BY <2>1 DEF Becomes
  <2>2. CASE v # w \/ j # k
    BY <2>2 DEF IInv, OkInv, Becomes
  <2> QED BY <2>1, <2>2
<1>7. BoundInv'
  BY <1>1 DEF IInv, BoundInv, LeaderUp, LeadsNow, Leads, KnownLeader, Term
<1> QED BY <1>1, <1>3, <1>4, <1>5, <1>6, <1>7 DEF IInv

(* The same, when nothing but the handler changes. *)
LEMMA StepKeeps ==
    ASSUME IInv, NEW w \in Writes, NEW k \in 1 .. Len(chain[w]), NEW s \in Steps, NEW a \in 0 .. 1,
           Becomes(w, k, s, a), UNCHANGED <<leaders, view, log, applied, nodeVars>>,
           k < Len(chain[w]) => s \in {"forwarded", "ok", "error"},
           s = "forwarded" => k < Len(chain[w]),
           s = "waiting" => a = 0,
           s = "ok" => \E e \in applied : e.write = w,
           \A e \in log : e.write = w /\ e.hop = k =>
               /\ e.attempt <= a
               /\ e.attempt = a => s # "submit"
               /\ s = "waiting" \/ e.attempt < a => e.term < view[chain[w][k].at].term
    PROVE  IInv'
<1>1. log \subseteq log' /\ log' \subseteq EntryType /\ \A e \in log' \ log : EntryInv(e)'
  BY DEF IInv, Types
<1>2. NeverTwiceInOneTerm'
  BY DEF IInv, LogInv, NeverTwiceInOneTerm
<1> QED BY <1>1, <1>2, MoveKeeps

-----------------------------------------------------------------------------
(* What is known of a handler that is refused. *)

LEMMA LastTries ==
    ASSUME IInv, NEW h \in Handlers
    PROVE  /\ This(h).step \in {"submit", "appended", "waiting"} => h[2] = Len(chain[h[1]])
           /\ This(h).step = "forwarded" => h[2] < Len(chain[h[1]])
<1>1. h[1] \in Writes /\ h[2] \in 1 .. Len(chain[h[1]]) /\ This(h) = chain[h[1]][h[2]]
  BY HandlerOf DEF IInv
<1>2. LinkInv(h[1], h[2])
  BY <1>1 DEF IInv, ChainInv
<1>3. Len(chain[h[1]]) \in Nat
  BY <1>1, LengthsAreNat DEF IInv
<1> QED BY <1>1, <1>2, <1>3 DEF LinkInv

LEMMA HandlersView ==
    ASSUME IInv, NEW h \in Handlers
    PROVE  /\ This(h).at \in Machines
           /\ view[This(h).at].term \in 0 .. Term
           /\ view[This(h).at].sure \in BOOLEAN
           /\ view[This(h).at].sure => view[This(h).at].term > 0
<1>1. This(h).at \in Machines
  BY HandlerOf DEF IInv, HandlerType
<1> QED BY <1>1 DEF IInv, Types, ViewInv

(* A refused handler's entries are of terms before the one its node knows. *)
LEMMA RefusedOver ==
    ASSUME IInv, NEW h \in Handlers, Refused(h), NEW e \in log, e.write = h[1], e.hop = h[2]
    PROVE  e.term < view[This(h).at].term
<1>1. This(h) = chain[e.write][e.hop] /\ This(h) \in HandlerType
  BY HandlerOf DEF IInv
<1>2. EntryInv(e)
  BY DEF IInv, LogInv
<1>3. e.attempt \in 0 .. 1 /\ e.term \in Nat /\ This(h).attempt \in 0 .. 1 /\ This(h).at \in Machines
  BY <1>1 DEF IInv, Types, EntryType, HandlerType
<1>4. CASE e.attempt < This(h).attempt
  BY <1>1, <1>2, <1>4 DEF EntryInv
<1>5. CASE e.attempt = This(h).attempt
  <2>1. view[This(h).at].sure /\ ~Leads(This(h).at)
    BY <1>1, <1>2, <1>5 DEF EntryInv, Refused
  <2>2. e.term \in 1 .. Term /\ This(h).at = leaders[e.term]
    BY <1>1, <1>2 DEF EntryInv
  <2>3. e.term <= view[This(h).at].term
    BY <1>3, <2>2 DEF IInv, ViewInv
  <2>4. e.term # view[This(h).at].term
    BY <2>1, <2>2 DEF Leads, KnownLeader
  <2>5. view[This(h).at].term \in Nat
    BY <1>3 DEF IInv, Types
  <2> QED BY <1>3, <2>3, <2>4, <2>5
<1> QED BY <1>1, <1>2, <1>3, <1>4, <1>5 DEF EntryInv

-----------------------------------------------------------------------------
(* The steps of a handler that only go to another step. *)

(* A step that is neither another attempt nor the wait for one. *)
LEMMA PlainStepKeeps ==
    ASSUME IInv, NEW h \in Handlers, NEW s \in Steps, Goes(h, s),
           UNCHANGED <<clusterVars, log, applied, nodeVars>>,
           s # "submit", s # "waiting",
           h[2] < Len(chain[h[1]]) => s \in {"forwarded", "ok", "error"},
           s = "forwarded" => h[2] < Len(chain[h[1]]),
           s = "ok" => \E e \in applied : e.write = h[1]
    PROVE  IInv'
<1>1. h[1] \in Writes /\ h[2] \in 1 .. Len(chain[h[1]]) /\ This(h) = chain[h[1]][h[2]] /\ This(h).attempt \in 0 .. 1
  BY HandlerOf DEF IInv, HandlerType
<1>2. Becomes(h[1], h[2], s, This(h).attempt)
  BY GoesBecomes DEF IInv
<1>3. ASSUME NEW e \in log, e.write = h[1], e.hop = h[2]
      PROVE  /\ e.attempt <= This(h).attempt
             /\ e.attempt < This(h).attempt => e.term < view[chain[h[1]][h[2]].at].term
  BY <1>1, <1>3 DEF IInv, LogInv, EntryInv
<1> QED BY <1>1, <1>2, <1>3, StepKeeps DEF clusterVars

LEMMA HoldKeeps ==
    ASSUME IInv, NEW h \in Handlers, Hold(h)
    PROVE  IInv'
<1>1. h[1] \in Writes /\ h[2] \in 1 .. Len(chain[h[1]]) /\ This(h) = chain[h[1]][h[2]] /\ This(h).attempt \in 0 .. 1
  BY HandlerOf DEF IInv, HandlerType
<1>2. This(h).step \in {"submit", "appended"} /\ Refused(h)
  BY DEF Hold, Refused
<1>3. h[2] = Len(chain[h[1]]) /\ Len(chain[h[1]]) \in Nat
  BY <1>1, <1>2, LastTries, LengthsAreNat DEF IInv
<1> DEFINE s == IF This(h).attempt = 0 THEN "waiting" ELSE "error"
<1>4. /\ s \in Steps /\ s # "submit" /\ s # "ok" /\ s # "forwarded"
      /\ s = "waiting" => This(h).attempt = 0
  BY DEF Steps
<1>5. Goes(h, s)
  BY DEF Hold
<1> HIDE DEF s
<1>6. Becomes(h[1], h[2], s, This(h).attempt)
  BY <1>4, <1>5, GoesBecomes DEF IInv
<1>7. ASSUME NEW e \in log, e.write = h[1], e.hop = h[2]
      PROVE  e.attempt <= This(h).attempt /\ e.term < view[chain[h[1]][h[2]].at].term
  <2>1. e.attempt <= This(h).attempt
    BY <1>1, <1>7 DEF IInv, LogInv, EntryInv
  <2>2. e.term < view[This(h).at].term
    BY <1>2, <1>7, RefusedOver
  <2> QED BY <1>1, <2>1, <2>2
<1>8. UNCHANGED <<leaders, view, log, applied, nodeVars>>
  BY DEF Hold, clusterVars
<1> QED BY <1>1, <1>3, <1>4, <1>6, <1>7, <1>8, StepKeeps

LEMMA TryAgainKeeps ==
    ASSUME IInv, NEW h \in Handlers, TryAgain(h)
    PROVE  IInv'
<1> DEFINE w == h[1]
           k == h[2]
           new == [[chain[w][k] EXCEPT !.step = "submit"] EXCEPT !.attempt = 1]
<1>1. w \in Writes /\ k \in 1 .. Len(chain[w]) /\ This(h) = chain[w][k] /\ chain[w][k] \in HandlerType
  BY HandlerOf DEF IInv
<1>2. chain[w][k].step = "waiting"
  BY <1>1 DEF TryAgain
<1>3. k = Len(chain[w]) /\ Len(chain[w]) \in Nat
  BY <1>1, <1>2, LastTries, LengthsAreNat DEF IInv
<1>4. /\ new \in HandlerType /\ new.at = chain[w][k].at /\ new.via = chain[w][k].via
      /\ new.step = "submit" /\ new.attempt = 1
  <2> DEFINE now == [chain[w][k] EXCEPT !.step = "submit"]
  <2>1. /\ now \in HandlerType /\ now.at = chain[w][k].at /\ now.via = chain[w][k].via
        /\ now.step = "submit" /\ new = [now EXCEPT !.attempt = 1]
    BY <1>1 DEF HandlerType, Steps
  <2> HIDE DEF now, new
  <2> QED BY <2>1 DEF HandlerType
<1>5. chain' = [chain EXCEPT ![w] = [chain[w] EXCEPT ![k] = new]]
  BY <1>1 DEF TryAgain, IInv, Types
<1>6. UNCHANGED <<leaders, view, log, applied, nodeVars>>
  BY DEF TryAgain, clusterVars
<1> HIDE DEF w, k, new
<1>7. Becomes(w, k, "submit", 1)
  BY <1>1, <1>4, <1>5, ReplaceBecomes DEF IInv
<1>8. ASSUME NEW e \in log, e.write = w, e.hop = k
      PROVE  e.attempt = 0 /\ e.term < view[chain[w][k].at].term
  <2>1. EntryInv(e) /\ e.attempt \in 0 .. 1
    BY DEF IInv, LogInv, Types, EntryType
  <2>2. chain[w][k].attempt = 0
    BY <1>1, <1>2 DEF IInv, ChainInv, LinkInv
  <2> QED BY <1>2, <1>8, <2>1, <2>2 DEF EntryInv
<1> QED BY <1>1, <1>3, <1>6, <1>7, <1>8, StepKeeps DEF Steps

LEMMA RespondKeeps ==
    ASSUME IInv, NEW h \in Handlers, Respond(h)
    PROVE  IInv'
<1>1. \E e \in applied : e.write = h[1]
  BY DEF Respond, Entries
<1> QED BY <1>1, PlainStepKeeps DEF Respond, Steps

LEMMA WriteFailsKeeps ==
    ASSUME IInv, NEW h \in Handlers, WriteFails(h)
    PROVE  IInv'
BY PlainStepKeeps DEF WriteFails, Steps

LEMMA ForwardFailsKeeps ==
    ASSUME IInv, NEW h \in Handlers, ForwardFails(h)
    PROVE  IInv'
BY PlainStepKeeps DEF ForwardFails, Steps

LEMMA RelayKeeps ==
    ASSUME IInv, NEW h \in Handlers, Relay(h)
    PROVE  IInv'
<1>1. h[1] \in Writes /\ h[2] \in 1 .. Len(chain[h[1]])
  BY HandlerOf DEF IInv
<1>2. h[2] < Len(chain[h[1]]) /\ Len(chain[h[1]]) \in Nat
  BY <1>1, LastTries, LengthsAreNat DEF Relay, IInv
<1>3. h[2] + 1 \in 1 .. Len(chain[h[1]])
  BY <1>1, <1>2
<1>4. Onward(h).step = "ok" => \E e \in applied : e.write = h[1]
  BY <1>1, <1>3 DEF IInv, OkInv, Onward
<1> QED BY <1>4, PlainStepKeeps DEF Relay, Answered, Steps

-----------------------------------------------------------------------------
(* The steps of a handler that add an entry or a handler. *)

(* A leader's new entry is the first of its write in its term: an earlier handler's is older than
   the term this node was named in, and this handler's is older than the term it leads. *)
LEMMA SubmitNew ==
    ASSUME IInv, NEW h \in Handlers, Submit(h), NEW e \in log, e.write = h[1]
    PROVE  e.term < view[This(h).at].term
<1> DEFINE w == h[1]
           k == h[2]
           m == This(h).at
<1> SUFFICES e.term < view[m].term
  OBVIOUS
<1>1. w \in Writes /\ k \in 1 .. Len(chain[w]) /\ This(h) = chain[w][k] /\ This(h) \in HandlerType
  BY HandlerOf DEF IInv
<1>2. k = Len(chain[w]) /\ k \in Nat /\ chain[w][k].step = "submit"
  BY <1>1, LastTries, LengthsAreNat DEF IInv, Submit
<1>3. m \in Machines /\ view[m].term \in 1 .. Term /\ Term \in Nat
  BY HandlersView, LengthsAreNat DEF Submit, Leads, IInv
<1>4. /\ EntryInv(e) /\ e.term \in Nat /\ e.hop \in Nat /\ e.attempt \in 0 .. 1
      /\ e.hop \in 1 .. Len(chain[w])
  BY DEF IInv, LogInv, Types, EntryType, EntryInv
<1>5. CASE e.hop = k
  <2>1. e.attempt < chain[w][k].attempt
    BY <1>1, <1>2, <1>4, <1>5 DEF EntryInv, HandlerType
  <2> QED BY <1>1, <1>4, <1>5, <2>1 DEF EntryInv
<1>6. CASE e.hop < k
  <2>1. e.hop + 1 \in 1 .. k /\ e.term < chain[w][e.hop + 1].via
    BY <1>2, <1>4, <1>6 DEF EntryInv
  <2>2. LinkInv(w, k) /\ k > 1
    BY <1>1, <1>2, <1>4, <1>6 DEF IInv, ChainInv
  <2>3. /\ chain[w][k].via \in Nat /\ chain[w][k].via \in 1 .. Term /\ chain[w][k].at = leaders[chain[w][k].via]
        /\ chain[w][e.hop + 1].via \in Nat
    <3>1. k \in 1 .. Len(chain[w]) /\ e.hop + 1 \in 1 .. Len(chain[w])
      BY <1>1, <1>2, <2>1
    <3>2. chain[w][k].via \in Nat /\ chain[w][e.hop + 1].via \in Nat
      BY <1>1, <3>1, EachHandler DEF IInv
    <3> QED BY <1>2, <1>3, <2>2, <3>2 DEF LinkInv
  <2>4. chain[w][k].via <= view[m].term
    BY <1>1, <1>3, <2>3 DEF IInv, ViewInv
  <2>5. chain[w][e.hop + 1].via <= chain[w][k].via
    <3>1. CASE e.hop + 1 = k
      BY <2>3, <3>1
    <3>2. CASE e.hop + 1 \in 1 .. k - 1
      BY SMTT(30), <2>2, <2>3, <3>2 DEF LinkInv
    <3> QED BY <1>2, <2>1, <3>1, <3>2
  <2>6. ASSUME NEW x \in Nat, NEW y \in Nat, NEW z \in Nat, e.term < x, x <= y, y <= z
        PROVE  e.term < z
    BY <1>4, <2>6
  <2>7. view[m].term \in Nat
    BY <1>3
  <2> QED BY <2>1, <2>3, <2>4, <2>5, <2>6, <2>7
<1> QED BY <1>2, <1>4, <1>5, <1>6

LEMMA SubmitKeeps ==
    ASSUME IInv, NEW h \in Handlers, Submit(h)
    PROVE  IInv'
<1> DEFINE w == h[1]
           k == h[2]
           m == This(h).at
           t == view[m].term
           new == EntryOf(h, t)
<1>1. /\ w \in Writes /\ k \in 1 .. Len(chain[w]) /\ This(h) = chain[w][k] /\ This(h) \in HandlerType
      /\ This(h).attempt \in 0 .. 1
  BY HandlerOf DEF IInv, HandlerType
<1>2. k = Len(chain[w]) /\ k \in Nat /\ chain[w][k].step = "submit"
  BY <1>1, LastTries, LengthsAreNat DEF IInv, Submit
<1>3. m \in Machines /\ t \in 1 .. Term /\ t \in Nat /\ m = leaders[t]
  BY HandlersView, LengthsAreNat DEF Submit, Leads, KnownLeader, IInv
<1>4. /\ log' = log \cup {new} /\ Goes(h, "appended")
      /\ UNCHANGED <<leaders, view, applied, nodeVars>>
  BY DEF Submit, clusterVars
<1>5. Becomes(w, k, "appended", This(h).attempt)
  BY <1>4, GoesBecomes DEF IInv, Steps
<1>6. /\ new.write = w /\ new.hop = k /\ new.attempt = This(h).attempt /\ new.term = t
      /\ new \in EntryType
  BY <1>1, <1>2, <1>3 DEF EntryOf, EntryType
<1>7. \A e \in log : e.write = w => e.term < t
  BY SubmitNew
<1>8. NeverTwiceInOneTerm'
  <2>1. NeverTwiceInOneTerm /\ \A e \in log : e.term \in Nat
    BY DEF IInv, LogInv, Types, EntryType
  <2> HIDE DEF new, t, w
  <2> QED BY <1>3, <1>4, <1>6, <1>7, <2>1 DEF NeverTwiceInOneTerm
<1>9. ASSUME NEW e, e = new PROVE EntryInv(e)'
  <2>1. Len(chain'[w]) = k /\ chain'[w][k].at = m /\ chain'[w][k].step = "appended"
        /\ chain'[w][k].attempt = This(h).attempt /\ Term' = Term
    BY <1>1, <1>2, <1>4, <1>5 DEF Becomes, Term
  <2> HIDE DEF new, t, w, k, m
  <2>2. e.write = w /\ e.hop = k /\ e.attempt = This(h).attempt /\ e.term = t
    BY <1>6, <1>9
  <2> QED BY <1>1, <1>2, <1>3, <1>4, <2>1, <2>2 DEF EntryInv
<1>10. ASSUME NEW e \in log, e.write = w, e.hop = k
       PROVE  /\ e.attempt <= This(h).attempt
              /\ e.term < view[chain[w][k].at].term
  BY <1>1, <1>7, <1>10 DEF IInv, LogInv, EntryInv
<1>11. log \subseteq log' /\ log' \subseteq EntryType /\ \A e \in log' \ log : EntryInv(e)'
  BY <1>4, <1>6, <1>9 DEF IInv, Types
<1>12. "appended" \in Steps /\ ~(k < Len(chain[w]))
  BY <1>2 DEF Steps
<1> HIDE DEF new, t, w, k, m
<1> QED BY <1>1, <1>4, <1>5, <1>8, <1>10, <1>11, <1>12, MoveKeeps

LEMMA ForwardKeeps ==
    ASSUME IInv, NEW h \in Handlers, Forward(h)
    PROVE  IInv'
<1> DEFINE w == h[1]
           k == h[2]
           m == This(h).at
           t == view[m].term
<1>1. /\ w \in Writes /\ k \in 1 .. Len(chain[w]) /\ This(h) = chain[w][k] /\ This(h) \in HandlerType
      /\ chain[w][k].step \in {"submit", "appended"} /\ Refused(h)
  BY HandlerOf DEF IInv, Forward, Refused
<1>2. k = Len(chain[w]) /\ k \in Nat /\ 1 <= k /\ (k = 1 \/ k > 1)
  BY <1>1, LastTries, LengthsAreNat DEF IInv
<1>3. PICK leader \in Named(m) \ {Nobody, m} :
          chain' = [chain EXCEPT ![w] = Append([@ EXCEPT ![k].step = "forwarded"], Handler(leader, t))]
  BY DEF Forward
<1>4. UNCHANGED <<leaders, view, log, applied, nodeVars>>
  BY DEF Forward, clusterVars
<1>5. view[m].sure /\ leader = leaders[t] /\ leader # m
  BY <1>3 DEF Named, KnownLeader
<1>6. t \in 1 .. Term /\ Term \in Nat /\ m \in Machines
  BY <1>5, HandlersView, LengthsAreNat DEF IInv
<1>7. leader \in Machines
  BY <1>5, <1>6 DEF IInv, Types, Term
<1> DEFINE old == [chain[w] EXCEPT ![k].step = "forwarded"]
           next == Handler(leader, t)
<1>8. next \in HandlerType /\ next.at = leader /\ next.via = t /\ next.attempt = 0 /\ next.step = "submit"
  BY <1>6, <1>7 DEF Handler, HandlerType, Steps
<1>9. /\ old \in Seq(HandlerType) /\ Len(old) = k
      /\ \A j \in 1 .. k : j # k => old[j] = chain[w][j]
      /\ old[k].at = chain[w][k].at /\ old[k].via = chain[w][k].via
      /\ old[k].attempt = chain[w][k].attempt /\ old[k].step = "forwarded"
  <2> DEFINE now == [chain[w][k] EXCEPT !.step = "forwarded"]
  <2>1. /\ now \in HandlerType /\ now.at = chain[w][k].at /\ now.via = chain[w][k].via
        /\ now.attempt = chain[w][k].attempt /\ now.step = "forwarded"
    BY <1>1 DEF HandlerType, Steps
  <2>2. chain[w] \in Seq(HandlerType)
    BY <1>1 DEF IInv, Types
  <2>3. old = [chain[w] EXCEPT ![k] = now]
    BY <1>1, <2>2
  <2> HIDE DEF now, old
  <2> QED BY <1>1, <1>2, <2>1, <2>2, <2>3
<1>10. chain' = [chain EXCEPT ![w] = Append(old, next)]
  BY <1>1, <1>3 DEF IInv, Types
<1> HIDE DEF old, next
<1>11. /\ chain' \in [Writes -> Seq(HandlerType)]
       /\ \A v \in Writes : v # w => chain'[v] = chain[v]
       /\ chain'[w] = Append(old, next)
  BY <1>1, <1>8, <1>9, <1>10 DEF IInv, Types
<1>12. /\ Len(chain'[w]) = k + 1
       /\ chain'[w][k + 1] = next
       /\ \A j \in 1 .. k : chain'[w][j] = old[j]
  BY <1>2, <1>8, <1>9, <1>11
<1>13. \A j \in 1 .. k : /\ chain'[w][j].at = chain[w][j].at /\ chain'[w][j].via = chain[w][j].via
                         /\ chain'[w][j].attempt = chain[w][j].attempt
                         /\ j # k => chain'[w][j].step = chain[w][j].step
  BY <1>9, <1>12
<1>14. chain'[w][k].step = "forwarded"
  BY <1>2, <1>9, <1>12
<1>15. Types' /\ Term' = Term
  BY <1>4, <1>11 DEF IInv, Types, Term, nodeVars
<1>16. LinkInv(w, k) /\ chain[w][k].via \in Nat
  BY <1>1, EachHandler DEF IInv, ChainInv
<1> HIDE DEF w, k, m, t
(* The leader named is one of a later term than the one this node was named in. *)
<1>17. chain[w][k].via < t /\ k <= t
  <2>1. CASE k = 1
    BY <1>6, <1>16, <2>1 DEF LinkInv
  <2>2. CASE k > 1
    <3>1. chain[w][k].via \in 1 .. Term /\ m = leaders[chain[w][k].via] /\ k - 1 <= chain[w][k].via
      BY <1>1, <1>2, <1>6, <1>16, <2>2 DEF LinkInv, m
    <3>2. chain[w][k].via <= t
      BY <1>6, <3>1 DEF IInv, ViewInv, t
    <3>3. chain[w][k].via # t
      BY <1>5, <3>1
    <3> QED BY <1>2, <1>6, <1>16, <3>1, <3>2, <3>3
  <2> QED BY <1>2, <2>1, <2>2
<1>18. ViewInv' /\ BoundInv'
  BY <1>4, <1>15 DEF IInv, ViewInv, BoundInv, LeaderUp, LeadsNow, Leads, KnownLeader, Term, nodeVars
<1>19. ChainInv'
  <2>1. ASSUME NEW v \in Writes, v # w, NEW j \in 1 .. Len(chain[v]) PROVE LinkInv(v, j)'
    <3>1. LinkInv(v, j) /\ chain'[v] = chain[v]
      BY <1>11, <2>1 DEF IInv, ChainInv
    <3> QED BY <1>4, <1>15, <3>1 DEF LinkInv
  <2>2. ASSUME NEW j \in 1 .. k PROVE LinkInv(w, j)'
    <3>1. LinkInv(w, j)
      BY <1>1, <1>2, <2>2 DEF IInv, ChainInv
    <3>2. j < k => chain[w][j].step \in {"forwarded", "ok", "error"}
      BY <1>2, <3>1 DEF LinkInv
    <3>3. chain'[w][j].step \in {"forwarded", "ok", "error"} /\ j < Len(chain'[w])
      BY <1>2, <1>12, <1>13, <1>14, <3>2
    <3>4. /\ chain'[w][j].at = chain[w][j].at /\ chain'[w][j].via = chain[w][j].via
          /\ \A i \in 1 .. j - 1 : chain'[w][i].via = chain[w][i].via
      BY <1>2, <1>13
    <3> QED BY <1>4, <1>15, <3>1, <3>3, <3>4 DEF LinkInv
  <2>3. LinkInv(w, k + 1)'
    <3>1. \A j \in 1 .. k : chain'[w][j].via < t
      <4>1. ASSUME NEW j \in 1 .. k PROVE chain[w][j].via <= chain[w][k].via /\ chain[w][j].via \in Nat
        <5>1. chain[w][j].via \in Nat
          BY <1>1, <1>2, EachHandler DEF IInv
        <5>2. j # k => chain[w][j].via < chain[w][k].via
          BY <1>2, <1>16 DEF LinkInv
        <5> QED BY <1>16, <5>1, <5>2
      <4> QED BY <1>6, <1>13, <1>16, <1>17, <4>1
    <3>2. (k + 1) - 1 = k
      BY <1>2
    <3> QED BY <1>2, <1>4, <1>5, <1>6, <1>8, <1>12, <1>15, <1>17, <3>1, <3>2 DEF LinkInv
  <2>4. \A j \in 1 .. k + 1 : j \in 1 .. k \/ j = k + 1
    BY <1>2
  <2> QED BY <1>11, <1>12, <2>1, <2>2, <2>3, <2>4 DEF ChainInv
<1>20. LogInv'
  <2>1. NeverTwiceInOneTerm'
    BY <1>4 DEF IInv, LogInv, NeverTwiceInOneTerm
  <2>2. ASSUME NEW e \in log PROVE EntryInv(e)'
    <3>1. /\ EntryInv(e) /\ e.write \in Writes /\ e.hop \in Nat /\ e.hop \in 1 .. Len(chain[e.write])
          /\ e.term \in Nat
      BY DEF IInv, LogInv, Types, EntryType, EntryInv
    <3>2. CASE e.write # w
      <4>1. chain'[e.write] = chain[e.write]
        BY <1>11, <3>1, <3>2
      <4> QED BY <1>4, <1>15, <3>1, <4>1 DEF EntryInv
    <3>3. CASE e.write = w /\ e.hop < k
      <4>1. e.hop \in 1 .. k /\ e.hop + 1 \in 1 .. k /\ e.hop # k /\ e.hop < k + 1
        BY <1>2, <3>1, <3>3
      <4>2. /\ chain'[w][e.hop].at = chain[w][e.hop].at
            /\ chain'[w][e.hop].attempt = chain[w][e.hop].attempt
            /\ chain'[w][e.hop].step = chain[w][e.hop].step
            /\ chain'[w][e.hop + 1].via = chain[w][e.hop + 1].via
        BY <1>13, <4>1
      <4>3. e.hop < Len(chain[w]) /\ e.hop \in 1 .. Len(chain'[w])
        BY <1>2, <1>12, <3>3, <4>1
      <4>4. e.term < chain[w][e.hop + 1].via
        BY <3>1, <3>3, <4>3 DEF EntryInv
      <4> QED BY <1>4, <1>15, <3>1, <3>3, <4>2, <4>3, <4>4 DEF EntryInv
    <3>4. CASE e.write = w /\ e.hop = k
      <4>1. e.term < t
        BY <1>1, <3>4, RefusedOver DEF w, k, m, t
      <4>2. k \in 1 .. k /\ k \in 1 .. k + 1 /\ k < k + 1
        BY <1>2
      <4>3. /\ chain'[w][k].at = chain[w][k].at /\ chain'[w][k].attempt = chain[w][k].attempt
            /\ chain'[w][k].step = "forwarded" /\ chain'[w][k + 1].via = t
        BY <1>8, <1>12, <1>13, <1>14, <4>2
      <4>4. e.attempt < chain[w][k].attempt => e.term < view[chain[w][k].at].term
        BY <3>1, <3>4 DEF EntryInv
      <4> QED BY <1>4, <1>12, <1>15, <3>1, <3>4, <4>1, <4>2, <4>3, <4>4 DEF EntryInv
    <3> QED BY <1>2, <3>1, <3>2, <3>3, <3>4
  <2> QED BY <1>4, <2>1, <2>2 DEF LogInv
<1>21. OkInv'
  <2> SUFFICES ASSUME NEW v \in Writes, NEW j \in 1 .. Len(chain'[v]), chain'[v][j].step = "ok"
      PROVE  \E e \in applied : e.write = v
    BY <1>4 DEF OkInv
  <2>1. CASE v # w
    BY <1>11, <2>1 DEF IInv, OkInv
  <2>2. CASE v = w
    <3>1. j \in 1 .. k /\ j # k
      BY <1>2, <1>8, <1>12, <1>14, <2>2
    <3> QED BY <1>2, <1>13, <2>2, <3>1 DEF IInv, OkInv
  <2> QED BY <2>1, <2>2
<1> QED BY <1>15, <1>18, <1>19, <1>20, <1>21 DEF IInv

-----------------------------------------------------------------------------
(* The client's request, and an entry that is applied. *)

LEMMA RequestKeeps ==
    ASSUME IInv, NEW w \in Writes, Request(w)
    PROVE  IInv'
<1>1. PICK m \in serving : chain' = [chain EXCEPT ![w] = <<Handler(m, 0)>>]
  BY DEF Request
<1>2. Len(chain[w]) = 0 /\ UNCHANGED <<leaders, view, log, applied, nodeVars>>
  BY DEF Request, clusterVars
<1> DEFINE first == Handler(m, 0)
<1>3. /\ first \in HandlerType /\ first.via = 0 /\ first.step = "submit" /\ first.attempt = 0
  BY DEF IInv, Types, Handler, HandlerType, Steps
<1> HIDE DEF first
<1>4. /\ chain' \in [Writes -> Seq(HandlerType)]
      /\ Len(chain'[w]) = 1 /\ chain'[w][1] = first
      /\ \A v \in Writes : v # w => chain'[v] = chain[v]
  BY <1>1, <1>3 DEF IInv, Types, first
<1>5. Types' /\ Term' = Term /\ Term \in Nat
  BY <1>2, <1>4, LengthsAreNat DEF IInv, Types, Term, nodeVars
<1>6. ViewInv' /\ BoundInv'
  BY <1>2, <1>5 DEF IInv, ViewInv, BoundInv, LeaderUp, LeadsNow, Leads, KnownLeader, Term, nodeVars
<1>7. ChainInv'
  <2>1. ASSUME NEW v \in Writes, v # w, NEW j \in 1 .. Len(chain[v]) PROVE LinkInv(v, j)'
    <3>1. LinkInv(v, j) /\ chain'[v] = chain[v]
      BY <1>4, <2>1 DEF IInv, ChainInv
    <3> QED BY <1>2, <1>5, <3>1 DEF LinkInv
  <2>2. LinkInv(w, 1)'
    BY <1>3, <1>4, <1>5 DEF LinkInv
  <2> SUFFICES ASSUME NEW v \in Writes, NEW j \in 1 .. Len(chain'[v]) PROVE LinkInv(v, j)'
    BY DEF ChainInv
  <2>3. CASE v = w
    <3>1. Len(chain'[v]) = 1
      BY <1>4, <2>3
    <3>2. j = 1
      BY <3>1
    <3> QED BY <2>2, <2>3, <3>2
  <2>4. CASE v # w
    BY <1>4, <2>1, <2>4
  <2> QED BY <2>3, <2>4
<1>8. LogInv'
  <2>1. NeverTwiceInOneTerm'
    BY <1>2 DEF IInv, LogInv, NeverTwiceInOneTerm
  <2>2. ASSUME NEW e \in log PROVE EntryInv(e)'
    <3>1. EntryInv(e) /\ e.write \in Writes /\ e.hop \in 1 .. Len(chain[e.write])
      BY DEF IInv, LogInv, Types, EntryType, EntryInv
    <3>2. chain'[e.write] = chain[e.write]
      BY <1>2, <1>4, <3>1
    <3> QED BY <1>2, <1>5, <3>1, <3>2 DEF EntryInv
  <2> QED BY <1>2, <2>1, <2>2 DEF LogInv
<1>9. OkInv'
  BY <1>2, <1>3, <1>4 DEF IInv, OkInv
<1> QED BY <1>5, <1>6, <1>7, <1>8, <1>9 DEF IInv

LEMMA ApplyKeeps ==
    ASSUME IInv, NEW e \in log, Apply(e)
    PROVE  IInv'
<1>1. /\ applied' = applied \cup {e}
      /\ UNCHANGED <<leaders, view, chain, log, nodeVars>>
  BY DEF Apply, clusterVars
<1>2. Types' /\ Term' = Term
  BY <1>1 DEF IInv, Types, Term, nodeVars
<1>3. ViewInv' /\ ChainInv' /\ BoundInv'
  BY <1>1, <1>2 DEF IInv, ViewInv, ChainInv, LinkInv, BoundInv, LeaderUp, LeadsNow, Leads, KnownLeader, Term, nodeVars
<1>4. LogInv'
  BY <1>1, <1>2 DEF IInv, LogInv, EntryInv, NeverTwiceInOneTerm
<1>5. OkInv'
  BY <1>1 DEF IInv, OkInv
<1> QED BY <1>2, <1>3, <1>4, <1>5 DEF IInv

-----------------------------------------------------------------------------
(* The cluster and the nodes. *)

(* What a step of the cluster must keep: no leader of a past term changes, no node forgets a term. *)
LEMMA ClusterStepKeeps ==
    ASSUME IInv, UNCHANGED writeVars, Types', ViewInv', BoundInv', Term <= Term',
           \A t \in 1 .. Term : leaders'[t] = leaders[t],
           \A m \in Machines : view[m].term <= view'[m].term
    PROVE  IInv'
<1>1. UNCHANGED <<chain, log, applied>> /\ Term \in Nat /\ Term' \in Nat
  BY LengthsAreNat DEF writeVars, IInv, Types, Term
<1>2. ChainInv'
  <2> SUFFICES ASSUME NEW w \in Writes, NEW k \in 1 .. Len(chain[w]) PROVE LinkInv(w, k)'
    BY <1>1 DEF ChainInv
  <2>1. LinkInv(w, k) /\ chain[w][k].via \in Nat /\ Len(chain[w]) \in Nat
    BY EachHandler, LengthsAreNat DEF IInv, ChainInv
  <2>2. k > 1 => chain[w][k].via \in 1 .. Term
    BY <1>1, <2>1 DEF LinkInv
  <2>3. k > 1 => leaders'[chain[w][k].via] = leaders[chain[w][k].via]
    BY <2>2
  <2>4. chain[w][k].via <= Term'
    BY <1>1, <2>1 DEF LinkInv
  <2> QED BY <1>1, <2>1, <2>3, <2>4 DEF LinkInv
<1>3. LogInv'
  <2>1. NeverTwiceInOneTerm'
    BY <1>1 DEF IInv, LogInv, NeverTwiceInOneTerm
  <2>2. ASSUME NEW e \in log PROVE EntryInv(e)'
    <3> DEFINE m == chain[e.write][e.hop].at
    <3>1. /\ EntryInv(e) /\ e.write \in Writes /\ e.hop \in 1 .. Len(chain[e.write])
          /\ e.term \in 1 .. Term
      BY DEF IInv, LogInv, Types, EntryType, EntryInv
    <3>2. m \in Machines
      BY <3>1, EachHandler DEF IInv
    <3>3. view[m].term \in Nat /\ view'[m].term \in Nat /\ view[m].term <= view'[m].term
      BY <3>2 DEF IInv, Types
    <3>4. e.term < view[m].term => e.term < view'[m].term
      BY SMTT(30), <1>1, <3>1, <3>3
    <3>5. leaders'[e.term] = leaders[e.term] /\ e.term \in 1 .. Term'
      BY <1>1, <3>1
    <3> QED BY <1>1, <3>1, <3>4, <3>5 DEF EntryInv
  <2> QED BY <1>1, <2>1, <2>2 DEF LogInv
<1>4. OkInv'
  BY <1>1 DEF IInv, OkInv
<1> QED BY <1>2, <1>3, <1>4 DEF IInv

LEMMA ElectionKeeps ==
    ASSUME IInv, NEW m \in Machines, ElectionStep(m)
    PROVE  IInv'
<1>1. /\ leaders' = Append(leaders, m)
      /\ view' = [view EXCEPT ![m] = [term |-> Term + 1, sure |-> TRUE]]
      /\ ~LeaderUp \/ Term < MaxTerm
      /\ UNCHANGED writeVars /\ UNCHANGED nodeVars
  BY DEF ElectionStep, Elect
<1>2. /\ Term \in Nat /\ leaders' \in Seq(Machines) /\ Term' = Term + 1 /\ leaders'[Term + 1] = m
      /\ \A t \in 1 .. Term : leaders'[t] = leaders[t]
  BY <1>1 DEF IInv, Types, Term
<1>3. /\ view' \in [Machines -> [term : Nat, sure : BOOLEAN]]
      /\ view'[m].term = Term + 1 /\ view'[m].sure
      /\ \A n \in Machines : n # m => view'[n] = view[n]
  BY <1>1, <1>2 DEF IInv, Types
<1>4. Types'
  BY <1>1, <1>2, <1>3 DEF IInv, Types, writeVars, nodeVars
<1>5. \A n \in Machines : view[n].term \in Nat /\ view[n].term <= Term
  BY DEF IInv, Types, ViewInv
<1>6. ViewInv'
  <2> SUFFICES ASSUME NEW n \in Machines
      PROVE  /\ view'[n].term <= Term'
             /\ view'[n].sure => view'[n].term > 0
             /\ \A t \in 1 .. Term' : leaders'[t] = n => t <= view'[n].term
    BY DEF ViewInv
  <2>1. CASE n = m
    BY <1>2, <1>3, <2>1
  <2>2. CASE n # m
    <3>1. view'[n] = view[n] /\ view[n].term <= Term /\ (view[n].sure => view[n].term > 0)
      BY <1>3, <2>2 DEF IInv, ViewInv
    <3>2. ASSUME NEW t \in 1 .. Term', leaders'[t] = n PROVE t <= view[n].term
      <4>1. t \in 1 .. Term
        BY <1>2, <2>2, <3>2
      <4>2. leaders[t] = n
        BY <1>2, <3>2, <4>1
      <4> QED BY <4>1, <4>2 DEF IInv, ViewInv
    <3> QED BY <1>2, <1>5, <3>1, <3>2
  <2> QED BY <2>1, <2>2
<1>7. BoundInv'
  <2>1. LeaderUp'
    BY <1>2, <1>3 DEF LeaderUp, LeadsNow, Leads, KnownLeader
  <2>2. stops' = stops /\ stops \in Nat /\ Term + 1 <= MaxTerm + stops + 1
    BY <1>1, <1>2, BoundsAssumption DEF IInv, BoundInv, nodeVars
  <2> QED BY <1>2, <2>1, <2>2 DEF IInv, BoundInv
<1>8. \A n \in Machines : view[n].term <= view'[n].term
  <2> SUFFICES ASSUME NEW n \in Machines PROVE view[n].term <= view'[n].term
    OBVIOUS
  <2>1. view[n].term \in Nat /\ view[n].term <= Term
    BY <1>5
  <2>2. view'[n].term = view[n].term \/ view'[n].term = Term + 1
    BY <1>3
  <2> QED BY <1>2, <2>1, <2>2
<1>9. Term <= Term'
  BY <1>2
<1> QED BY <1>1, <1>2, <1>4, <1>6, <1>7, <1>8, <1>9, ClusterStepKeeps

LEMMA ViewStepKeeps ==
    ASSUME IInv, NEW m \in Machines, ViewStep(m)
    PROVE  IInv'
<1>1. PICK new \in [term : Nat, sure : BOOLEAN] :
          /\ view' = [view EXCEPT ![m] = new]
          /\ view[m].term <= new.term /\ new.term <= Term
          /\ new.sure => new.term > 0
          /\ LeaderUp /\ m = leaders[Term] => new = view[m]
  <2>1. Term \in Nat /\ view[m] \in [term : Nat, sure : BOOLEAN] /\ view[m].term <= Term
    BY LengthsAreNat DEF IInv, Types, ViewInv
  <2>2. CASE Hear(m)
    <3> DEFINE new == [term |-> Term, sure |-> TRUE]
    <3>1. Term > 0 /\ view' = [view EXCEPT ![m] = new] /\ ~(view[m].sure /\ view[m].term = Term)
      BY <2>2 DEF Hear, LeaderUp
    <3>2. ~(LeaderUp /\ m = leaders[Term])
      BY <3>1 DEF LeaderUp, LeadsNow, Leads
    <3>3. new \in [term : Nat, sure : BOOLEAN] /\ new.term = Term
      BY <2>1
    <3> HIDE DEF new
    <3> USE <3>3
    <3> WITNESS new \in [term : Nat, sure : BOOLEAN]
    <3> QED BY <2>1, <3>1, <3>2, <3>3
  <2>3. CASE Doubt(m)
    <3> DEFINE new == [view[m] EXCEPT !.sure = FALSE]
    <3>1. view' = [view EXCEPT ![m] = new] /\ ~(LeaderUp /\ view[m].term = Term)
      BY <2>1, <2>3 DEF Doubt, IInv, Types
    <3>2. new \in [term : Nat, sure : BOOLEAN] /\ new.term = view[m].term /\ ~new.sure
      BY <2>1
    <3>3. ~(LeaderUp /\ m = leaders[Term])
      BY <3>1 DEF LeaderUp, LeadsNow
    <3> HIDE DEF new
    <3> USE <3>2
    <3>4. view[m].term \in Nat /\ view[m].term <= view[m].term
      BY <2>1
    <3> WITNESS new \in [term : Nat, sure : BOOLEAN]
    <3> QED BY <2>1, <3>1, <3>2, <3>3, <3>4
  <2> QED BY <2>2, <2>3 DEF ViewStep
<1>2. UNCHANGED <<leaders, writeVars, nodeVars>>
  BY DEF ViewStep, Hear, Doubt
<1>3. /\ view' \in [Machines -> [term : Nat, sure : BOOLEAN]]
      /\ view'[m] = new
      /\ \A n \in Machines : n # m => view'[n] = view[n]
  BY <1>1 DEF IInv, Types
<1>4. Types' /\ Term' = Term /\ Term \in Nat
  BY <1>2, <1>3, LengthsAreNat DEF IInv, Types, Term, writeVars, nodeVars
<1>5. \A n \in Machines : view[n].term \in Nat /\ view[n].term <= view'[n].term
  BY <1>1, <1>3 DEF IInv, Types
<1>6. ViewInv'
  <2> SUFFICES ASSUME NEW n \in Machines
      PROVE  /\ view'[n].term <= Term
             /\ view'[n].sure => view'[n].term > 0
             /\ \A t \in 1 .. Term : leaders[t] = n => t <= view'[n].term
    BY <1>2, <1>4 DEF ViewInv
  <2>1. view'[n].term <= Term /\ (view'[n].sure => view'[n].term > 0)
    BY <1>1, <1>3 DEF IInv, ViewInv
  <2>2. ASSUME NEW t \in 1 .. Term, leaders[t] = n PROVE t <= view'[n].term
    <3>1. t <= view[n].term
      BY <2>2 DEF IInv, ViewInv
    <3>2. view[n].term \in Nat /\ view'[n].term \in Nat /\ view[n].term <= view'[n].term
      BY <1>3, <1>5
    <3> QED BY <1>4, <3>1, <3>2
  <2> QED BY <2>1, <2>2
<1>7. BoundInv'
  <2>1. LeaderUp => LeaderUp'
    <3> SUFFICES ASSUME LeaderUp PROVE LeaderUp'
      OBVIOUS
    <3>1. Term > 0 /\ leaders[Term] \in Machines
      BY <1>4 DEF LeaderUp, IInv, Types, Term
    <3>2. view'[leaders[Term]] = view[leaders[Term]]
      BY <1>1, <1>3, <3>1
    <3> QED BY <1>2, <1>4, <3>1, <3>2 DEF LeaderUp, LeadsNow, Leads, KnownLeader
  <2> QED BY <1>2, <1>4, <2>1 DEF IInv, BoundInv, nodeVars
<1>8. Term <= Term' /\ \A t \in 1 .. Term : leaders'[t] = leaders[t]
  BY <1>2, <1>4
<1> QED BY <1>2, <1>4, <1>5, <1>6, <1>7, <1>8, ClusterStepKeeps

(* A node that stops breaks off its handlers. *)
LEMMA StopKeeps ==
    ASSUME IInv, NEW m \in Machines, Stop(m)
    PROVE  IInv'
<1> DEFINE Broken(x) == IF x.at = m /\ x.step \notin Answered THEN [x EXCEPT !.step = "error"] ELSE x
<1>1. /\ stops < MaxStops /\ stops' = stops + 1 /\ serving' = serving \ {m}
      /\ view' = [view EXCEPT ![m].sure = @ /\ ~Leads(m)]
      /\ UNCHANGED <<leaders, log, applied>>
      /\ chain' = [w \in Writes |-> [j \in DOMAIN chain[w] |-> Broken(chain[w][j])]]
  BY DEF Stop
<1>2. ASSUME NEW x \in HandlerType
      PROVE  /\ Broken(x) \in HandlerType
             /\ Broken(x).at = x.at /\ Broken(x).via = x.via /\ Broken(x).attempt = x.attempt
             /\ Broken(x).step = x.step \/ Broken(x).step = "error"
  BY DEF HandlerType, Steps
<1> HIDE DEF Broken
<1>3. ASSUME NEW w \in Writes
      PROVE  /\ chain'[w] \in Seq(HandlerType) /\ Len(chain'[w]) = Len(chain[w])
             /\ \A j \in 1 .. Len(chain[w]) : chain'[w][j] = Broken(chain[w][j])
  <2>1. Len(chain[w]) \in Nat /\ DOMAIN chain[w] = 1 .. Len(chain[w])
    BY DEF IInv, Types
  <2>2. chain'[w] = [j \in 1 .. Len(chain[w]) |-> Broken(chain[w][j])]
    BY <1>1, <2>1
  <2>3. \A j \in 1 .. Len(chain[w]) : Broken(chain[w][j]) \in HandlerType
    BY <1>2, EachHandler DEF IInv
  <2> QED BY <2>1, <2>2, <2>3
<1>4. \A w \in Writes : \A j \in 1 .. Len(chain[w]) :
          /\ chain'[w][j].at = chain[w][j].at /\ chain'[w][j].via = chain[w][j].via
          /\ chain'[w][j].attempt = chain[w][j].attempt
          /\ chain'[w][j].step = chain[w][j].step \/ chain'[w][j].step = "error"
  BY <1>2, <1>3, EachHandler DEF IInv
<1>5. chain' \in [Writes -> Seq(HandlerType)]
  BY <1>1, <1>3
<1>6. /\ view' \in [Machines -> [term : Nat, sure : BOOLEAN]]
      /\ \A n \in Machines : view'[n].term = view[n].term /\ (view'[n].sure => view[n].sure)
  <2> DEFINE new == [view[m] EXCEPT !.sure = @ /\ ~Leads(m)]
  <2>1. view[m] \in [term : Nat, sure : BOOLEAN]
    BY DEF IInv, Types
  <2>2. new = [view[m] EXCEPT !.sure = view[m].sure /\ ~Leads(m)]
    BY <2>1
  <2>3. (view[m].sure /\ ~Leads(m)) \in BOOLEAN
    BY DEF Leads
  <2>4. new \in [term : Nat, sure : BOOLEAN] /\ new.term = view[m].term /\ (new.sure => view[m].sure)
    <3> DEFINE b == view[m].sure /\ ~Leads(m)
    <3>1. b \in BOOLEAN /\ (b => view[m].sure)
      BY <2>3
    <3> HIDE DEF b
    <3> QED BY <2>1, <2>2, <3>1 DEF b
  <2>5. view' = [view EXCEPT ![m] = new]
    BY <1>1 DEF IInv, Types
  <2> HIDE DEF new
  <2> QED BY <2>4, <2>5 DEF IInv, Types
<1>7. Types' /\ Term' = Term
  BY <1>1, <1>5, <1>6 DEF IInv, Types, Term
<1>8. ViewInv'
  BY <1>1, <1>6, <1>7 DEF IInv, ViewInv
<1>9. ChainInv'
  <2> SUFFICES ASSUME NEW w \in Writes, NEW j \in 1 .. Len(chain[w]) PROVE LinkInv(w, j)'
    BY <1>3 DEF ChainInv
  <2>1. LinkInv(w, j) /\ Len(chain[w]) \in Nat
    BY LengthsAreNat DEF IInv, ChainInv
  <2>2. \A i \in 1 .. j - 1 : chain'[w][i].via = chain[w][i].via
    BY <1>4, <2>1
  <2>3. /\ chain'[w][j].at = chain[w][j].at /\ chain'[w][j].via = chain[w][j].via
        /\ chain'[w][j].attempt = chain[w][j].attempt
        /\ chain'[w][j].step = chain[w][j].step \/ chain'[w][j].step = "error"
        /\ Len(chain'[w]) = Len(chain[w])
    BY <1>3, <1>4
  <2> QED BY <1>1, <1>7, <2>1, <2>2, <2>3 DEF LinkInv
<1>10. LogInv'
  <2>1. NeverTwiceInOneTerm'
    BY <1>1 DEF IInv, LogInv, NeverTwiceInOneTerm
  <2>2. ASSUME NEW e \in log PROVE EntryInv(e)'
    <3>1. /\ EntryInv(e) /\ e.write \in Writes /\ e.hop \in 1 .. Len(chain[e.write])
          /\ Len(chain[e.write]) \in Nat
      BY LengthsAreNat DEF IInv, LogInv, Types, EntryType, EntryInv
    <3>2. /\ chain'[e.write][e.hop].at = chain[e.write][e.hop].at
          /\ chain'[e.write][e.hop].attempt = chain[e.write][e.hop].attempt
          /\ \/ chain'[e.write][e.hop].step = chain[e.write][e.hop].step
             \/ chain'[e.write][e.hop].step = "error"
          /\ Len(chain'[e.write]) = Len(chain[e.write])
      BY <1>3, <1>4, <3>1
    <3>3. e.hop < Len(chain[e.write]) => chain'[e.write][e.hop + 1].via = chain[e.write][e.hop + 1].via
      <4>1. e.hop < Len(chain[e.write]) => e.hop + 1 \in 1 .. Len(chain[e.write])
        BY <3>1
      <4> QED BY <1>4, <3>1, <4>1
    <3>4. view'[chain[e.write][e.hop].at].term = view[chain[e.write][e.hop].at].term
      BY <1>6, <3>1, EachHandler DEF IInv
    <3>5. view'[chain'[e.write][e.hop].at].term = view[chain[e.write][e.hop].at].term
      BY <3>2, <3>4
    <3>6. /\ e.attempt = chain'[e.write][e.hop].attempt => chain'[e.write][e.hop].step # "submit"
          /\ chain'[e.write][e.hop].step = "waiting" \/ e.attempt < chain'[e.write][e.hop].attempt
                => e.term < view'[chain'[e.write][e.hop].at].term
      BY <3>1, <3>2, <3>5 DEF EntryInv
    <3>7. e.hop < Len(chain'[e.write]) => e.term < chain'[e.write][e.hop + 1].via
      BY <3>1, <3>2, <3>3 DEF EntryInv
    <3> QED BY <1>1, <1>7, <3>1, <3>2, <3>6, <3>7 DEF EntryInv
  <2> QED BY <1>1, <2>1, <2>2 DEF LogInv
<1>11. OkInv'
  <2> SUFFICES ASSUME NEW w \in Writes, NEW j \in 1 .. Len(chain[w]), chain'[w][j].step = "ok"
      PROVE  \E e \in applied : e.write = w
    BY <1>1, <1>3 DEF OkInv
  <2>1. chain[w][j].step = "ok"
    BY <1>4
  <2> QED BY <2>1 DEF IInv, OkInv
<1>12. BoundInv'
  <2>1. Term \in Nat /\ stops \in 0 .. MaxStops /\ Term <= MaxTerm + stops + 1
    BY LengthsAreNat DEF IInv, BoundInv
  <2> QED BY <1>1, <1>7, <2>1, BoundsAssumption, StopsAssumption DEF BoundInv
<1> QED BY <1>7, <1>8, <1>9, <1>10, <1>11, <1>12 DEF IInv

LEMMA StartKeeps ==
    ASSUME IInv, NEW m \in Machines, Start(m)
    PROVE  IInv'
<1>1. UNCHANGED <<leaders, view, writeVars, stops>> /\ serving' = serving \cup {m}
  BY DEF Start, clusterVars
<1>2. Types' /\ Term' = Term /\ Term \in Nat
  BY <1>1, LengthsAreNat DEF IInv, Types, Term, writeVars
<1>3. ViewInv' /\ BoundInv'
  BY <1>1, <1>2 DEF IInv, ViewInv, BoundInv, LeaderUp, LeadsNow, Leads, KnownLeader
<1>4. \A n \in Machines : view[n].term <= view'[n].term
  BY <1>1 DEF IInv, Types
<1> QED BY <1>1, <1>2, <1>3, <1>4, ClusterStepKeeps

-----------------------------------------------------------------------------
(* The invariant holds at first, and every step keeps it. *)

LEMMA InitHolds == Init => IInv
<1> SUFFICES ASSUME Init PROVE IInv
  OBVIOUS
<1>1. Types /\ Term = 0
  BY DEF Init, Types, Term
<1>2. ViewInv /\ ChainInv /\ LogInv /\ OkInv
  BY <1>1 DEF Init, ViewInv, ChainInv, LogInv, NeverTwiceInOneTerm, OkInv
<1>3. BoundInv
  BY <1>1, BoundsAssumption, StopsAssumption DEF Init, BoundInv
<1> QED BY <1>1, <1>2, <1>3 DEF IInv

LEMMA StepHolds == IInv /\ [Next]_vars => IInv'
<1> SUFFICES ASSUME IInv, [Next]_vars PROVE IInv'
  OBVIOUS
<1>1. ASSUME NEW w \in Writes, Request(w) PROVE IInv'
  BY <1>1, RequestKeeps
<1>2. ASSUME NEW h \in Handlers, GoesOn(h) \/ WriteFails(h) PROVE IInv'
  <2>1. CASE Submit(h)
    BY <2>1, SubmitKeeps
  <2>2. CASE Forward(h)
    BY <2>2, ForwardKeeps
  <2>3. CASE Hold(h)
    BY <2>3, HoldKeeps
  <2>4. CASE TryAgain(h)
    BY <2>4, TryAgainKeeps
  <2>5. CASE Respond(h)
    BY <2>5, RespondKeeps
  <2>6. CASE Relay(h)
    BY <2>6, RelayKeeps
  <2>7. CASE ForwardFails(h)
    BY <2>7, ForwardFailsKeeps
  <2>8. CASE WriteFails(h)
    BY <2>8, WriteFailsKeeps
  <2> QED BY <1>2, <2>1, <2>2, <2>3, <2>4, <2>5, <2>6, <2>7, <2>8 DEF GoesOn
<1>3. ASSUME NEW e \in log, Apply(e) PROVE IInv'
  BY <1>3, ApplyKeeps
<1>4. ASSUME NEW m \in Machines, ElectionStep(m) \/ ViewStep(m) \/ Stop(m) \/ Start(m) PROVE IInv'
  BY <1>4, ElectionKeeps, ViewStepKeeps, StopKeeps, StartKeeps
<1>5. CASE UNCHANGED vars
  <2>1. UNCHANGED <<leaders, view, chain, log, applied, serving, stops>>
    BY <1>5 DEF vars, clusterVars, writeVars, nodeVars
  <2>2. Types' /\ Term' = Term /\ Term \in Nat
    BY <2>1, LengthsAreNat DEF IInv, Types, Term
  <2>3. ViewInv' /\ BoundInv'
    BY <2>1, <2>2 DEF IInv, ViewInv, BoundInv, LeaderUp, LeadsNow, Leads, KnownLeader
  <2>4. \A n \in Machines : view[n].term <= view'[n].term
    BY <2>1 DEF IInv, Types
  <2> QED BY <2>1, <2>2, <2>3, <2>4, ClusterStepKeeps DEF writeVars
<1> QED BY <1>1, <1>2, <1>3, <1>4, <1>5 DEF Next

LEMMA Always == Spec => []IInv
BY InitHolds, StepHolds, PTL DEF Spec

-----------------------------------------------------------------------------
(* What it says of the system. *)

LEMMA ShapeFollows == IInv => TypeOK
<1> SUFFICES ASSUME IInv PROVE TypeOK
  OBVIOUS
<1>1. /\ Term \in Nat /\ MaxHops \in Nat /\ Term < MaxHops /\ Term + 1 <= MaxHops
      /\ stops \in 0 .. MaxStops
  BY LengthsAreNat, BoundsAssumption, StopsAssumption DEF IInv, BoundInv, MaxHops
<1>2. \A m \in Machines : view[m] \in [term : 0 .. Term, sure : BOOLEAN]
  BY <1>1 DEF IInv, Types, ViewInv
<1>3. ASSUME NEW w \in Writes
      PROVE  chain[w] \in Seq([at : Machines, via : 0 .. Term, attempt : 0 .. 1,
                step : {"submit", "appended", "waiting", "forwarded", "ok", "error"}])
  <2> DEFINE T == [at : Machines, via : 0 .. Term, attempt : 0 .. 1,
                step : {"submit", "appended", "waiting", "forwarded", "ok", "error"}]
  <2>1. chain[w] \in Seq(HandlerType)
    BY DEF IInv, Types
  <2>2. ASSUME NEW j \in 1 .. Len(chain[w]) PROVE chain[w][j] \in T
    <3>1. chain[w][j] \in HandlerType /\ chain[w][j].via <= Term
      BY EachHandler DEF IInv, ChainInv, LinkInv
    <3> QED BY <1>1, <3>1 DEF HandlerType, Steps
  <2> HIDE DEF T
  <2>3. chain[w] \in Seq(T)
    BY <2>1, <2>2
  <2> QED BY <2>3 DEF T
<1>4. ASSUME NEW e \in log PROVE e \in Entry
  <2>1. e \in EntryType /\ e.term \in 1 .. Term /\ e.hop \in 1 .. Len(chain[e.write]) /\ e.write \in Writes
    BY DEF IInv, Types, LogInv, EntryInv, EntryType
  <2>2. Len(chain[e.write]) \in Nat
    BY <2>1, LengthsAreNat DEF IInv
  <2>3. Len(chain[e.write]) \in 1 .. Len(chain[e.write])
    BY <2>1, <2>2
  <2>4. Len(chain[e.write]) - 1 <= Term
    <3>1. LinkInv(e.write, Len(chain[e.write])) /\ chain[e.write][Len(chain[e.write])].via \in Nat
      BY <2>1, <2>3, EachHandler DEF IInv, ChainInv
    <3> QED BY <1>1, <2>2, <3>1 DEF LinkInv
  <2>5. e.hop \in 1 .. MaxHops
    BY <1>1, <2>1, <2>2, <2>4
  <2> QED BY <2>1, <2>5 DEF EntryType, Entry
<1> QED BY <1>1, <1>2, <1>3, <1>4 DEF IInv, Types, TypeOK

(* The state keeps its shape, and terms and handlers stay below their bound: forward_write. *)
THEOREM WriteTypes == Spec => []TypeOK
BY Always, ShapeFollows, PTL

(* Forwarding does not go round: a handler passes a write on only to the leader of a later term
   than the one it was itself named in (handle_write, forward_write). *)
THEOREM WriteClimbs == Spec => []ForwardsClimb
<1>1. IInv => ForwardsClimb
  <2> SUFFICES ASSUME IInv, NEW w \in Writes, NEW k \in DOMAIN chain[w] \ {1}
      PROVE  chain[w][k - 1].via < chain[w][k].via
    BY DEF ForwardsClimb
  <2>1. Len(chain[w]) \in Nat /\ k \in 1 .. Len(chain[w])
    BY DEF IInv, Types
  <2>2. LinkInv(w, k) /\ k - 1 \in 1 .. k - 1
    BY <2>1 DEF IInv, ChainInv
  <2> QED BY <2>2 DEF LinkInv
<1> QED BY <1>1, Always, PTL

(* No leader has a write in its log twice, however often handle_write and the nodes it forwards
   to retry it. *)
THEOREM WriteOncePerTerm == Spec => []NeverTwiceInOneTerm
<1>1. IInv => NeverTwiceInOneTerm
  BY DEF IInv, LogInv
<1> QED BY <1>1, Always, PTL

(* A response relayed to the client is that of an entry that was applied. *)
THEOREM WriteAnswerTrue == Spec => []AnsweredMeansApplied
<1>1. IInv => AnsweredMeansApplied
  <2> SUFFICES ASSUME IInv, NEW w \in Writes, chain[w] # <<>>, chain[w][1].step = "ok"
      PROVE  \E e \in applied : e.write = w
    BY DEF AnsweredMeansApplied
  <2>1. 1 \in 1 .. Len(chain[w])
    BY DEF IInv, Types
  <2> QED BY <2>1 DEF IInv, OkInv
<1> QED BY <1>1, Always, PTL

=============================================================================
