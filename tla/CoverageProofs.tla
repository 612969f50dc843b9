---------------------------- MODULE CoverageProofs ----------------------------
(***************************************************************************)
(* Proofs about how the leader of Peers deals out the database, for any    *)
(* number of processes, connections, deaths of followers, restarts, and    *)
(* messages to a read.                                                     *)
(***************************************************************************)
EXTENDS PeersProofs

\* Leaders live.  A leader's death can leave a LOAD on its way that a follower
\* handles after that of the next leader.
LeadersLive == Mortal = "followers"

-----------------------------------------------------------------------------
\* The inductive invariant: LOADs, one by one.

\* Where LOADs are in a stream, and whether c's server has one in hand.
Loads(q) == {j \in 1..Len(q) : q[j].type = "LOAD"}
InHand(c) ==
  conns[c].input.type = "LOAD" /\ conns[c].server \in {"spinning", "handling", "loading"}

\* Only what a leader's p->connection is carries LOADs.
Carries(c) == conns[c].input.type = "LOAD" \/ Loads(conns[c].req) # {}
FromLeader(c) ==
  Carries(c) =>
    /\ conns[c].from \in leaders /\ conns[c].to \in Nodes
    /\ link[conns[c].from][conns[c].to] = c
LoadsFromLeaders == \A c \in ConnIds : FromLeader(c)

\* A ping is the last request until it is answered, and a LOAD, which follows an
\* answered ping, the first.
InOrder(c) ==
  /\ Pings(conns[c].req) \subseteq {Len(conns[c].req)}
  /\ PingHandled(c) => conns[c].req = <<>>
  /\ conns[c].resp # <<>> => conns[c].req = <<>> /\ conns[c].server = "reading"
  /\ Loads(conns[c].req) # {} => Loads(conns[c].req) = {1} /\ conns[c].server = "reading"
Orderly(n, c) == ~AskingId(n, c) /\ Live(c) => InOrder(c)
AllOrderly == \A n, m \in Nodes : link[n][m] # NoConn => Orderly(n, link[n][m])

LInv == LoadsFromLeaders /\ AllOrderly

\* The peers load_database visits, and those it has heard of in this round.
Members(n) == {m \in Nodes : link[n][m] # NoConn}
AllLive(n) == \A m \in Members(n) : Live(link[n][m])
Heard(n) == Members(n) \ Left(n)

\* The peers in S have been dealt the fragments in T, each to one of them.
DealtOut(n, S, T) ==
  /\ \A m \in S : Dealt(n, m) \subseteq T
  /\ \A f \in T : \E m \in S : f \in Dealt(n, m)
  /\ \A l, m \in S : l # m => Dealt(n, l) \cap Dealt(n, m) = {}

\* As long as no connection of the only leader is lost, the rounds count all
\* its peers and deal out slot after slot.
Covering(n) ==
  leaders = {n} /\ AllLive(n) =>
    /\ main[n].at = "count" => main[n].count = 1 + Cardinality(Heard(n))
    /\ main[n].at = "share" =>
         /\ main[n].count = 1 + Cardinality(Members(n))
         /\ main[n].slot = 1 + Cardinality(Heard(n))
         /\ DealtOut(n, Heard(n), {f \in Fragments : f % main[n].count \in 1..(main[n].slot - 1)})
    /\ main[n].at \in {"loop", "check"} => DealtOut(n, Members(n), Fragments \ db[n])

CInv == \A n \in Nodes : Covering(n)

-----------------------------------------------------------------------------
\* Requests in a stream.

LEMMA RequestsInRest ==
  ASSUME NEW q \in Seq(Message), NEW k \in Nat \ {0}
  PROVE  /\ Loads(q) \subseteq {1} => Loads(Rest(q, k)) = {}
         /\ Pings(q) \subseteq {Len(q)} => Pings(Rest(q, k)) \subseteq {Len(Rest(q, k))}
         /\ q # <<>> /\ Head(q) = Ping /\ Pings(q) \subseteq {Len(q)} => Rest(q, k) = <<>>
         /\ q # <<>> => Head(q) = q[1] /\ (Head(q).type = "LOAD" <=> 1 \in Loads(q))
<1>1. PICK r \in Seq(Message) : r = Rest(q, k)
  BY RestOfSeq
<1>2. Len(q) \in Nat /\ Len(r) \in Nat
  BY LenProperties
<1>3. \A j \in 1..Len(r) : j + k \in 1..Len(q) /\ r[j] = q[j + k]
  BY <1>1, RestOfSeq
<1>4. Loads(q) \subseteq {1} => Loads(r) = {}
  <2> SUFFICES ASSUME Loads(q) \subseteq {1}, NEW j \in Loads(r) PROVE FALSE
    OBVIOUS
  <2>1. j \in 1..Len(r) /\ r[j].type = "LOAD"
    BY DEF Loads
  <2>2. j + k \in 1..Len(q) /\ q[j + k].type = "LOAD"
    BY <1>3, <2>1
  <2>3. j + k = 1
    BY <2>2 DEF Loads
  <2> QED
    BY <1>2, <2>1, <2>3
<1>5. Pings(q) \subseteq {Len(q)} => Pings(r) \subseteq {Len(r)}
  <2> SUFFICES ASSUME Pings(q) \subseteq {Len(q)}, NEW j \in Pings(r) PROVE j = Len(r)
    OBVIOUS
  <2>1. j \in 1..Len(r) /\ r[j] = Ping
    BY DEF Pings
  <2>2. j + k \in 1..Len(q) /\ q[j + k] = Ping
    BY <1>3, <2>1
  <2>3. j + k = Len(q)
    BY <2>2 DEF Pings
  <2>4. Len(r) \in 1..Len(r)
    BY <1>2, <2>1
  <2>5. Len(r) + k \in 1..Len(q)
    BY <1>3, <2>4
  <2> QED
    BY <1>2, <2>1, <2>3, <2>5
<1>6. q # <<>> => Head(q) = q[1] /\ 1 \in 1..Len(q)
  BY EmptySeq, HeadTailProperties, <1>2
<1>7. q # <<>> /\ Head(q) = Ping /\ Pings(q) \subseteq {Len(q)} => r = <<>>
  <2> SUFFICES ASSUME q # <<>>, Head(q) = Ping, Pings(q) \subseteq {Len(q)} PROVE r = <<>>
    OBVIOUS
  <2>1. 1 \in Pings(q)
    BY <1>6 DEF Pings
  <2>2. Len(q) <= k
    BY <1>2, <2>1
  <2> QED
    BY <1>1, <2>2, RestOfSeq
<1> QED
  BY <1>1, <1>4, <1>5, <1>6, <1>7 DEF Loads

LEMMA RequestsInAppend ==
  ASSUME NEW q \in Seq(Message), NEW msg \in Message
  PROVE  /\ Append(q, msg) \in Seq(Message)
         /\ msg.type # "LOAD" => Loads(Append(q, msg)) = Loads(q)
         /\ q = <<>> => /\ Loads(Append(q, msg)) \subseteq {1}
                        /\ Append(q, msg)[1] = msg /\ Len(Append(q, msg)) = 1
         /\ Pings(q) = {} => Pings(Append(q, msg)) \subseteq {Len(Append(q, msg))}
<1>1. PICK r \in Seq(Message) : r = Append(q, msg)
  BY AppendProperties
<1>2. PICK l \in Nat : l = Len(q)
  BY LenProperties
<1>3. /\ Len(r) = l + 1 /\ \A j \in 1..l : r[j] = q[j]
      /\ r[l + 1] = msg
  BY <1>1, <1>2, AppendProperties
<1>4. \A j \in 1..(l + 1) : j \in 1..l \/ j = l + 1
  BY <1>2
<1>5. 1..l \subseteq 1..(l + 1)
  BY <1>2
<1>6. msg.type # "LOAD" => Loads(r) = Loads(q)
  BY <1>2, <1>3, <1>4, <1>5 DEF Loads
<1>7. q = <<>> => l = 0
  BY <1>2
<1>8. q = <<>> => Loads(r) \subseteq {1} /\ r[1] = msg /\ Len(r) = 1
  BY <1>3, <1>7 DEF Loads
<1>9. Pings(q) = {} => Pings(r) \subseteq {Len(r)}
  BY <1>2, <1>3, <1>4, <1>5 DEF Pings
<1> QED
  BY <1>1, <1>6, <1>8, <1>9

LEMMA NoRequestsIn == Loads(<<>>) = {} /\ Pings(<<>>) = {}
BY DEF Loads, Pings

-----------------------------------------------------------------------------
\* What a step of peer_main does to its connection.

ReadsRequest(c) ==
  /\ conns[c].server = "reading" /\ conns'[c].server = "spinning"
  /\ conns[c].req # <<>> /\ conns'[c].input = Head(conns[c].req)
  /\ \E k \in Nat \ {0} : conns'[c].req = Rest(conns[c].req, k)
  /\ conns'[c].resp = conns[c].resp /\ db' = db
AnswersPing(c) ==
  /\ PingHandled(c) /\ conns'[c].server = "reading"
  /\ conns'[c].req = conns[c].req /\ conns'[c].input = conns[c].input /\ db' = db
GoesOn(c) ==
  /\ conns'[c].req = conns[c].req /\ conns'[c].input = conns[c].input
  /\ conns'[c].resp = conns[c].resp
  /\ conns[c].server # "reading" /\ ~PingHandled(c) /\ ~PingHandled(c)'
  /\ \/ conns[c].server = "loading" /\ InHand(c) /\ conns'[c].server = "reading"
        /\ db' = [db EXCEPT ![conns[c].to] = conns[c].input.body]
     \/ conns[c].server # "loading" /\ (InHand(c)' <=> InHand(c)) /\ db' = db

LEMMA ServerEffect ==
  ASSUME IInv, NEW c \in ConnIds, ServerStep(c)
  PROVE  /\ UNCHANGED <<leaders, link, main, phase>>
         /\ \A d \in ConnIds : d # c => conns'[d] = conns[d]
         /\ \/ /\ conns'[c] = Closed \/ conns'[c].input = conns[c].input
               /\ conns'[c] = Closed \/ conns'[c].req = conns[c].req
               /\ conns'[c] = Closed \/ conns'[c].from = conns[c].from
               /\ conns'[c] = Closed \/ conns'[c].to = conns[c].to
               /\ ~Live(c) /\ ~Live(c)' /\ db' = db
            \/ /\ conns'[c].from = conns[c].from /\ conns'[c].to = conns[c].to
               /\ conns'[c].open = conns[c].open
               /\ ReadsRequest(c) \/ AnswersPing(c) \/ GoesOn(c)
<1>1. /\ conns \in [ConnIds -> Connection] /\ conns[c] \in Connection
      /\ conns[c].req \in Seq(Message) /\ conns[c].input \in Message
  BY DEF IInv, FieldsTyped, Connection
<1>2. EndHeld(c) /\ Ping \in Message
  BY MessagesTyped DEF IInv, EndsHeld
<1>3. UNCHANGED <<leaders, link, main, phase>>
  BY DEF ServerStep, ServerRead, ServerReadError, ServerExit, ServerHandle, ServerLoad,
         ServerLoaded, procVars
<1>4. CASE \E k \in 1..MaxRead : ServerRead(c, k)
  <2>1. PICK k \in 1..MaxRead : ServerRead(c, k)
    BY <1>4
  <2> DEFINE r == [conns[c] EXCEPT !.req = Rest(conns[c].req, k), !.server = "spinning",
                                   !.input = Head(conns[c].req)]
  <2>2. /\ conns' = [conns EXCEPT ![c] = r] /\ db' = db
        /\ conns[c].server = "reading" /\ k \in Reads(conns[c].req)
    BY <2>1 DEF ServerRead
  <2>3. /\ r.from = conns[c].from /\ r.to = conns[c].to /\ r.open = conns[c].open
        /\ r.req = Rest(conns[c].req, k) /\ r.server = "spinning" /\ r.resp = conns[c].resp
        /\ r.input = Head(conns[c].req)
    BY <1>1 DEF Connection
  <2>4. conns[c].req # <<>> /\ k \in Nat \ {0}
    BY <1>1, <2>2, ConnectionAssumption DEF Reads
  <2> HIDE DEF r
  <2>5. conns'[c] = r /\ \A d \in ConnIds : d # c => conns'[d] = conns[d]
    BY <1>1, <2>2
  <2> QED
    BY <1>3, <2>2, <2>3, <2>4, <2>5 DEF ReadsRequest
<1>5. CASE ServerReadError(c) \/ ServerExit(c)
  <2>1. "from" \notin conns[c].open /\ db' = db
    BY <1>5 DEF ServerReadError, ServerExit
  <2>2. PICK r : /\ conns' = [conns EXCEPT ![c] = r]
                 /\ \/ r = Closed
                    \/ r = [conns[c] EXCEPT !.server = "spinning", !.failed = "yes"]
    BY <1>5 DEF ServerReadError, ServerExit
  <2>3. conns'[c] = r /\ \A d \in ConnIds : d # c => conns'[d] = conns[d]
    BY <1>1, <2>2
  <2>4. \/ r = Closed
        \/ /\ r.from = conns[c].from /\ r.to = conns[c].to /\ r.open = conns[c].open
           /\ r.req = conns[c].req /\ r.input = conns[c].input
    BY <1>1, <2>2 DEF Connection
  <2>5. Closed.open = {}
    BY DEF Closed
  <2>6. ~Live(c) /\ ~Live(c)'
    BY <2>1, <2>3, <2>4, <2>5 DEF Live
  <2> QED
    BY <1>3, <2>1, <2>3, <2>4, <2>6
<1>6. CASE ServerHandle(c) /\ conns[c].input.type = "PING"
  <2>1. PICK r \in Seq(Message) :
          Answered(conns, c, Ping) = [conns EXCEPT ![c] = [@ EXCEPT !.resp = r]]
    BY <1>1, <1>2, AnsweredOnly
  <2> DEFINE s == [conns[c] EXCEPT !.resp = r, !.server = "reading"]
  <2>2. conns' = [conns EXCEPT ![c] = s] /\ db' = db /\ conns[c].server = "spinning"
    BY <1>1, <1>6, <2>1 DEF ServerHandle
  <2>3. /\ s.from = conns[c].from /\ s.to = conns[c].to /\ s.open = conns[c].open
        /\ s.req = conns[c].req /\ s.input = conns[c].input /\ s.server = "reading"
    BY <1>1 DEF Connection
  <2> HIDE DEF s
  <2>4. conns'[c] = s /\ \A d \in ConnIds : d # c => conns'[d] = conns[d]
    BY <1>1, <2>2
  <2>5. conns[c].input = Ping
    BY <1>1, <1>6, MessagesTyped
  <2>6. AnswersPing(c)
    BY <2>2, <2>3, <2>4, <2>5 DEF AnswersPing, PingHandled
  <2> QED
    BY <1>3, <2>3, <2>4, <2>6
<1>7. ASSUME NEW at, conns' = [conns EXCEPT ![c] = [conns[c] EXCEPT !.server = at]],
             conns[c].server # "reading", conns[c].input.type # "PING",
             \/ /\ conns[c].server = "loading" /\ conns[c].input.type = "LOAD" /\ at = "reading"
                /\ db' = [db EXCEPT ![conns[c].to] = conns[c].input.body]
             \/ /\ conns[c].server # "loading" /\ db' = db
                /\ conns[c].input.type = "LOAD" =>
                     conns[c].server \in {"spinning", "handling"} /\ at \in {"handling", "loading"}
      PROVE  /\ \A d \in ConnIds : d # c => conns'[d] = conns[d]
             /\ conns'[c].from = conns[c].from /\ conns'[c].to = conns[c].to
             /\ conns'[c].open = conns[c].open /\ GoesOn(c)
  <2> DEFINE s == [conns[c] EXCEPT !.server = at]
  <2>1. /\ s.from = conns[c].from /\ s.to = conns[c].to /\ s.open = conns[c].open
        /\ s.req = conns[c].req /\ s.input = conns[c].input /\ s.server = at
        /\ s.resp = conns[c].resp
    BY <1>1 DEF Connection
  <2>2. conns'[c] = s /\ \A d \in ConnIds : d # c => conns'[d] = conns[d]
    BY <1>1, <1>7
  <2> HIDE DEF s
  <2>3. ~PingHandled(c) /\ ~PingHandled(c)'
    BY <1>7, <2>1, <2>2, MessagesTyped DEF PingHandled
  <2>4. CASE conns[c].server = "loading" /\ conns[c].input.type = "LOAD" /\ at = "reading"
    BY <1>7, <2>1, <2>2, <2>3, <2>4 DEF GoesOn, InHand
  <2>5. CASE conns[c].server # "loading"
    <3>1. InHand(c)' <=> InHand(c)
      BY <1>7, <2>1, <2>2, <2>5 DEF InHand
    <3> QED
      BY <1>7, <2>1, <2>2, <2>3, <2>5, <3>1 DEF GoesOn
  <2> QED
    BY <1>7, <2>1, <2>2, <2>4, <2>5
<1>8. CASE ServerHandle(c) /\ conns[c].input.type # "PING"
  <2>1. PICK at \in {"handling", "reading"} :
          /\ conns' = [conns EXCEPT ![c] = [conns[c] EXCEPT !.server = at]]
          /\ conns[c].input.type = "LOAD" => at = "handling"
    BY <1>8 DEF ServerHandle
  <2>2. conns[c].server = "spinning" /\ db' = db
    BY <1>8 DEF ServerHandle
  <2> QED
    BY <1>3, <1>7, <1>8, <2>1, <2>2
<1>9. CASE ServerLoad(c)
  <2>1. /\ conns' = [conns EXCEPT ![c] = [conns[c] EXCEPT !.server = "loading"]]
        /\ conns[c].server = "handling" /\ db' = db
    BY <1>9 DEF ServerLoad
  <2>2. conns[c].input.type = "LOAD"
    BY <1>2, <2>1 DEF EndHeld
  <2> QED
    BY <1>3, <1>7, <2>1, <2>2
<1>10. CASE ServerLoaded(c)
  <2>1. /\ conns' = [conns EXCEPT ![c] = [conns[c] EXCEPT !.server = "reading"]]
        /\ conns[c].server = "loading" /\ db' = [db EXCEPT ![conns[c].to] = conns[c].input.body]
    BY <1>10 DEF ServerLoaded
  <2>2. conns[c].input.type = "LOAD"
    BY <1>2, <2>1 DEF EndHeld
  <2> QED
    BY <1>3, <1>7, <2>1, <2>2
<1> QED
  BY <1>4, <1>5, <1>6, <1>8, <1>9, <1>10 DEF ServerStep

-----------------------------------------------------------------------------
\* LOADs stay on the leaders' connections, and requests in order.

\* What connection c carries and who uses it depend on c and link only.
LEMMA FromLeaderKept ==
  ASSUME NEW c, FromLeader(c), leaders \subseteq leaders', link' = link,
         Carries(c)' => Carries(c) /\ conns'[c].from = conns[c].from /\ conns'[c].to = conns[c].to
  PROVE  FromLeader(c)'
BY DEF FromLeader

LEMMA OrderKept ==
  ASSUME NEW n, NEW c, Orderly(n, c), conns'[c] = conns[c], AskingId(n, c) <=> AskingId(n, c)'
  PROVE  Orderly(n, c)'
BY DEF Orderly, Live, InOrder, PingHandled

\* A step that touches one connection at most.
LEMMA OneTouched ==
  ASSUME IInv, LInv, NEW c, link' = link, leaders \subseteq leaders',
         \A d \in ConnIds : d # c => conns'[d] = conns[d],
         \A p \in Nodes : \A d \in ConnIds : d # c => (AskingId(p, d) <=> AskingId(p, d)'),
         c \in ConnIds => FromLeader(c)',
         \A p, q \in Nodes : link[p][q] = c /\ c # NoConn => Orderly(p, c)'
  PROVE  LInv'
<1>1. ASSUME NEW d \in ConnIds PROVE FromLeader(d)'
  <2>1. CASE d = c
    BY <2>1
  <2>2. CASE d # c
    <3>1. conns'[d] = conns[d] /\ FromLeader(d)
      BY <2>2 DEF LInv, LoadsFromLeaders
    <3>2. Carries(d)' => Carries(d)
      BY <3>1 DEF Carries
    <3> QED
      BY <3>1, <3>2, FromLeaderKept
  <2> QED
    BY <2>1, <2>2
<1>2. ASSUME NEW p \in Nodes, NEW q \in Nodes, NEW d, d = link[p][q], d # NoConn
      PROVE  Orderly(p, d)'
  <2>1. CASE d = c
    BY <1>2, <2>1
  <2>2. CASE d # c
    <3>1. d \in ConnIds /\ Orderly(p, d)
      BY <1>2, LinkOnce DEF LInv, AllOrderly
    <3> QED
      BY <2>2, <3>1, OrderKept
  <2> QED
    BY <2>1, <2>2
<1> QED
  BY <1>1, <1>2 DEF LInv, LoadsFromLeaders, AllOrderly

LEMMA ServedInOrder ==
  ASSUME IInv, LInv, NEW c \in ConnIds, ServerStep(c)
  PROVE  LInv'
<1>1. /\ UNCHANGED <<leaders, link, main>> /\ \A d \in ConnIds : d # c => conns'[d] = conns[d]
      /\ \/ /\ conns'[c] = Closed \/ conns'[c].input = conns[c].input
            /\ conns'[c] = Closed \/ conns'[c].req = conns[c].req
            /\ conns'[c] = Closed \/ conns'[c].from = conns[c].from
            /\ conns'[c] = Closed \/ conns'[c].to = conns[c].to
            /\ ~Live(c) /\ ~Live(c)' /\ db' = db
         \/ /\ conns'[c].from = conns[c].from /\ conns'[c].to = conns[c].to
            /\ conns'[c].open = conns[c].open
            /\ ReadsRequest(c) \/ AnswersPing(c) \/ GoesOn(c)
  BY ServerEffect
<1>2. FromLeader(c) /\ conns[c].req \in Seq(Message)
  BY DEF LInv, LoadsFromLeaders, IInv, FieldsTyped, Connection
<1>3. ~Carries(c)' \/ (Carries(c) /\ conns'[c].from = conns[c].from /\ conns'[c].to = conns[c].to)
  <2>1. CASE conns'[c] = Closed
    <3>1. Closed.input.type = "NONE" /\ Closed.req = <<>>
      BY DEF Closed, NoMsg, Msg
    <3> QED
      BY <2>1, <3>1, NoRequestsIn DEF Carries
  <2>2. CASE ReadsRequest(c) /\ conns'[c].from = conns[c].from /\ conns'[c].to = conns[c].to
    <3>1. PICK k \in Nat \ {0} : conns'[c].req = Rest(conns[c].req, k)
      BY <2>2 DEF ReadsRequest
    <3>2. conns[c].req # <<>> /\ conns'[c].input = Head(conns[c].req)
      BY <2>2 DEF ReadsRequest
    <3>3. Loads(conns[c].req) = {} => Loads(conns'[c].req) = {} /\ conns'[c].input.type # "LOAD"
      BY <1>2, <3>1, <3>2, RequestsInRest
    <3> QED
      BY <2>2, <3>3 DEF Carries
  <2>3. CASE /\ conns'[c].input = conns[c].input /\ conns'[c].req = conns[c].req
             /\ conns'[c].from = conns[c].from /\ conns'[c].to = conns[c].to
    BY <2>3 DEF Carries
  <2> QED
    BY <1>1, <2>1, <2>2, <2>3 DEF AnswersPing, GoesOn
<1>4. FromLeader(c)'
  BY <1>1, <1>2, <1>3, FromLeaderKept
<1>5. ASSUME NEW p \in Nodes, NEW q \in Nodes, link[p][q] = c, c # NoConn
      PROVE  Orderly(p, c)'
  <2> SUFFICES ASSUME Live(c)', ~AskingId(p, c) PROVE InOrder(c)'
    BY <1>1 DEF Orderly, AskingId
  <2>1. /\ conns'[c].open = conns[c].open
        /\ ReadsRequest(c) \/ AnswersPing(c) \/ GoesOn(c)
    BY <1>1
  <2>2. InOrder(c)
    <3>1. Orderly(p, c)
      BY <1>5 DEF LInv, AllOrderly
    <3> QED
      BY <2>1, <3>1 DEF Orderly, Live
  <2>3. CASE ReadsRequest(c)
    <3>1. PICK k \in Nat \ {0} : conns'[c].req = Rest(conns[c].req, k)
      BY <2>3 DEF ReadsRequest
    <3>2. /\ conns[c].req # <<>> /\ conns'[c].input = Head(conns[c].req)
          /\ conns'[c].server = "spinning" /\ conns'[c].resp = conns[c].resp
      BY <2>3 DEF ReadsRequest
    <3>3. Pings(conns[c].req) \subseteq {Len(conns[c].req)} /\ Loads(conns[c].req) \subseteq {1}
      BY <2>2 DEF InOrder
    <3>4. conns[c].resp = <<>>
      BY <2>2, <3>2 DEF InOrder
    <3>5. /\ Loads(conns'[c].req) = {} /\ Pings(conns'[c].req) \subseteq {Len(conns'[c].req)}
          /\ conns'[c].input = Ping => conns'[c].req = <<>>
      BY <1>2, <3>1, <3>2, <3>3, RequestsInRest
    <3> QED
      BY <3>2, <3>4, <3>5 DEF InOrder, PingHandled
  <2>4. CASE AnswersPing(c)
    <3>1. conns'[c].req = <<>> /\ conns'[c].server = "reading"
      BY <2>2, <2>4 DEF AnswersPing, InOrder
    <3> QED
      BY <3>1, NoRequestsIn DEF InOrder, PingHandled
  <2>5. CASE GoesOn(c)
    <3>1. /\ conns'[c].req = conns[c].req /\ conns'[c].resp = conns[c].resp
          /\ conns[c].server # "reading" /\ ~PingHandled(c)'
      BY <2>5 DEF GoesOn
    <3>2. conns[c].resp = <<>> /\ Loads(conns[c].req) = {}
          /\ Pings(conns[c].req) \subseteq {Len(conns[c].req)}
      BY <2>2, <3>1 DEF InOrder
    <3> QED
      BY <3>1, <3>2 DEF InOrder
  <2> QED
    BY <2>1, <2>3, <2>4, <2>5
<1>6. \A p \in Nodes : \A d \in ConnIds : AskingId(p, d) <=> AskingId(p, d)'
  BY <1>1 DEF AskingId
<1> QED
  BY <1>1, <1>4, <1>5, <1>6, OneTouched


\* A step of n's main thread that uses one connection at most, c.
LEMMA UsedInOrder ==
  ASSUME IInv, LInv, NEW n \in Nodes, NEW m \in Nodes, NEW c, link[n][m] = c, c # NoConn,
         link' = link, leaders \subseteq leaders',
         \A p \in Nodes : p # n => main'[p] = main[p],
         main[n].conn \in {c, NoConn}, main'[n].conn \in {c, NoConn},
         \A d \in ConnIds : d # c => conns'[d] = conns[d],
         FromLeader(c)', Orderly(n, c)'
  PROVE  LInv'
<1>1. \A p, q \in Nodes : link[p][q] = c => p = n
  BY LinkOnce
<1>2. NoConn \notin ConnIds
  BY DEF NoConn, ConnIds
<1>3. \A p \in Nodes : \A d \in ConnIds : d # c => (AskingId(p, d) <=> AskingId(p, d)')
  BY <1>2 DEF AskingId
<1> QED
  BY <1>1, <1>3, OneTouched

\* The steps of a process that is neither asking nor reading anything.
LEMMA RestsInOrder ==
  ASSUME IInv, LInv, NEW n \in Nodes,
         UNCHANGED <<conns, link, leaders>>, \A p \in Nodes : p # n => main'[p] = main[p],
         main'[n].at # "id",
         main[n].at # "id"
  PROVE  LInv'
<1>1. NoConn \notin ConnIds
  BY DEF NoConn, ConnIds
<1>2. \A p \in Nodes, d \in ConnIds : AskingId(p, d) <=> AskingId(p, d)'
  BY DEF AskingId
<1> QED
  BY <1>1, <1>2, OneTouched

\* A ping or a COORDINATOR is sent on a quiet connection.
LEMMA SentInOrder ==
  ASSUME IInv, PInv, LInv, NEW n \in Nodes, NEW m \in Nodes, NEW c, link[n][m] = c, c # NoConn,
         NEW msg \in {Ping, Coordinator}, conns'[c] = Sent(conns, c, msg)[c],
         main[n].conn = NoConn, leaders \subseteq leaders', link' = link
  PROVE  FromLeader(c)' /\ Orderly(n, c)'
<1>1. c \in ConnIds /\ conns \in [ConnIds -> Connection] /\ conns[c] \in Connection
      /\ conns[c].req \in Seq(Message)
  BY DEF IInv, FieldsTyped, Connection
<1>2. msg \in Message /\ msg.type # "LOAD"
  BY MessagesTyped
<1>3. /\ conns'[c].from = conns[c].from /\ conns'[c].to = conns[c].to
      /\ conns'[c].open = conns[c].open /\ conns'[c].resp = conns[c].resp
      /\ conns'[c].server = conns[c].server /\ conns'[c].input = conns[c].input
  BY <1>1, <1>2, SentOnly DEF ButReq
<1>4. conns'[c].req = conns[c].req \/ conns'[c].req = Append(conns[c].req, msg)
  <2>1. conns'[c] = conns[c] \/ conns'[c] = [conns[c] EXCEPT !.req = Append(@, msg)]
    BY <1>1 DEF Sent
  <2> QED
    BY <1>1, <2>1 DEF Connection
<1>5. Loads(conns'[c].req) = Loads(conns[c].req)
  <2>1. Loads(Append(conns[c].req, msg)) = Loads(conns[c].req)
    BY <1>1, <1>2, RequestsInAppend
  <2> QED
    BY <1>4, <2>1
<1>6. FromLeader(c)'
  <2>1. FromLeader(c) /\ (Carries(c)' => Carries(c))
    BY <1>1, <1>3, <1>5 DEF LInv, LoadsFromLeaders, Carries
  <2> QED
    BY <1>3, <2>1, FromLeaderKept
<1>7. Orderly(n, c)'
  <2> SUFFICES ASSUME Live(c)' PROVE InOrder(c)'
    BY DEF Orderly
  <2>1. Live(c) /\ ~AskingId(n, c) /\ main[n].conn # c
    BY <1>3 DEF Live, AskingId
  <2>2. Quiet(c) /\ InOrder(c)
    BY <2>1 DEF PInv, InStep, LInv, AllOrderly, Orderly
  <2>3. Pings(conns'[c].req) \subseteq {Len(conns'[c].req)}
    BY <1>1, <1>2, <1>4, <2>2, RequestsInAppend DEF Quiet
  <2>4. ~PingHandled(c)' /\ conns'[c].resp = <<>>
    BY <1>3, <2>2 DEF Quiet, PingHandled
  <2> QED
    BY <1>3, <1>5, <2>2, <2>3, <2>4 DEF InOrder
<1> QED
  BY <1>6, <1>7

LEMMA AsksInOrder ==
  ASSUME IInv, PInv, LInv, NEW n \in Nodes,
         AskNext(n) \/ \E m \in Peers(n) : TimerPing(n, m)
  PROVE  LInv'
<1>1. /\ main[n] \in MainThread /\ MainInPlace(n) /\ conns \in [ConnIds -> Connection]
      /\ main \in [Nodes -> MainThread]
  BY DEF IInv, FieldsTyped, MainsInPlace
<1> DEFINE Asked(m, t) ==
             /\ link[n][m] # NoConn /\ main[n].conn = NoConn
             /\ conns' = Sent(conns, link[n][m], Ping)
             /\ main' = [main EXCEPT ![n] = t] /\ t.conn = link[n][m]
             /\ link' = link /\ leaders' = leaders
<1>2. \E m \in Nodes : \E t : Asked(m, t)
  <2>1. CASE AskNext(n)
    <3> DEFINE rest == Linked(n, main[n].rest)
               m == NextOf(rest)
               c == link[n][m]
               t == [main[n] EXCEPT !.conn = c, !.rest = rest \ {m}]
    <3>1. /\ main[n].at \in {"count", "share"} /\ main[n].conn = NoConn /\ rest # {}
          /\ conns' = Sent(conns, c, Ping) /\ main' = [main EXCEPT ![n] = t] /\ link' = link
          /\ leaders' = leaders
      BY <2>1 DEF AskNext, procVars
    <3>2. m \in main[n].rest /\ c # NoConn
      BY <3>1, NextInRest
    <3>3. m \in Nodes
      BY <1>1, <3>2 DEF MainThread
    <3>4. t.conn = c
      BY <1>1 DEF MainThread
    <3> HIDE DEF rest, m, t
    <3> QED
      BY <3>1, <3>2, <3>3, <3>4
  <2>2. ASSUME NEW m \in Peers(n), TimerPing(n, m)
        PROVE  \E t : Asked(m, t)
    <3> DEFINE t == [Loop EXCEPT !.at = "check", !.conn = link[n][m]]
    <3>1. /\ main[n].conn = NoConn /\ link[n][m] # NoConn /\ m \in Nodes
          /\ conns' = Sent(conns, link[n][m], Ping) /\ main' = [main EXCEPT ![n] = t]
          /\ link' = link /\ leaders' = leaders
      BY <1>1, <2>2 DEF TimerPing, Idle, Awaiting, MainInPlace, Peers, procVars
    <3>2. t.conn = link[n][m]
      BY DEF Loop
    <3> HIDE DEF t
    <3> QED
      BY <3>1, <3>2
  <2> HIDE DEF Asked
  <2> QED
    BY <2>1, <2>2 DEF Peers
<1>3. PICK m \in Nodes : \E t : Asked(m, t)
  BY <1>2
<1>4. main'[n].conn = link[n][m] /\ \A p \in Nodes : p # n => main'[p] = main[p]
  BY <1>1, <1>3
<1>5. \A d \in ConnIds : d # link[n][m] => conns'[d] = conns[d]
  BY <1>1, <1>3 DEF Sent
<1>6. FromLeader(link[n][m])' /\ Orderly(n, link[n][m])'
  <2>1. PICK c : c = link[n][m]
    OBVIOUS
  <2>2. /\ c # NoConn /\ main[n].conn = NoConn /\ conns'[c] = Sent(conns, c, Ping)[c]
        /\ link' = link /\ leaders \subseteq leaders'
    BY <1>3, <2>1
  <2>3. FromLeader(c)' /\ Orderly(n, c)'
    BY <2>1, <2>2, SentInOrder
  <2> QED
    BY <1>3, <2>1, <2>3
<1> QED
  <2>1. PICK c : c = link[n][m]
    OBVIOUS
  <2>2. FromLeader(c)' /\ Orderly(n, c)'
    BY <1>3, <1>6, <2>1
  <2> QED
    BY <1>3, <1>4, <1>5, <2>1, <2>2, UsedInOrder

\* The answer to a ping is the last that was under way: after it, the
\* connection is empty but for the LOAD that Deal sends.
AnswerRead(n, k, c, m) ==
  /\ c \in ConnIds /\ c # NoConn /\ m \in Peers(n) /\ link[n][m] = c /\ conns[c].from = n
  /\ UNCHANGED <<leaders, link, db, phase>>
  /\ main'[n].conn = NoConn /\ \A p \in Nodes : p # n => main'[p] = main[p]
  /\ \A d \in ConnIds : d # c => conns'[d] = conns[d]
  /\ conns'[c].from = conns[c].from /\ conns'[c].to = conns[c].to
  /\ conns'[c].open = conns[c].open /\ conns'[c].server = conns[c].server
  /\ conns'[c].input = conns[c].input
  /\ n \in leaders \/ conns'[c].req = conns[c].req
  /\ Live(c) =>
       /\ conns[c].req = <<>> /\ conns[c].server = "reading" /\ conns'[c].resp = <<>>
       /\ PingAnswered(c, k)
       /\ conns'[c].req = IF Deal(n, k)
                          THEN <<Msg("LOAD", Share(main[n].slot, main[n].count))>> ELSE <<>>

LEMMA AnswerEffect ==
  ASSUME IInv, PInv, LInv, NEW n \in Nodes, NEW k \in 0..MaxRead,
         Valid(n, k) \/ Count(n, k) \/ Deal(n, k) \/ PassOver(n, k),
         NEW c, c = main[n].conn, NEW m, m = conns[c].to
  PROVE  AnswerRead(n, k, c, m)
<1> DEFINE load == Msg("LOAD", Share(main[n].slot, main[n].count))
           q == conns[c].resp
<1>1. /\ main[n].at \in {"check", "count", "share"} /\ (main[n].at # "check" => c # NoConn)
      /\ UNCHANGED <<leaders, link, db, phase>>
  BY DEF Valid, Count, Deal, PassOver, procVars
<1>2. c \in ConnIds /\ c # NoConn /\ m \in Peers(n) /\ link[n][m] = c /\ conns[c].from = n
      /\ m \in Nodes
  BY <1>1, WaitsOn DEF Peers, ConnIds, NoConn
<1>3. conns \in [ConnIds -> Connection] /\ main \in [Nodes -> MainThread] /\ main[n] \in MainThread
      /\ conns[c] \in Connection /\ q \in Seq(Message) /\ k \in Nat /\ MainInPlace(n)
      /\ conns[c].req \in Seq(Message)
  BY <1>2, ConnectionAssumption DEF IInv, FieldsTyped, Connection, MainsInPlace
<1>4. main'[n].conn = NoConn /\ \A p \in Nodes : p # n => main'[p] = main[p]
  <2>1. \E t : main' = [main EXCEPT ![n] = t] /\ t.conn = NoConn
    <3>1. CASE Valid(n, k)
      BY <3>1, LoopTyped DEF Valid
    <3>2. CASE Count(n, k)
      <4>1. main' = [main EXCEPT ![n] = [main[n] EXCEPT !.conn = NoConn, !.count = @ + 1]]
        BY <3>2 DEF Count
      <4>2. [main[n] EXCEPT !.conn = NoConn, !.count = @ + 1].conn = NoConn
        BY <1>3 DEF MainThread
      <4> QED
        BY <4>1, <4>2
    <3>3. CASE Deal(n, k)
      <4>1. main' = [main EXCEPT ![n] = [main[n] EXCEPT !.conn = NoConn, !.slot = @ + 1]]
        BY <3>3 DEF Deal
      <4>2. [main[n] EXCEPT !.conn = NoConn, !.slot = @ + 1].conn = NoConn
        BY <1>3 DEF MainThread
      <4> QED
        BY <4>1, <4>2
    <3>4. CASE PassOver(n, k)
      <4>1. main' = [main EXCEPT ![n] = [main[n] EXCEPT !.conn = NoConn]]
        BY <3>4 DEF PassOver, PassedOver
      <4>2. [main[n] EXCEPT !.conn = NoConn].conn = NoConn
        BY <1>3 DEF MainThread
      <4> QED
        BY <4>1, <4>2
    <3> QED
      BY <3>1, <3>2, <3>3, <3>4
  <2> QED
    BY <1>3, <2>1
<1> DEFINE cs == Received(c, k)
<1>5. /\ Read(cs, c)
      /\ cs[c].req = conns[c].req /\ cs[c].resp = Rest(q, k) /\ cs[c] \in Connection
  <2>1. cs = [conns EXCEPT ![c] = [@ EXCEPT !.resp = Rest(q, k)]]
    BY <1>2, <1>3, ReceivedOnly
  <2>2. cs[c] = [conns[c] EXCEPT !.resp = Rest(q, k)]
    BY <1>2, <1>3, <2>1
  <2>3. [conns[c] EXCEPT !.resp = Rest(q, k)] \in Connection
    BY <1>2, <1>3, ReceivedOnly
  <2>4. Read(cs, c)
    BY <1>1, <1>3, ReadsOnly
  <2> HIDE DEF cs
  <2> QED
    BY <1>3, <2>2, <2>3, <2>4 DEF Connection
<1>6. load \in Message
  BY MessagesTyped DEF Share
<1>7. conns' = IF Deal(n, k) THEN Sent(cs, c, load) ELSE cs
  BY DEF Valid, Count, Deal, PassOver
<1> HIDE DEF cs, load
<1>8. Read(conns', c) /\ conns'[c].resp = Rest(q, k)
      /\ conns'[c].req = IF Deal(n, k) /\ "to" \in conns[c].open THEN Append(conns[c].req, load)
                         ELSE conns[c].req
  <2>1. CASE ~Deal(n, k)
    BY <1>5, <1>7, <2>1
  <2>2. CASE Deal(n, k)
    <3>1. Read(conns', c) /\ conns'[c].resp = cs[c].resp
      <4>1. conns' = Sent(cs, c, load) /\ cs \in [ConnIds -> Connection]
        BY <1>5, <1>7, <2>2 DEF Read
      <4>2. Read(conns', c)
        BY <1>2, <1>5, <1>6, <4>1, SentRead
      <4>3. ButReq(cs, conns', c)
        BY <1>2, <1>6, <4>1, SentOnly
      <4> QED
        BY <4>2, <4>3 DEF ButReq
    <3>2. conns'[c] = IF "to" \in cs[c].open THEN [cs[c] EXCEPT !.req = Append(@, load)] ELSE cs[c]
      BY <1>2, <1>5, <1>7, <2>2 DEF Sent, Read
    <3>3. cs[c].open = conns[c].open
      BY <1>5 DEF Read
    <3>4. CASE "to" \in cs[c].open
      <4>1. conns'[c] = [cs[c] EXCEPT !.req = Append(@, load)]
        BY <3>2, <3>4
      <4>2. conns'[c].req = Append(cs[c].req, load)
        BY <1>5, <4>1 DEF Connection
      <4> QED
        BY <1>5, <2>2, <3>1, <3>3, <3>4, <4>2
    <3>5. CASE "to" \notin cs[c].open
      BY <1>5, <2>2, <3>1, <3>2, <3>3, <3>5
    <3> QED
      BY <3>4, <3>5
  <2> QED
    BY <2>1, <2>2
<1>9. n \in leaders \/ conns'[c].req = conns[c].req
  <2>1. Deal(n, k) => n \in leaders
    BY <1>3 DEF Deal, MainInPlace
  <2> QED
    BY <1>8, <2>1
<1>10. ASSUME Live(c)
       PROVE  /\ conns[c].req = <<>> /\ conns[c].server = "reading" /\ conns'[c].resp = <<>>
              /\ PingAnswered(c, k)
              /\ conns'[c].req = IF Deal(n, k) THEN <<load>> ELSE <<>>
  <2>1. ~Dead(c)
    BY <1>10 DEF Dead, Live
  <2>2. PingAnswered(c, k)
    <3>1. ~PingFails(c, k)
      BY <1>1, <2>1, FailsAtEnd
    <3> QED
      BY <3>1 DEF Valid, Count, Deal, PassOver
  <2>3. k \in 1..MaxRead /\ k <= Len(q) /\ Len(q) \in Nat /\ q # <<>>
    BY <1>3, <2>2 DEF PingAnswered, Reads
  <2>4. OnePing(c) /\ InOrder(c)
    BY <1>1, <1>2, <1>10 DEF PInv, InStep, LInv, AllOrderly, Orderly, AskingId
  <2>5. conns[c].req = <<>> /\ conns[c].server = "reading"
    BY <2>3, <2>4 DEF InOrder
  <2>6. Len(q) <= 1
    BY <2>3, <2>4 DEF OnePing
  <2>7. Rest(q, k) = <<>>
    <3>1. Len(q) <= k
      BY <1>3, <2>3, <2>6
    <3> QED
      BY <1>3, <3>1, RestOfSeq
  <2>8. Append(<<>>, load) = <<load>>
    BY <1>6
  <2> QED
    BY <1>8, <1>10, <2>2, <2>5, <2>7, <2>8 DEF Live
<1> QED
  BY <1>1, <1>2, <1>4, <1>8, <1>9, <1>10 DEF Read, load, AnswerRead

LEMMA AnswersInOrder ==
  ASSUME IInv, PInv, LInv, NEW n \in Nodes, NEW k \in 0..MaxRead,
         Valid(n, k) \/ Count(n, k) \/ Deal(n, k) \/ PassOver(n, k)
  PROVE  LInv'
<1> SUFFICES ASSUME NEW c, c = main[n].conn, NEW m, m = conns[c].to
             PROVE  LInv'
  OBVIOUS
<1> DEFINE load == Msg("LOAD", Share(main[n].slot, main[n].count))
<1>1. /\ c \in ConnIds /\ c # NoConn /\ m \in Peers(n) /\ link[n][m] = c /\ conns[c].from = n
      /\ UNCHANGED <<leaders, link, db, phase>>
      /\ main'[n].conn = NoConn /\ \A p \in Nodes : p # n => main'[p] = main[p]
      /\ \A d \in ConnIds : d # c => conns'[d] = conns[d]
      /\ conns'[c].from = conns[c].from /\ conns'[c].to = conns[c].to
      /\ conns'[c].open = conns[c].open /\ conns'[c].server = conns[c].server
      /\ conns'[c].input = conns[c].input
      /\ n \in leaders \/ conns'[c].req = conns[c].req
      /\ Live(c) =>
           /\ conns[c].req = <<>> /\ conns[c].server = "reading" /\ conns'[c].resp = <<>>
           /\ conns'[c].req = IF Deal(n, k) THEN <<load>> ELSE <<>>
  <2>1. AnswerRead(n, k, c, m)
    BY AnswerEffect
  <2> QED
    BY <2>1 DEF AnswerRead
<1>2. load \in Message /\ load.type # "PING"
  <2>1. load.type = "LOAD"
    BY DEF Msg
  <2> QED
    BY <2>1, MessagesTyped DEF Share
<1> HIDE DEF load
<1>3. m \in Nodes
  BY <1>1 DEF Peers
<1>4. FromLeader(c)'
  <2>1. CASE n \in leaders
    BY <1>1, <1>3, <2>1 DEF FromLeader
  <2>2. CASE conns'[c].req = conns[c].req
    <3>1. FromLeader(c) /\ (Carries(c)' => Carries(c))
      BY <1>1, <2>2 DEF LInv, LoadsFromLeaders, Carries
    <3> QED
      BY <1>1, <3>1, FromLeaderKept
  <2> QED
    BY <1>1, <2>1, <2>2
<1>5. Orderly(n, c)'
  <2> SUFFICES ASSUME Live(c)' PROVE InOrder(c)'
    BY DEF Orderly
  <2>1. Live(c)
    BY <1>1 DEF Live
  <2>2. conns'[c].server = "reading" /\ conns'[c].resp = <<>>
    BY <1>1, <2>1
  <2>3. conns'[c].req = <<>> \/ conns'[c].req = <<load>>
    BY <1>1, <2>1
  <2>4. Pings(conns'[c].req) = {} /\ Loads(conns'[c].req) \subseteq {1}
    <3>1. Pings(<<load>>) = {} /\ Loads(<<load>>) \subseteq {1}
      <4>1. load # Ping
        BY <1>2, MessagesTyped
      <4>2. Len(<<load>>) = 1
        OBVIOUS
      <4> QED
        BY <4>1, <4>2, NoPingsIn DEF Loads
    <3> QED
      BY <2>3, <3>1, NoRequestsIn
  <2> QED
    BY <2>2, <2>4 DEF InOrder, PingHandled
<1>6. link[n][m] = c /\ c # NoConn /\ link' = link /\ leaders \subseteq leaders' /\ main[n].conn = c
  BY <1>1
<1> QED
  BY <1>1, <1>3, <1>4, <1>5, <1>6, UsedInOrder

\* The id is all that was on its way.
IdRead(n, c, m) ==
  /\ c \in ConnIds /\ c # NoConn /\ m \in Nodes /\ link[n][m] = c /\ conns[c].from = n
  /\ UNCHANGED <<leaders, link, db, phase>>
  /\ main'[n].conn = NoConn /\ \A p \in Nodes : p # n => main'[p] = main[p]
  /\ \A d \in ConnIds : d # c => conns'[d] = conns[d]
  /\ conns'[c].from = conns[c].from /\ conns'[c].to = conns[c].to
  /\ conns'[c].open = conns[c].open /\ conns'[c].input = conns[c].input
  /\ conns'[c].req = conns[c].req
  /\ Live(c)' => conns'[c].server = "reading" /\ conns'[c].req = <<>> /\ conns'[c].resp = <<>>

LEMMA GetIdEffect ==
  ASSUME IInv, NEW n \in Nodes, NEW m \in Peers(n), GetId(n, m), NEW c, c = main[n].conn
  PROVE  IdRead(n, c, m)
<1>1. /\ main[n].at = "id" /\ m = conns[c].to /\ LoadIfLeader(n, m)
      /\ UNCHANGED <<leaders, link, db, phase>>
  BY DEF GetId, procVars
<1>2. c \in ConnIds /\ link[n][m] = c /\ c # NoConn /\ m \in Nodes /\ "from" \in conns[c].open
      /\ conns[c].from = n
  BY <1>1, WaitsOn DEF Peers, ConnIds, NoConn
<1>3. IdComing(c)
  BY <1>1, <1>2 DEF IInv, IdsComeFirst, AskingId
<1>4. /\ conns \in [ConnIds -> Connection] /\ conns[c] \in Connection
      /\ conns[c].resp \in Seq(Message)
      /\ main \in [Nodes -> MainThread] /\ main[n] \in MainThread
  BY <1>2 DEF IInv, FieldsTyped, Connection
<1>5. main'[n].conn = NoConn /\ \A p \in Nodes : p # n => main'[p] = main[p]
  <2>1. \E t : main' = [main EXCEPT ![n] = t] /\ t.conn = NoConn
    <3>1. CASE BeginLoad(n)
      <4>1. main' = [main EXCEPT ![n] = [Loop EXCEPT !.at = "count", !.count = 1, !.rest = Peers(n)]]
        BY <3>1 DEF BeginLoad
      <4>2. [Loop EXCEPT !.at = "count", !.count = 1, !.rest = Peers(n)].conn = NoConn
        BY DEF Loop
      <4> QED
        BY <4>1, <4>2
    <3>2. CASE Resume(n, m)
      <4>1. main' = [main EXCEPT ![n] = [main[n] EXCEPT !.at = Resting(n), !.conn = NoConn,
                                                        !.rest = @ \ {m}]]
        BY <3>2 DEF Resume
      <4>2. [main[n] EXCEPT !.at = Resting(n), !.conn = NoConn, !.rest = @ \ {m}].conn = NoConn
        BY <1>4 DEF MainThread
      <4> QED
        BY <4>1, <4>2
    <3> QED
      BY <1>1, <3>1, <3>2 DEF LoadIfLeader
  <2> QED
    BY <1>4, <2>1
<1>6. CASE Dead(c) /\ UNCHANGED conns
  BY <1>1, <1>2, <1>5, <1>6 DEF IdRead, Live, Dead
<1>7. CASE conns[c].resp # <<>> /\ conns' = Received(c, 1)
  <2> DEFINE r == [conns[c] EXCEPT !.resp = Rest(conns[c].resp, 1)]
  <2>1. conns' = [conns EXCEPT ![c] = r]
    BY <1>2, <1>4, <1>7, ReceivedOnly
  <2>2. /\ r.req = conns[c].req /\ r.resp = Rest(conns[c].resp, 1) /\ r.open = conns[c].open
        /\ r.server = conns[c].server /\ r.from = conns[c].from /\ r.to = conns[c].to
        /\ r.input = conns[c].input
    BY <1>4 DEF Connection
  <2> HIDE DEF r
  <2>3. conns'[c] = r /\ \A d \in ConnIds : d # c => conns'[d] = conns[d]
    BY <1>2, <1>4, <2>1
  <2>4. ASSUME Live(c)'
        PROVE  conns'[c].server = "reading" /\ conns'[c].req = <<>> /\ conns'[c].resp = <<>>
    <3>1. "to" \in conns[c].open
      BY <2>2, <2>3, <2>4 DEF Live
    <3>2. conns[c].server = "reading" /\ conns[c].req = <<>> /\ Len(conns[c].resp) = 1
      <4>1. /\ conns[c].server = "reading" /\ conns[c].req = <<>>
            /\ conns[c].resp = <<Msg("ID", {id[conns[c].to]})>>
        BY <1>3, <1>7, <3>1 DEF IdComing
      <4> QED
        BY <4>1
    <3>3. Rest(conns[c].resp, 1) = <<>>
      <4>1. conns[c].resp \in Seq(Message) /\ 1 \in Nat /\ Len(conns[c].resp) <= 1
        BY <1>4, <3>2
      <4> QED
        BY ONLY <4>1, RestOfSeq
    <3> QED
      BY <2>2, <2>3, <3>2, <3>3
  <2> QED
    BY <1>1, <1>2, <1>5, <2>2, <2>3, <2>4 DEF IdRead
<1> QED
  BY <1>6, <1>7 DEF GetId

LEMMA GetsIdInOrder ==
  ASSUME IInv, LInv, NEW n \in Nodes, NEW m \in Peers(n), GetId(n, m)
  PROVE  LInv'
<1> SUFFICES ASSUME NEW c, c = main[n].conn
             PROVE  LInv'
  OBVIOUS
<1>1. IdRead(n, c, m)
  BY GetIdEffect
<1>2. FromLeader(c)'
  <2>1. FromLeader(c) /\ (Carries(c)' => Carries(c))
    BY <1>1 DEF IdRead, LInv, LoadsFromLeaders, Carries
  <2> QED
    BY <1>1, <2>1, FromLeaderKept DEF IdRead
<1>3. Orderly(n, c)'
  BY <1>1, NoRequestsIn DEF IdRead, Orderly, InOrder, PingHandled
<1>4. m \in Nodes /\ link[n][m] = c /\ c # NoConn /\ link' = link /\ leaders \subseteq leaders'
      /\ main[n].conn = c /\ main'[n].conn = NoConn /\ (\A p \in Nodes : p # n => main'[p] = main[p])
      /\ \A d \in ConnIds : d # c => conns'[d] = conns[d]
  BY <1>1 DEF IdRead
<1> QED
  BY <1>2, <1>3, <1>4, UsedInOrder

\* Accept reads ID_REQ, and the opener waits for the id.
Accepted(n, c) ==
  /\ UNCHANGED <<leaders, link, main, db, phase>>
  /\ \A d \in ConnIds : d # c => conns'[d] = conns[d]
  /\ conns'[c].from = conns[c].from /\ conns'[c].to = n /\ conns[c].to = n
  /\ conns'[c].open = conns[c].open /\ conns'[c].input = conns[c].input
  /\ \E k \in Nat \ {0} : conns'[c].req = Rest(conns[c].req, k)
  /\ conns[c].server = "backlog" /\ conns'[c].server = "reading"
  /\ \A p, q \in Nodes : link[p][q] = c /\ c # NoConn => AskingId(p, c) /\ IdComing(c)

LEMMA AcceptEffect ==
  ASSUME IInv, NEW n \in Nodes, NEW c \in ConnIds, Accept(n, c)
  PROVE  Accepted(n, c)
<1>1. conns[c].server = "backlog" /\ conns[c].to = n /\ UNCHANGED <<leaders, link, main, db, phase>>
  BY DEF Accept, procVars
<1>2. conns \in [ConnIds -> Connection] /\ conns[c] \in Connection
      /\ Msg("ID", {id[n]}) \in Message
  BY MessagesTyped DEF IInv, FieldsTyped, Ids
<1>3. PICK r \in Seq(Message) :
        Answered(conns, c, Msg("ID", {id[n]})) = [conns EXCEPT ![c] = [@ EXCEPT !.resp = r]]
  BY <1>2, AnsweredOnly
<1>read. PICK k \in Reads(conns[c].req) :
        conns' = [Answered(conns, c, Msg("ID", {id[n]})) EXCEPT
                    ![c].req = Rest(@, k), ![c].server = "reading"]
  BY DEF Accept
<1>some. k \in Nat \ {0}
  BY ConnectionAssumption DEF Reads
<1> DEFINE s == [conns[c] EXCEPT !.resp = r, !.req = Rest(conns[c].req, k), !.server = "reading"]
<1>4. conns' = [conns EXCEPT ![c] = s]
  <2> DEFINE u == [conns[c] EXCEPT !.resp = r]
  <2>1. u.req = conns[c].req /\ u \in [DOMAIN conns[c] -> UNION {{u[x]} : x \in DOMAIN conns[c]}]
    BY <1>2 DEF Connection
  <2>2. conns' = [[conns EXCEPT ![c] = u] EXCEPT ![c].req = Rest(@, k), ![c].server = "reading"]
    BY <1>3, <1>read
  <2> QED
    BY <1>2, <2>1, <2>2
<1>5. /\ s.from = conns[c].from /\ s.to = conns[c].to /\ s.open = conns[c].open
      /\ s.input = conns[c].input /\ s.req = Rest(conns[c].req, k) /\ s.server = "reading"
  BY <1>2 DEF Connection
<1> HIDE DEF s
<1>6. conns'[c] = s /\ \A d \in ConnIds : d # c => conns'[d] = conns[d]
  BY <1>2, <1>4
<1>7. ASSUME NEW p \in Nodes, NEW q \in Nodes, link[p][q] = c, c # NoConn
      PROVE  AskingId(p, c) /\ IdComing(c)
  <2>1. IF AskingId(p, c) THEN IdComing(c) ELSE IdKnown(p, c)
    BY <1>7 DEF IInv, IdsComeFirst
  <2> QED
    BY <1>1, <2>1 DEF IdKnown
<1> QED
  BY <1>1, <1>some, <1>5, <1>6, <1>7 DEF Accepted

LEMMA AcceptsInOrder ==
  ASSUME IInv, LInv, NEW n \in Nodes, NEW c \in ConnIds, Accept(n, c)
  PROVE  LInv'
<1>1. Accepted(n, c)
  BY AcceptEffect
<1>2. conns[c].req \in Seq(Message)
  BY DEF IInv, FieldsTyped, Connection
<1>3. FromLeader(c)'
  <2>0. PICK k \in Nat \ {0} : conns'[c].req = Rest(conns[c].req, k)
    BY <1>1 DEF Accepted
  <2>1. Loads(conns[c].req) = {} => Loads(Rest(conns[c].req, k)) = {}
    BY <1>2, RequestsInRest
  <2>2. FromLeader(c) /\ (Carries(c)' => Carries(c))
    BY <1>1, <2>0, <2>1 DEF Accepted, LInv, LoadsFromLeaders, Carries
  <2> QED
    BY <1>1, <2>2, FromLeaderKept DEF Accepted
<1>4. \A p, q \in Nodes : link[p][q] = c /\ c # NoConn => Orderly(p, c)'
  BY <1>1 DEF Accepted, Orderly, AskingId
<1>5. \A p \in Nodes : \A d \in ConnIds : AskingId(p, d) <=> AskingId(p, d)'
  BY <1>1 DEF Accepted, AskingId
<1>6. link' = link /\ leaders \subseteq leaders' /\ \A d \in ConnIds : d # c => conns'[d] = conns[d]
  BY <1>1 DEF Accepted
<1> QED
  BY <1>3, <1>4, <1>5, <1>6, OneTouched

LEMMA LeadsInOrder ==
  ASSUME IInv, PInv, LInv, NEW n \in Nodes, Seniority(n)
  PROVE  LInv'
<1>1. /\ main[n].at = "loop" /\ link' = link /\ leaders \subseteq leaders'
      /\ conns' = [c \in ConnIds |->
                     IF \E m \in Peers(n) : link[n][m] = c
                     THEN Sent(conns, c, Coordinator)[c] ELSE conns[c]]
      /\ main' = [main EXCEPT ![n] = [Loop EXCEPT !.at = "count", !.count = 1, !.rest = Peers(n)]]
  BY DEF Seniority, BeginLoad, Idle
<1>2. /\ main \in [Nodes -> MainThread] /\ main[n].conn = NoConn
  BY <1>1 DEF IInv, FieldsTyped, MainsInPlace, MainInPlace
<1>3. main'[n].conn = NoConn /\ \A p \in Nodes : p # n => main'[p] = main[p]
  <2>1. [Loop EXCEPT !.at = "count", !.count = 1, !.rest = Peers(n)].conn = NoConn
    BY DEF Loop
  <2> QED
    BY <1>1, <1>2, <2>1
<1>4. ASSUME NEW d \in ConnIds, NEW m \in Peers(n), link[n][m] = d
      PROVE  FromLeader(d)' /\ Orderly(n, d)'
  <2>1. d # NoConn /\ m \in Nodes
    BY DEF ConnIds, NoConn, Peers
  <2>2. conns'[d] = Sent(conns, d, Coordinator)[d]
    BY <1>1, <1>4
  <2> QED
    BY <1>1, <1>2, <1>4, <2>1, <2>2, SentInOrder
<1>5. ASSUME NEW d \in ConnIds, ~\E m \in Peers(n) : link[n][m] = d
      PROVE  conns'[d] = conns[d] /\ FromLeader(d)'
  <2>1. conns'[d] = conns[d] /\ FromLeader(d)
    BY <1>1, <1>5 DEF LInv, LoadsFromLeaders
  <2> QED
    BY <1>1, <2>1, FromLeaderKept DEF Carries
<1>6. ASSUME NEW p \in Nodes, NEW q \in Nodes, NEW d, d = link[p][q], d # NoConn
      PROVE  Orderly(p, d)'
  <2>1. d \in ConnIds /\ Orderly(p, d) /\ p # q
    BY <1>6, LinkOnce DEF LInv, AllOrderly, IInv, LinksHeld
  <2>2. CASE p = n
    BY <1>4, <1>6, <2>1, <2>2 DEF Peers
  <2>3. CASE p # n
    <3>1. ASSUME NEW m \in Peers(n) PROVE link[n][m] # d
      <4> SUFFICES ASSUME link[n][m] = d PROVE FALSE
        OBVIOUS
      <4>1. m \in Nodes /\ link[n][m] # NoConn /\ link[n][m] = link[p][q]
        BY <1>6 DEF Peers
      <4> QED
        BY <2>3, <4>1, LinkOnce
    <3>2. conns'[d] = conns[d]
      BY <1>5, <2>1, <3>1
    <3>3. AskingId(p, d) <=> AskingId(p, d)'
      BY <1>3, <2>3 DEF AskingId
    <3> QED
      BY <2>1, <3>2, <3>3, OrderKept
  <2> QED
    BY <2>2, <2>3
<1>7. \A d \in ConnIds : FromLeader(d)'
  BY <1>4, <1>5
<1> QED
  BY <1>1, <1>6, <1>7 DEF LInv, LoadsFromLeaders, AllOrderly

\* Death leaves no LOAD where there was none.
LEMMA DroppedCarries ==
  ASSUME IInv, NEW n \in Nodes, NEW c \in ConnIds, conns' = Dropped(n), Carries(c)'
  PROVE  Carries(c) /\ conns'[c].from = conns[c].from /\ conns'[c].to = conns[c].to
<1> DEFINE k == conns[c]
           open == k.open \ ((IF k.from = n THEN {"from"} ELSE {})
                             \cup (IF k.to = n THEN {"to"} ELSE {}))
<1>1. k \in Connection
  BY DEF IInv, FieldsTyped
<1>2. conns'[c] = IF open = {} THEN Closed
                  ELSE IF open = k.open THEN k
                  ELSE IF "to" \in open THEN [k EXCEPT !.open = open, !.resp = <<>>]
                  ELSE [k EXCEPT !.open = open, !.req = <<>>, !.server = "exited", !.input = NoMsg]
  BY DEF Dropped
<1>3. Closed.input.type = "NONE" /\ Closed.req = <<>> /\ NoMsg.type = "NONE"
  BY DEF Closed, NoMsg, Msg
<1> DEFINE r == [k EXCEPT !.open = open, !.resp = <<>>]
           s == [k EXCEPT !.open = open, !.req = <<>>, !.server = "exited", !.input = NoMsg]
<1>4. /\ r.req = k.req /\ r.input = k.input /\ r.from = k.from /\ r.to = k.to
      /\ s.req = <<>> /\ s.input = NoMsg
  BY <1>1 DEF Connection
<1> HIDE DEF open, k, r, s
<1>5. conns'[c] = Closed \/ conns'[c] = k \/ conns'[c] = r \/ conns'[c] = s
  BY <1>2 DEF r, s
<1>6. conns'[c] # Closed /\ conns'[c] # s
  BY <1>3, <1>4, NoRequestsIn DEF Carries
<1> QED
  BY <1>4, <1>5, <1>6 DEF Carries, k

LEMMA DiesInOrder ==
  ASSUME IInv, LInv, LeadersLive, NEW n \in Nodes, Crash(n)
  PROVE  LInv'
<1>1. /\ conns' = Dropped(n) /\ link' = [link EXCEPT ![n] = [m \in Nodes |-> NoConn]]
      /\ main' = [main EXCEPT ![n] = Loop] /\ n \notin leaders /\ leaders' = leaders
  BY DEF Crash, Down, LeadersLive
<1>2. link \in [Nodes -> [Nodes -> ConnIds \cup {NoConn}]] /\ main \in [Nodes -> MainThread]
      /\ leaders \subseteq Nodes
  BY DEF IInv, FieldsTyped, MainsInPlace
<1>3. ASSUME NEW c \in ConnIds, Carries(c)'
      PROVE  /\ conns'[c].from \in leaders' /\ conns'[c].to \in Nodes
             /\ link'[conns'[c].from][conns'[c].to] = c
  <2>1. Carries(c) /\ conns'[c].from = conns[c].from /\ conns'[c].to = conns[c].to
    BY <1>1, <1>3, DroppedCarries
  <2>2. /\ conns[c].from \in leaders /\ conns[c].to \in Nodes
        /\ link[conns[c].from][conns[c].to] = c
    BY <2>1 DEF LInv, LoadsFromLeaders, FromLeader
  <2> QED
    BY <1>1, <1>2, <2>1, <2>2
<1>4. ASSUME NEW p \in Nodes, NEW q \in Nodes, NEW d, d = link'[p][q], d # NoConn
      PROVE  Orderly(p, d)'
  <2>1. p # n /\ d = link[p][q] /\ main'[p] = main[p]
    BY <1>1, <1>2, <1>4
  <2>2. Orderly(p, d) /\ d \in ConnIds
    BY <1>4, <2>1, LinkOnce DEF LInv, AllOrderly
  <2> SUFFICES ASSUME Live(d)' PROVE Orderly(p, d)'
    BY DEF Orderly
  <2>3. conns'[d] = Dropped(n)[d] /\ "from" \in conns'[d].open /\ "to" \in conns'[d].open
    BY <1>1 DEF Live
  <2>4. conns'[d] = conns[d]
    BY <2>2, <2>3, DroppedTyped
  <2> QED
    BY <2>1, <2>2, <2>4, OrderKept DEF AskingId
<1> QED
  BY <1>3, <1>4 DEF LInv, LoadsFromLeaders, FromLeader, AllOrderly

\* connect_with_peer gives up no live connection of a leader.  It waits for the
\* id, or it is over and, after a lost connection, the leader begins to load.
Reconnected(n, m, cs, c) ==
  /\ m \in Peers(n) /\ cs \in [ConnIds -> Connection] /\ c \in ConnIds \cup {NoConn}
  /\ UNCHANGED <<leaders, db, phase>> /\ link' = [link EXCEPT ![n][m] = c]
  /\ \A d \in ConnIds : cs[d] = conns[d] \/ (cs[d] = Closed /\ d = link[n][m])
  /\ n \in leaders /\ link[n][m] # NoConn => cs[link[n][m]] = Closed
  /\ main[n].conn \in {NoConn, link[n][m]} /\ main'[n].conn = c
  /\ \A p \in Nodes : p # n => main'[p] = main[p]
  /\ \A d \in ConnIds : d # c => conns'[d] = cs[d]
  /\ c # NoConn => main'[n].at = "id" /\ cs[c].open = {} /\ conns'[c] = Opened(n, m)
  /\ c = NoConn /\ n \in leaders =>
       \/ BeginLoad(n)
       \/ main[n].at = "loop" /\ main'[n].at = "loop" /\ UNCHANGED <<conns, link>>

LEMMA ConnectEffect ==
  ASSUME IInv, NEW n \in Nodes, NEW m \in Peers(n), NEW cs \in [ConnIds -> Connection],
         \A d \in ConnIds : cs[d] = conns[d] \/ (cs[d] = Closed /\ d = link[n][m]),
         n \in leaders /\ link[n][m] # NoConn => cs[link[n][m]] = Closed,
         main[n].conn \in {NoConn, link[n][m]}, UNCHANGED <<leaders, db, phase>>,
         NEW reload, Connect(n, m, cs, reload),
         n \in leaders /\ ~reload => main[n].at = "loop" /\ cs = conns /\ link[n][m] = NoConn
  PROVE  \E c \in ConnIds \cup {NoConn} : Reconnected(n, m, cs, c)
<1>1. /\ main \in [Nodes -> MainThread] /\ main[n] \in MainThread /\ m \in Nodes
      /\ link \in [Nodes -> [Nodes -> ConnIds \cup {NoConn}]]
      /\ leaders \subseteq {p \in Nodes : phase[p] = "up"}
  BY DEF IInv, FieldsTyped, Peers, MainsInPlace
<1>2. CASE \E c \in ConnIds :
             /\ cs[c].open = {} /\ conns' = [cs EXCEPT ![c] = Opened(n, m)]
             /\ link' = [link EXCEPT ![n][m] = c]
             /\ main' = [main EXCEPT ![n].at = "id", ![n].conn = c]
  <2>1. PICK c \in ConnIds :
          /\ cs[c].open = {} /\ conns' = [cs EXCEPT ![c] = Opened(n, m)]
          /\ link' = [link EXCEPT ![n][m] = c]
          /\ main' = [main EXCEPT ![n].at = "id", ![n].conn = c]
    BY <1>2
  <2> DEFINE t == [main[n] EXCEPT !.at = "id", !.conn = c]
  <2>2. main' = [main EXCEPT ![n] = t]
    BY <1>1, <2>1
  <2>3. t.at = "id" /\ t.conn = c
    BY <1>1 DEF MainThread
  <2> HIDE DEF t
  <2>4. main'[n] = t /\ \A p \in Nodes : p # n => main'[p] = main[p]
    BY <1>1, <2>2
  <2>5. conns'[c] = Opened(n, m) /\ \A d \in ConnIds : d # c => conns'[d] = cs[d]
    BY <2>1
  <2>6. c # NoConn
    BY DEF ConnIds, NoConn
  <2>7. Reconnected(n, m, cs, c)
    BY <2>1, <2>3, <2>4, <2>5, <2>6 DEF Reconnected
  <2> QED
    BY <2>7
<1>3. CASE /\ conns' = cs /\ link' = [link EXCEPT ![n][m] = NoConn]
           /\ IF reload THEN LoadIfLeader(n, m) ELSE Resume(n, m)
  <2>1. main'[n].conn = NoConn /\ \A p \in Nodes : p # n => main'[p] = main[p]
    <3>1. CASE BeginLoad(n)
      <4>1. main' = [main EXCEPT ![n] = [Loop EXCEPT !.at = "count", !.count = 1, !.rest = Peers(n)]]
        BY <3>1 DEF BeginLoad
      <4>2. [Loop EXCEPT !.at = "count", !.count = 1, !.rest = Peers(n)].conn = NoConn
        BY DEF Loop
      <4> QED
        BY <1>1, <4>1, <4>2
    <3>2. CASE Resume(n, m)
      <4>1. main' = [main EXCEPT ![n] = [main[n] EXCEPT !.at = Resting(n), !.conn = NoConn,
                                                        !.rest = @ \ {m}]]
        BY <3>2 DEF Resume
      <4>2. [main[n] EXCEPT !.at = Resting(n), !.conn = NoConn, !.rest = @ \ {m}].conn = NoConn
        BY <1>1 DEF MainThread
      <4> QED
        BY <1>1, <4>1, <4>2
    <3> QED
      BY <1>3, <3>1, <3>2 DEF LoadIfLeader
  <2>2. ASSUME n \in leaders
        PROVE  \/ BeginLoad(n)
               \/ main[n].at = "loop" /\ main'[n].at = "loop" /\ UNCHANGED <<conns, link>>
    <3>1. CASE reload
      BY <1>3, <2>2, <3>1 DEF LoadIfLeader
    <3>2. CASE ~reload
      <4>1. main[n].at = "loop" /\ conns' = conns /\ link[n][m] = NoConn
        BY <1>3, <2>2, <3>2
      <4>2. link' = link
        <5>1. [link[n] EXCEPT ![m] = NoConn] = link[n]
          BY <1>1, <4>1
        <5>2. link' = [link EXCEPT ![n] = [link[n] EXCEPT ![m] = NoConn]]
          BY <1>1, <1>3
        <5> QED
          BY <1>1, <5>1, <5>2
      <4>3. main' = [main EXCEPT ![n] = [main[n] EXCEPT !.at = "loop", !.conn = NoConn,
                                                        !.rest = @ \ {m}]]
        BY <1>1, <1>3, <2>2, <3>2 DEF Resume, Resting
      <4>4. [main[n] EXCEPT !.at = "loop", !.conn = NoConn, !.rest = @ \ {m}].at = "loop"
        BY <1>1 DEF MainThread
      <4> QED
        BY <1>1, <4>1, <4>2, <4>3, <4>4
    <3> QED
      BY <3>1, <3>2
  <2>3. Reconnected(n, m, cs, NoConn)
    BY <1>3, <2>1, <2>2 DEF Reconnected
  <2> QED
    BY <2>3
<1> QED
  BY <1>2, <1>3 DEF Connect

LEMMA ConnectingEffect ==
  ASSUME IInv, NEW n \in Nodes,
         \/ BootConnect(n) \/ \E m \in Peers(n) : TimerConnect(n, m)
         \/ \E k \in 0..MaxRead : Invalid(n, k)
  PROVE  \E m, cs, c : Reconnected(n, m, cs, c)
<1>1. MainInPlace(n) /\ conns \in [ConnIds -> Connection] /\ UNCHANGED <<leaders, db, phase>>
      /\ leaders \subseteq {p \in Nodes : phase[p] = "up"}
  BY DEF IInv, FieldsTyped, MainsInPlace, BootConnect, TimerConnect, Invalid, procVars
<1>2. CASE BootConnect(n)
  <2>1. PICK m : m = NextOf(main[n].rest)
    OBVIOUS
  <2>2. main[n].at = "boot" /\ main[n].rest # {} /\ Connect(n, m, conns, FALSE)
    BY <1>2, <2>1 DEF BootConnect
  <2>3. m \in Peers(n) /\ main[n].conn = NoConn /\ n \notin leaders
    BY <1>1, <2>1, <2>2 DEF NextOf, MainInPlace
  <2> QED
    BY <1>1, <2>2, <2>3, ConnectEffect
<1>3. ASSUME NEW m \in Peers(n), TimerConnect(n, m) PROVE \E cs, c : Reconnected(n, m, cs, c)
  <2>1. main[n].at = "loop" /\ Connect(n, m, conns, FALSE) /\ link[n][m] = NoConn
    BY <1>3 DEF TimerConnect, Idle
  <2>2. main[n].conn = NoConn
    BY <1>1, <2>1 DEF MainInPlace
  <2> QED
    BY <1>1, <2>1, <2>2, ConnectEffect
<1>4. ASSUME NEW k \in 0..MaxRead, Invalid(n, k) PROVE \E m, cs, c : Reconnected(n, m, cs, c)
  <2> SUFFICES ASSUME NEW c, c = main[n].conn, NEW m, m = conns[c].to, NEW cs, cs = GivenUp(c, k)
               PROVE  \E d : Reconnected(n, m, cs, d)
    OBVIOUS
  <2>1. main[n].at = "check" /\ PingFails(c, k) /\ Connect(n, m, cs, TRUE)
    BY <1>4 DEF Invalid
  <2>2. c \in ConnIds /\ m \in Peers(n) /\ link[n][m] = c
    BY <2>1, WaitsOn
  <2>3. cs = [conns EXCEPT ![c] = Closed]
    BY <2>1, FailsAtEnd DEF GivenUp
  <2>4. Closed \in Connection
    BY ClosedTyped
  <2>5. cs \in [ConnIds -> Connection]
    BY <1>1, <2>3, <2>4
  <2>6. cs[c] = Closed /\ \A d \in ConnIds : cs[d] = conns[d] \/ (cs[d] = Closed /\ d = link[n][m])
    BY <1>1, <2>2, <2>3
  <2> QED
    BY <1>1, <2>1, <2>2, <2>5, <2>6, ConnectEffect
<1> QED
  BY <1>2, <1>3, <1>4

LEMMA ConnectsInOrder ==
  ASSUME IInv, LInv, NEW n \in Nodes, NEW m, NEW cs, NEW c, Reconnected(n, m, cs, c)
  PROVE  LInv'
<1>1. /\ main \in [Nodes -> MainThread] /\ m \in Nodes
      /\ link \in [Nodes -> [Nodes -> ConnIds \cup {NoConn}]] /\ leaders \subseteq Nodes
      /\ conns \in [ConnIds -> Connection]
  BY DEF IInv, FieldsTyped, Peers, Reconnected, MainsInPlace
<1>2. /\ link'[n][m] = c
      /\ \A p, q \in Nodes : p # n \/ q # m => link'[p][q] = link[p][q]
  BY <1>1 DEF Reconnected
<1>3. ASSUME NEW d \in ConnIds, Carries(d)'
      PROVE  /\ conns'[d].from \in leaders' /\ conns'[d].to \in Nodes
             /\ link'[conns'[d].from][conns'[d].to] = d
  <2>1. d # c
    <3> SUFFICES ASSUME d = c PROVE FALSE
      OBVIOUS
    <3>1. conns'[d] = Opened(n, m) /\ IdReq \in Message
      BY MessagesTyped DEF Reconnected, ConnIds, NoConn
    <3>2. Opened(n, m).input.type = "NONE" /\ Opened(n, m).req = <<IdReq>>
      BY MessagesTyped DEF Opened
    <3>3. Loads(<<IdReq>>) = {}
      <4>1. \A j \in 1..Len(<<IdReq>>) : <<IdReq>>[j] = IdReq
        OBVIOUS
      <4> QED
        BY <4>1, MessagesTyped DEF Loads
    <3> QED
      BY <1>3, <3>1, <3>2, <3>3 DEF Carries
  <2>2. conns'[d] = cs[d] /\ cs[d] # Closed
    <3>1. Closed.input.type = "NONE" /\ Closed.req = <<>>
      BY DEF Closed, NoMsg, Msg
    <3>2. conns'[d] = cs[d]
      BY <2>1 DEF Reconnected
    <3> QED
      BY <1>3, <3>1, <3>2, NoRequestsIn DEF Carries
  <2>3. conns'[d] = conns[d] /\ Carries(d)
    BY <1>3, <2>2 DEF Reconnected, Carries
  <2>4. /\ conns[d].from \in leaders /\ conns[d].to \in Nodes
        /\ link[conns[d].from][conns[d].to] = d
    BY <2>3 DEF LInv, LoadsFromLeaders, FromLeader
  <2>5. conns[d].from # n \/ conns[d].to # m
    BY <2>2, <2>4 DEF Reconnected, ConnIds, NoConn
  <2> QED
    BY <1>1, <1>2, <2>3, <2>4, <2>5 DEF Reconnected
<1>4. ASSUME NEW p \in Nodes, NEW q \in Nodes, NEW d, d = link'[p][q], d # NoConn
      PROVE  Orderly(p, d)'
  <2>1. CASE p = n /\ q = m
    BY <1>2, <1>4, <2>1 DEF Reconnected, Orderly, AskingId
  <2>2. CASE p # n \/ q # m
    <3>1. d = link[p][q] /\ d \in ConnIds
      BY <1>1, <1>2, <1>4, <2>2
    <3>2. Orderly(p, d) /\ conns[d].open # {}
      BY <1>4, <3>1 DEF LInv, AllOrderly, IInv, LinksHeld
    <3>3. d # link[n][m]
      <4> SUFFICES ASSUME d = link[n][m] PROVE FALSE
        OBVIOUS
      <4>1. link[p][q] # NoConn /\ link[p][q] = link[n][m]
        BY <1>4, <3>1
      <4> QED
        BY <1>1, <2>2, <4>1, LinkOnce
    <3>4. cs[d] = conns[d] /\ d # c /\ conns'[d] = conns[d]
      <4>1. cs[d] = conns[d]
        BY <3>1, <3>3 DEF Reconnected
      <4>2. c # NoConn => cs[c].open = {}
        BY DEF Reconnected
      <4>3. d # c
        BY <1>4, <3>2, <4>1, <4>2
      <4> QED
        BY <3>1, <4>1, <4>3 DEF Reconnected
    <3>5. AskingId(p, d) <=> AskingId(p, d)'
      <4>1. p # n => main'[p] = main[p]
        BY DEF Reconnected
      <4>2. main[n].conn # d /\ main'[n].conn # d
        BY <1>4, <3>3, <3>4 DEF Reconnected
      <4> QED
        BY <4>1, <4>2 DEF AskingId
    <3> QED
      BY <3>2, <3>4, <3>5, OrderKept
  <2> QED
    BY <2>1, <2>2
<1> QED
  BY <1>3, <1>4 DEF LInv, LoadsFromLeaders, FromLeader, AllOrderly

LEMMA LInvPreserved == LeadersLive /\ IInv /\ PInv /\ LInv /\ [Next]_vars => LInv'
<1> SUFFICES ASSUME LeadersLive, IInv, PInv, LInv, [Next]_vars PROVE LInv'
  OBVIOUS
<1>1. main \in [Nodes -> MainThread] /\ \A n \in Nodes : MainInPlace(n)
  BY DEF IInv, FieldsTyped, MainsInPlace
<1>2. ASSUME NEW n \in Nodes, (\E now \in 1..MaxTime : Start(n, now)) \/ StartDealing(n)
                              \/ LoadLocal(n) \/ Listen(n)
      PROVE  LInv'
  <2>1. UNCHANGED <<conns, link, leaders>>
    BY <1>2 DEF Start, StartDealing, LoadLocal, Listen, procVars
  <2>2. main[n].at # "id"
    <3>1. (\E now \in 1..MaxTime : Start(n, now)) => main[n].at = "loop"
      BY <1>1, LoopTyped DEF Start, MainInPlace
    <3> QED
      BY <1>2, <3>1 DEF StartDealing, LoadLocal, Listen
  <2>3. main'[n].at # "id" /\ \A p \in Nodes : p # n => main'[p] = main[p]
    <3>1. CASE \E now \in 1..MaxTime : Start(n, now)
      <4>1. main' = [main EXCEPT ![n] = [Loop EXCEPT !.at = "boot", !.rest = Peers(n)]]
        BY <3>1 DEF Start
      <4>2. [Loop EXCEPT !.at = "boot", !.rest = Peers(n)].at = "boot"
        BY DEF Loop
      <4> QED
        BY <1>1, <4>1, <4>2
    <3>2. CASE StartDealing(n)
      <4>1. main' = [main EXCEPT ![n] = [main[n] EXCEPT !.at = "share", !.slot = FirstPeerSlot,
                                                        !.rest = Peers(n)]]
        BY <3>2 DEF StartDealing
      <4>2. [main[n] EXCEPT !.at = "share", !.slot = FirstPeerSlot, !.rest = Peers(n)].at = "share"
        BY <1>1 DEF MainThread
      <4> QED
        BY <1>1, <4>1, <4>2
    <3>3. CASE LoadLocal(n) \/ Listen(n)
      BY <1>1, <3>3, LoopTyped DEF LoadLocal, Listen
    <3> QED
      BY <1>2, <3>1, <3>2, <3>3
  <2> QED
    BY <2>1, <2>2, <2>3, RestsInOrder
<1>3. ASSUME NEW n \in Nodes, Crash(n) PROVE LInv'
  BY <1>3, DiesInOrder
<1>4. ASSUME NEW n \in Nodes,
             \/ BootConnect(n) \/ \E m \in Peers(n) : TimerConnect(n, m)
             \/ \E k \in 0..MaxRead : Invalid(n, k)
      PROVE  LInv'
  BY <1>4, ConnectingEffect, ConnectsInOrder
<1>5. ASSUME NEW n \in Nodes, Timer(n) PROVE LInv'
  BY <1>4, <1>5, LeadsInOrder, AsksInOrder DEF Timer
<1>6. ASSUME NEW n \in Nodes, Callback(n) PROVE LInv'
  <2>1. ASSUME BootConnect(n) \/ Listen(n) \/ AskNext(n) \/ StartDealing(n) \/ LoadLocal(n)
        PROVE  LInv'
    BY <1>2, <1>4, <2>1, AsksInOrder
  <2>2. ASSUME NEW k \in 0..MaxRead,
               Valid(n, k) \/ Invalid(n, k) \/ Count(n, k) \/ Deal(n, k) \/ PassOver(n, k)
        PROVE  LInv'
    BY <1>4, <2>2, AnswersInOrder
  <2>3. ASSUME NEW m \in Peers(n), GetId(n, m)
        PROVE  LInv'
    BY <2>3, GetsIdInOrder
  <2>4. ASSUME NEW c \in ConnIds, Accept(n, c)
        PROVE  LInv'
    BY <2>4, AcceptsInOrder
  <2> QED
    BY <1>6, <2>1, <2>2, <2>3, <2>4 DEF Callback
<1>7. ASSUME NEW c \in ConnIds, ServerStep(c) PROVE LInv'
  BY <1>7, ServedInOrder
<1>8. ASSUME UNCHANGED vars PROVE LInv'
  <2>1. UNCHANGED <<conns, link, leaders, main>>
    BY <1>8 DEF vars, procVars
  <2>2. \A p \in Nodes, d \in ConnIds : AskingId(p, d) <=> AskingId(p, d)'
    BY <2>1 DEF AskingId
  <2>3. NoConn \notin ConnIds
    BY DEF NoConn, ConnIds
  <2> QED
    BY <2>1, <2>2, <2>3, OneTouched
<1> QED
  BY <1>2, <1>3, <1>5, <1>6, <1>7, <1>8 DEF Next, MainStep

-----------------------------------------------------------------------------
\* What a peer was dealt.

\* A live connection carries one LOAD at most: on its way, or in hand.
HasInHand(k) == k.input.type = "LOAD" /\ k.server \in {"spinning", "handling", "loading"}
OneLoad(k) ==
  /\ k.req \in Seq(Message) /\ Loads(k.req) \subseteq {1}
  /\ HasInHand(k) => Loads(k.req) = {}
DealtBy(k, S) ==
  IF HasInHand(k) THEN k.input.body ELSE IF Loads(k.req) # {} THEN k.req[1].body ELSE S

DInv ==
  \A n, m \in Nodes :
    LET c == link[n][m] IN
    c # NoConn /\ Live(c) => OneLoad(conns[c]) /\ Dealt(n, m) = DealtBy(conns[c], db[m])

UnderWay(k) ==
  {msg \in Range(k.req) : msg.type = "LOAD"}
  \cup {msg \in {k.input} :
          msg.type = "LOAD" /\ k.server \in {"spinning", "handling", "loading"}}

LEMMA LoadsOf ==
  ASSUME NEW k, OneLoad(k), NEW now, NEW S, now = UnderWay(k)
  PROVE  (IF now = {} THEN S ELSE UNION {msg.body : msg \in now}) = DealtBy(k, S)
<1> DEFINE q == k.req
           A == {msg \in Range(q) : msg.type = "LOAD"}
           B == {msg \in {k.input} :
                   msg.type = "LOAD" /\ k.server \in {"spinning", "handling", "loading"}}
<1>1. B = IF HasInHand(k) THEN {k.input} ELSE {}
  BY DEF HasInHand
<1>2. A = IF Loads(q) = {} THEN {} ELSE {q[1]}
  <2>1. Range(q) = {q[j] : j \in 1..Len(q)}
    BY DEF OneLoad, Range
  <2>2. A = {q[j] : j \in Loads(q)}
    BY <2>1 DEF Loads
  <2>3. Loads(q) # {} => Loads(q) = {1}
    BY DEF OneLoad
  <2> QED
    BY <2>2, <2>3
<1>3. now = A \cup B
  BY DEF UnderWay
<1> HIDE DEF A, B
<1>4. ASSUME NEW msg, now = {msg} PROVE UNION {x.body : x \in now} = msg.body
  <2>1. {x.body : x \in now} = {msg.body}
    BY <1>4
  <2> QED
    BY <2>1
<1>5. CASE HasInHand(k)
  <2>1. now = {k.input}
    BY <1>1, <1>2, <1>3, <1>5 DEF OneLoad
  <2> QED
    BY <1>4, <1>5, <2>1 DEF DealtBy
<1>6. CASE ~HasInHand(k) /\ Loads(q) # {}
  <2>1. now = {q[1]}
    BY <1>1, <1>2, <1>3, <1>6
  <2> QED
    BY <1>4, <1>6, <2>1 DEF DealtBy
<1>7. CASE ~HasInHand(k) /\ Loads(q) = {}
  BY <1>1, <1>2, <1>3, <1>7 DEF DealtBy
<1> QED
  BY <1>5, <1>6, <1>7

LEMMA OneLoadEach == IInv /\ LInv => DInv
<1> SUFFICES ASSUME IInv, LInv, NEW n \in Nodes, NEW m \in Nodes, NEW c, c = link[n][m],
                    c # NoConn, Live(c)
             PROVE  OneLoad(conns[c]) /\ Dealt(n, m) = DealtBy(conns[c], db[m])
  BY DEF DInv
<1>1. c \in ConnIds /\ conns[c].req \in Seq(Message)
  BY LinkOnce DEF IInv, FieldsTyped, Connection
<1>2. OneLoad(conns[c])
  <2>1. CASE AskingId(n, c)
    <3>1. IdComing(c)
      BY <2>1 DEF IInv, IdsComeFirst
    <3>2. conns[c].server \in {"backlog", "reading"}
      BY <3>1 DEF IdComing, Live
    <3>3. conns[c].req = <<IdReq>> \/ conns[c].req = <<>>
      BY <3>1 DEF IdComing, Live
    <3>4. Loads(<<IdReq>>) = {}
      <4>1. \A j \in 1..Len(<<IdReq>>) : <<IdReq>>[j] = IdReq
        OBVIOUS
      <4> QED
        BY <4>1, MessagesTyped DEF Loads
    <3> QED
      BY <1>1, <3>2, <3>3, <3>4, NoRequestsIn DEF OneLoad, HasInHand
  <2>2. CASE ~AskingId(n, c)
    <3>1. InOrder(c)
      BY <2>2 DEF LInv, AllOrderly, Orderly
    <3> QED
      BY <1>1, <3>1 DEF InOrder, OneLoad, HasInHand
  <2> QED
    BY <2>1, <2>2
<1>3. PICK now : now = UnderWay(conns[c])
  OBVIOUS
<1>4. LoadsUnderWay(c) = now
  BY <1>3 DEF LoadsUnderWay, UnderWay
<1>5. Dealt(n, m) = IF now = {} THEN db[m] ELSE UNION {msg.body : msg \in now}
  BY <1>4 DEF Dealt
<1>6. (IF now = {} THEN db[m] ELSE UNION {msg.body : msg \in now}) = DealtBy(conns[c], db[m])
  BY <1>2, <1>3, LoadsOf
<1> QED
  BY <1>2, <1>5, <1>6

-----------------------------------------------------------------------------
\* The steps of the other threads.

\* Members are others.
LEMMA MembersArePeers == IInv => \A n \in Nodes : Members(n) \subseteq Peers(n)
BY DEF IInv, LinksHeld, Members, Peers

LEMMA DealtOutKept ==
  ASSUME NEW n, NEW S, NEW T, DealtOut(n, S, T), \A m \in S : Dealt(n, m)' = Dealt(n, m)
  PROVE  /\ \A m \in S : Dealt(n, m)' \subseteq T
         /\ \A f \in T : \E m \in S : f \in Dealt(n, m)'
         /\ \A l, m \in S : l # m => Dealt(n, l)' \cap Dealt(n, m)' = {}
BY DEF DealtOut

\* The peer whose answer is waited for is the same.
LEMMA LeftKept ==
  ASSUME IInv, IInv', NEW n \in Nodes, main'[n] = main[n], link'[n] = link[n],
         main[n].at \in {"count", "share"}
  PROVE  Left(n)' = Left(n)
<1>1. CASE main[n].conn = NoConn
  BY <1>1 DEF Left
<1>2. CASE main[n].conn # NoConn
  <2>1. Waiting(n)
    BY <1>2 DEF IInv, MainsInPlace, MainInPlace
  <2>2. PICK m \in Nodes : m = conns[main[n].conn].to /\ link[n][m] = main[n].conn
    BY <2>1 DEF Waiting
  <2>3. link'[n][m] = main[n].conn
    BY <2>2
  <2>4. conns'[main[n].conn].to = m
    BY <1>2, <2>3 DEF IInv, LinksHeld
  <2> QED
    BY <1>2, <2>2, <2>4 DEF Left
<1> QED
  BY <1>1, <1>2

\* What the only leader has counted and dealt is not disturbed.
Undisturbed(n) ==
  leaders' = {n} /\ AllLive(n)' =>
    /\ leaders = {n} /\ AllLive(n)
    /\ main'[n] = main[n] /\ link'[n] = link[n] /\ db'[n] = db[n]
    /\ \A m \in Members(n) : Dealt(n, m)' = Dealt(n, m)

LEMMA CoveringKept ==
  ASSUME IInv, IInv', NEW n \in Nodes, Covering(n), Undisturbed(n)
  PROVE  Covering(n)'
<1> SUFFICES ASSUME leaders' = {n}, AllLive(n)'
             PROVE  /\ main'[n].at = "count" => main'[n].count = 1 + Cardinality(Heard(n)')
                    /\ main'[n].at = "share" =>
                         /\ main'[n].count = 1 + Cardinality(Members(n)')
                         /\ main'[n].slot = 1 + Cardinality(Heard(n)')
                         /\ DealtOut(n, Heard(n), {f \in Fragments :
                              f % main[n].count \in 1..(main[n].slot - 1)})'
                    /\ main'[n].at \in {"loop", "check"} =>
                         DealtOut(n, Members(n), Fragments \ db[n])'
  BY DEF Covering
<1>1. /\ leaders = {n} /\ AllLive(n) /\ main'[n] = main[n] /\ link'[n] = link[n] /\ db'[n] = db[n]
      /\ \A m \in Members(n) : Dealt(n, m)' = Dealt(n, m)
  BY DEF Undisturbed
<1>2. Members(n)' = Members(n) /\ Heard(n) \subseteq Members(n)
  BY <1>1 DEF Members, Heard
<1>3. main[n].at \in {"count", "share"} => Heard(n)' = Heard(n)
  BY <1>1, <1>2, LeftKept DEF Heard
<1>4. ASSUME main[n].at = "share"
      PROVE  DealtOut(n, Heard(n), {f \in Fragments : f % main[n].count \in 1..(main[n].slot - 1)})'
  <2> DEFINE T == {f \in Fragments : f % main[n].count \in 1..(main[n].slot - 1)}
  <2>1. DealtOut(n, Heard(n), T)
    BY <1>1, <1>4 DEF Covering
  <2>2. T' = T
    BY <1>1
  <2> HIDE DEF T
  <2>3. \A m \in Heard(n) : Dealt(n, m)' = Dealt(n, m)
    BY <1>1, <1>2
  <2>4. Heard(n)' = Heard(n)
    BY <1>3, <1>4
  <2>5. DealtOut(n, Heard(n), T)'
    BY <2>1, <2>2, <2>3, <2>4, DealtOutKept DEF DealtOut
  <2> QED
    BY <2>5 DEF T
<1>5. ASSUME main[n].at \in {"loop", "check"}
      PROVE  DealtOut(n, Members(n), Fragments \ db[n])'
  <2> DEFINE T == Fragments \ db[n]
  <2>1. DealtOut(n, Members(n), T)
    BY <1>1, <1>5 DEF Covering
  <2>2. T' = T
    BY <1>1
  <2> HIDE DEF T
  <2>3. DealtOut(n, Members(n), T)'
    BY <1>1, <1>2, <2>1, <2>2, DealtOutKept DEF DealtOut
  <2> QED
    BY <2>3 DEF T
<1>6. /\ main[n].at = "count" => main[n].count = 1 + Cardinality(Heard(n))
      /\ main[n].at = "share" =>
           /\ main[n].count = 1 + Cardinality(Members(n))
           /\ main[n].slot = 1 + Cardinality(Heard(n))
  BY <1>1 DEF Covering
<1> QED
  BY <1>1, <1>2, <1>3, <1>4, <1>5, <1>6

\* A step by which a leader's connections, where they stay live, keep their
\* LOADs, and their peers what they loaded.
LEMMA DealtKept ==
  ASSUME IInv, DInv, DInv', NEW n \in Nodes, link'[n] = link[n],
         NEW m \in Members(n), Live(link[n][m]), Live(link[n][m])',
         DealtBy(conns'[link[n][m]], db'[m]) = DealtBy(conns[link[n][m]], db[m])
  PROVE  Dealt(n, m)' = Dealt(n, m)
<1> SUFFICES ASSUME NEW c, c = link[n][m] PROVE Dealt(n, m)' = Dealt(n, m)
  OBVIOUS
<1>1. m \in Nodes /\ c # NoConn /\ link'[n][m] = c
  BY DEF Members
<1>2. Dealt(n, m) = DealtBy(conns[c], db[m])
  BY <1>1 DEF DInv
<1>3. Live(c)'
  BY DEF Live
<1>4. Dealt(n, m)' = DealtBy(conns'[c], db'[m])
  BY <1>1, <1>3 DEF DInv, Live
<1> QED
  BY <1>2, <1>4

LEMMA OthersCover ==
  ASSUME IInv, IInv', DInv, DInv', NEW n \in Nodes, Covering(n),
         leaders' = {n} => leaders = {n},
         leaders' = {n} => main'[n] = main[n] /\ link'[n] = link[n] /\ db'[n] = db[n],
         \A m \in Members(n) : leaders' = {n} /\ Live(link[n][m])' =>
           /\ Live(link[n][m])
           /\ DealtBy(conns'[link[n][m]], db'[m]) = DealtBy(conns[link[n][m]], db[m])
  PROVE  Covering(n)'
<1> SUFFICES ASSUME leaders' = {n}, AllLive(n)'
             PROVE  AllLive(n) /\ \A m \in Members(n) : Dealt(n, m)' = Dealt(n, m)
  BY CoveringKept DEF Undisturbed
<1>1. ASSUME NEW m \in Members(n)
      PROVE  /\ Live(link[n][m]) /\ Live(link[n][m])'
             /\ DealtBy(conns'[link[n][m]], db'[m]) = DealtBy(conns[link[n][m]], db[m])
  <2>1. PICK c : c = link[n][m]
    OBVIOUS
  <2>2. m \in Members(n)' /\ link'[n][m] = c
    BY <2>1 DEF Members
  <2>3. Live(c)'
    BY <2>2 DEF AllLive, Live
  <2>4. Live(link[n][m])'
    BY <2>1, <2>2, <2>3 DEF Live
  <2> QED
    BY <2>4
<1> QED
  BY <1>1, DealtKept DEF AllLive

\* The steps of peer_main: a LOAD that is read is in hand, one in hand is
\* loaded.
LEMMA ServedCovers ==
  ASSUME IInv, IInv', LInv, DInv, DInv', NEW n \in Nodes, Covering(n),
         NEW c \in ConnIds, ServerStep(c)
  PROVE  Covering(n)'
<1>1. /\ UNCHANGED <<leaders, link, main, phase>>
      /\ \A d \in ConnIds : d # c => conns'[d] = conns[d]
      /\ \/ ~Live(c) /\ ~Live(c)' /\ db' = db
         \/ /\ conns'[c].from = conns[c].from /\ conns'[c].to = conns[c].to
            /\ conns'[c].open = conns[c].open
            /\ ReadsRequest(c) \/ AnswersPing(c) \/ GoesOn(c)
  BY ServerEffect
<1> SUFFICES ASSUME leaders' = {n}
             PROVE  /\ db'[n] = db[n]
                    /\ \A m \in Members(n) : Live(link[n][m])' =>
                         /\ Live(link[n][m])
                         /\ DealtBy(conns'[link[n][m]], db'[m]) = DealtBy(conns[link[n][m]], db[m])
  BY <1>1, OthersCover
<1>2. db \in [Nodes -> SUBSET Fragments] /\ leaders = {n}
  BY <1>1 DEF IInv, FieldsTyped
\* Only a LOAD of the leader's is loaded.
<1>3. ASSUME NEW m \in Nodes, db'[m] # db[m]
      PROVE  link[n][m] = c /\ m \in Members(n)
  <2>1. GoesOn(c) /\ InHand(c) /\ db' = [db EXCEPT ![conns[c].to] = conns[c].input.body]
    BY <1>1, <1>3 DEF ReadsRequest, AnswersPing, GoesOn
  <2>2. conns[c].to = m
    BY <1>2, <1>3, <2>1
  <2>3. FromLeader(c) /\ Carries(c)
    BY <2>1 DEF LInv, LoadsFromLeaders, InHand, Carries
  <2> QED
    BY <1>2, <2>2, <2>3 DEF FromLeader, Members, ConnIds, NoConn
<1>4. db'[n] = db[n]
  BY <1>3, MembersArePeers DEF Peers
<1>5. ASSUME NEW m \in Members(n), NEW d, d = link[n][m], Live(d)'
      PROVE  Live(d) /\ DealtBy(conns'[d], db'[m]) = DealtBy(conns[d], db[m])
  <2>1. d \in ConnIds /\ d # NoConn /\ m \in Nodes
    BY <1>5 DEF Members, IInv, FieldsTyped
  <2>2. CASE d # c
    <3>1. conns'[d] = conns[d] /\ db'[m] = db[m]
      BY <1>1, <1>3, <1>5, <2>1, <2>2
    <3> QED
      BY <1>5, <3>1 DEF Live
  <2>3. CASE d = c
    <3>1. /\ conns'[c].open = conns[c].open
          /\ ReadsRequest(c) \/ AnswersPing(c) \/ GoesOn(c)
      BY <1>1, <1>5, <2>3
    <3>2. Live(c)
      BY <1>5, <2>3, <3>1 DEF Live
    <3>3. conns[c].to = m /\ OneLoad(conns[c])
      <4>1. link[n][m] = c /\ c # NoConn /\ m \in Nodes
        BY <1>5, <2>1, <2>3
      <4>2. conns[c].to = m
        BY <4>1 DEF IInv, LinksHeld
      <4>3. OneLoad(conns[c])
        BY <3>2, <4>1 DEF DInv
      <4> QED
        BY <4>2, <4>3
    <3>4. CASE ReadsRequest(c)
      <4>1. PICK k \in Nat \ {0} : conns'[c].req = Rest(conns[c].req, k)
        BY <3>4 DEF ReadsRequest
      <4>2. /\ conns[c].server = "reading" /\ conns'[c].server = "spinning"
            /\ conns[c].req # <<>> /\ conns'[c].input = Head(conns[c].req) /\ db' = db
        BY <3>4 DEF ReadsRequest
      <4>3. /\ Loads(conns'[c].req) = {} /\ conns'[c].input = conns[c].req[1]
            /\ conns'[c].input.type = "LOAD" <=> 1 \in Loads(conns[c].req)
        BY <3>3, <4>1, <4>2, RequestsInRest DEF OneLoad
      <4>4. ~HasInHand(conns[c]) /\ (HasInHand(conns'[c]) <=> Loads(conns[c].req) # {})
        BY <3>3, <4>2, <4>3 DEF OneLoad, HasInHand
      <4>5. DealtBy(conns'[c], db[m]) = DealtBy(conns[c], db[m])
        BY <4>3, <4>4 DEF DealtBy
      <4> QED
        BY <2>3, <3>2, <4>2, <4>5
    <3>5. CASE AnswersPing(c)
      <4>1. /\ conns'[c].req = conns[c].req /\ conns'[c].input = conns[c].input /\ db' = db
            /\ conns[c].input.type # "LOAD"
        BY <3>5, MessagesTyped DEF AnswersPing, PingHandled
      <4>2. DealtBy(conns'[c], db[m]) = DealtBy(conns[c], db[m])
        BY <4>1 DEF DealtBy, HasInHand
      <4> QED
        BY <2>3, <3>2, <4>1, <4>2
    <3>6. CASE GoesOn(c)
      <4>1. conns'[c].req = conns[c].req /\ conns'[c].input = conns[c].input
        BY <3>6 DEF GoesOn
      <4>2. CASE /\ conns[c].server = "loading" /\ InHand(c) /\ conns'[c].server = "reading"
                 /\ db' = [db EXCEPT ![conns[c].to] = conns[c].input.body]
        <5>1. db'[m] = conns[c].input.body
          BY <1>2, <2>1, <3>3, <4>2
        <5>2. HasInHand(conns[c]) /\ ~HasInHand(conns'[c])
          BY <4>2 DEF InHand, HasInHand
        <5>3. Loads(conns'[c].req) = {}
          BY <3>3, <4>1, <5>2 DEF OneLoad
        <5>4. DealtBy(conns'[c], db'[m]) = DealtBy(conns[c], db[m])
          BY <5>1, <5>2, <5>3 DEF DealtBy
        <5> QED
          BY <2>3, <3>2, <5>4
      <4>3. CASE (InHand(c)' <=> InHand(c)) /\ db' = db
        <5>1. HasInHand(conns'[c]) <=> HasInHand(conns[c])
          BY <4>3 DEF InHand, HasInHand
        <5>2. DealtBy(conns'[c], db'[m]) = DealtBy(conns[c], db[m])
          BY <4>1, <4>3, <5>1 DEF DealtBy
        <5> QED
          BY <2>3, <3>2, <5>2
      <4> QED
        BY <3>6, <4>2, <4>3 DEF GoesOn
    <3> QED
      BY <3>1, <3>4, <3>5, <3>6
  <2> QED
    BY <2>2, <2>3
<1>6. \A m \in Members(n) : Live(link[n][m])' =>
        /\ Live(link[n][m])
        /\ DealtBy(conns'[link[n][m]], db'[m]) = DealtBy(conns[link[n][m]], db[m])
  <2> SUFFICES ASSUME NEW m \in Members(n), Live(link[n][m])'
               PROVE  /\ Live(link[n][m])
                      /\ DealtBy(conns'[link[n][m]], db'[m]) = DealtBy(conns[link[n][m]], db[m])
    OBVIOUS
  <2>1. PICK d : d = link[n][m]
    OBVIOUS
  <2>2. Live(d)'
    BY <1>1, <2>1 DEF Live
  <2> QED
    BY <1>5, <2>1, <2>2
<1> QED
  BY <1>4, <1>6

\* A step that touches nothing of n's.
LEMMA UntouchedCovers ==
  ASSUME IInv, IInv', DInv, DInv', NEW n \in Nodes, Covering(n), UNCHANGED <<leaders, db>>,
         main'[n] = main[n], link'[n] = link[n],
         \A m \in Members(n) : conns'[link[n][m]] = conns[link[n][m]]
  PROVE  Covering(n)'
<1>1. ASSUME NEW m \in Members(n), Live(link[n][m])' PROVE Live(link[n][m])
  <2>1. PICK d : d = link[n][m]
    OBVIOUS
  <2>2. conns'[d] = conns[d] /\ link'[n][m] = d
    BY <2>1
  <2> QED
    BY <1>1, <2>1, <2>2 DEF Live
<1> QED
  BY <1>1, OthersCover

\* The connections of others are not n's.
LEMMA NotOthers ==
  ASSUME IInv, NEW n \in Nodes, NEW p \in Nodes, p # n, NEW q \in Nodes
  PROVE  \A m \in Members(n) :
           link[n][m] \in ConnIds /\ link[n][m] # NoConn /\ link[n][m] # link[p][q]
<1> SUFFICES ASSUME NEW m \in Members(n)
             PROVE  link[n][m] \in ConnIds /\ link[n][m] # NoConn /\ link[n][m] # link[p][q]
  OBVIOUS
<1>1. m \in Nodes /\ link[n][m] # NoConn
  BY DEF Members
<1>2. link[n][m] \in ConnIds
  BY <1>1 DEF IInv, FieldsTyped
<1> QED
  BY <1>1, <1>2, LinkOnce

LEMMA OthersStepCovers ==
  ASSUME LeadersLive, IInv, IInv', PInv, LInv, DInv, DInv', NEW n \in Nodes, Covering(n),
         NEW p \in Nodes, p # n,
         (\E now \in 1..MaxTime : Start(p, now)) \/ Crash(p) \/ MainStep(p)
  PROVE  Covering(n)'
<1> SUFFICES ASSUME leaders' = {n} PROVE Covering(n)'
  BY DEF Covering
<1>1. /\ MainInPlace(p) /\ main \in [Nodes -> MainThread] /\ conns \in [ConnIds -> Connection]
      /\ link \in [Nodes -> [Nodes -> ConnIds \cup {NoConn}]] /\ db \in [Nodes -> SUBSET Fragments]
  BY DEF IInv, FieldsTyped, MainsInPlace
<1>2. CASE \E now \in 1..MaxTime : Start(p, now)
  <2>1. UNCHANGED <<conns, leaders, db, link>> /\ main'[n] = main[n]
    BY <1>1, <1>2 DEF Start
  <2> QED
    BY <2>1, UntouchedCovers
<1>3. CASE Crash(p)
  <2>1. /\ conns' = Dropped(p) /\ leaders' = leaders /\ db' = [db EXCEPT ![p] = {}]
        /\ main'[n] = main[n] /\ link'[n] = link[n]
    BY <1>1, <1>3 DEF Crash, Down, LeadersLive
  <2>2. ASSUME NEW m \in Members(n), Live(link[n][m])'
        PROVE  /\ Live(link[n][m])
               /\ DealtBy(conns'[link[n][m]], db'[m]) = DealtBy(conns[link[n][m]], db[m])
    <3>1. PICK d : d = link[n][m]
      OBVIOUS
    <3>2. d \in ConnIds /\ link[n][m] # NoConn /\ m \in Nodes
      BY <1>1, <3>1, NotOthers DEF Members
    <3>3. "from" \in Dropped(p)[d].open /\ "to" \in Dropped(p)[d].open
      BY <2>1, <2>2, <3>1 DEF Live
    <3>4. Dropped(p)[d] = conns[d] /\ conns[d].to # p
      BY <3>2, <3>3, DroppedTyped
    <3>5. conns[d].to = m
      BY <3>1, <3>2 DEF IInv, LinksHeld
    <3>6. conns'[d] = conns[d] /\ db'[m] = db[m]
      BY <1>1, <2>1, <3>2, <3>4, <3>5
    <3> QED
      BY <2>1, <2>2, <3>1, <3>6 DEF Live
  <2>3. db'[n] = db[n]
    BY <1>1, <2>1
  <2> QED
    BY <2>1, <2>2, <2>3, OthersCover
<1>4. CASE Seniority(p)
  <2>1. p \in leaders'
    BY <1>4 DEF Seniority
  <2> QED
    BY <2>1
<1>5. ASSUME AskNext(p) \/ StartDealing(p) \/ LoadLocal(p)
             \/ \E k \in 0..MaxRead : Count(p, k) \/ Deal(p, k) \/ PassOver(p, k)
      PROVE  FALSE
  <2>1. main[p].at \in {"count", "share"} /\ leaders' = leaders
    BY <1>5 DEF AskNext, StartDealing, LoadLocal, Count, Deal, PassOver, procVars
  <2> QED
    BY <1>1, <2>1 DEF MainInPlace
<1>6. CASE \E q \in Peers(p) : TimerPing(p, q)
  <2>1. PICK q \in Peers(p) : TimerPing(p, q)
    BY <1>6
  <2>2. conns' = Sent(conns, link[p][q], Ping) /\ UNCHANGED <<leaders, db, link>> /\ q \in Nodes
        /\ main'[n] = main[n]
    BY <1>1, <2>1 DEF TimerPing, procVars, Peers
  <2>3. \A d \in ConnIds : d # link[p][q] => conns'[d] = conns[d]
    BY <1>1, <2>2 DEF Sent
  <2>4. \A m \in Members(n) : conns'[link[n][m]] = conns[link[n][m]]
    BY <2>2, <2>3, NotOthers
  <2> QED
    BY <2>2, <2>4, UntouchedCovers
<1>7. CASE \E k \in 0..MaxRead : Valid(p, k)
  <2>1. PICK k \in 0..MaxRead : Valid(p, k)
    BY <1>7
  <2>2. PICK c, m : c = main[p].conn /\ m = conns[c].to
    OBVIOUS
  <2>3. AnswerRead(p, k, c, m)
    BY <2>1, <2>2, AnswerEffect
  <2>4. \A q \in Members(n) : conns'[link[n][q]] = conns[link[n][q]]
    BY <2>3, NotOthers DEF AnswerRead, Peers
  <2> QED
    BY <2>3, <2>4, UntouchedCovers DEF AnswerRead
<1>8. CASE \/ BootConnect(p) \/ \E m \in Peers(p) : TimerConnect(p, m)
           \/ \E k \in 0..MaxRead : Invalid(p, k)
  <2>1. PICK m, cs, c : Reconnected(p, m, cs, c)
    BY <1>8, ConnectingEffect
  <2>2. m \in Nodes /\ UNCHANGED <<leaders, db>> /\ main'[n] = main[n] /\ link'[n] = link[n]
    BY <1>1, <2>1 DEF Reconnected, Peers
  <2>3. ASSUME NEW q \in Members(n) PROVE conns'[link[n][q]] = conns[link[n][q]]
    <3>1. PICK d : d = link[n][q]
      OBVIOUS
    <3>2. d \in ConnIds /\ d # NoConn /\ d # link[p][m] /\ q \in Nodes
      BY <2>2, <3>1, NotOthers DEF Members
    <3>3. cs[d] = conns[d]
      BY <2>1, <3>2 DEF Reconnected
    <3>4. conns[d].open # {}
      BY <3>1, <3>2 DEF IInv, LinksHeld
    <3>5. d # c
      BY <2>1, <3>2, <3>3, <3>4 DEF Reconnected
    <3> QED
      BY <2>1, <3>1, <3>2, <3>3, <3>5 DEF Reconnected
  <2> QED
    BY <2>2, <2>3, UntouchedCovers
<1>9. CASE \E m \in Peers(p) : GetId(p, m)
  <2>1. PICK m \in Peers(p) : GetId(p, m)
    BY <1>9
  <2>2. PICK c : c = main[p].conn
    OBVIOUS
  <2>3. IdRead(p, c, m)
    BY <2>1, <2>2, GetIdEffect
  <2>4. \A q \in Members(n) : conns'[link[n][q]] = conns[link[n][q]]
    BY <2>3, NotOthers DEF IdRead
  <2> QED
    BY <2>3, <2>4, UntouchedCovers DEF IdRead
<1>10. CASE Listen(p)
  <2>1. UNCHANGED <<conns, leaders, db, link>> /\ main'[n] = main[n]
    BY <1>1, <1>10 DEF Listen
  <2> QED
    BY <2>1, UntouchedCovers
<1>11. CASE \E c \in ConnIds : Accept(p, c)
  <2>1. PICK c \in ConnIds : Accept(p, c)
    BY <1>11
  <2>2. Accepted(p, c)
    BY <2>1, AcceptEffect
  <2>3. ASSUME NEW m \in Members(n), Live(link[n][m])'
        PROVE  /\ Live(link[n][m])
               /\ DealtBy(conns'[link[n][m]], db'[m]) = DealtBy(conns[link[n][m]], db[m])
    <3>1. PICK d : d = link[n][m]
      OBVIOUS
    <3>2. d \in ConnIds /\ d # NoConn /\ m \in Nodes
      BY <1>1, <3>1, NotOthers DEF Members
    <3>3. Live(d)' /\ Live(link[n][m])
      BY <2>2, <2>3, <3>1, <3>2 DEF Accepted, Live
    <3>4. CASE d # c
      BY <2>2, <3>1, <3>2, <3>3, <3>4 DEF Accepted
    <3>5. CASE d = c
      <4>1. PICK k \in Nat \ {0} :
              /\ IdComing(c) /\ conns[c].server = "backlog" /\ conns'[c].server = "reading"
              /\ conns'[c].req = Rest(conns[c].req, k) /\ db' = db
        BY <2>2, <3>1, <3>2, <3>5 DEF Accepted
      <4>2. conns[c].req = <<IdReq>>
        BY <3>1, <3>3, <3>5, <4>1 DEF IdComing, Live
      <4>3. Loads(conns[c].req) = {}
        <5>1. \A j \in 1..Len(<<IdReq>>) : <<IdReq>>[j] = IdReq
          OBVIOUS
        <5> QED
          BY <4>2, <5>1, MessagesTyped DEF Loads
      <4>4. conns[c].req \in Seq(Message)
        BY <1>1 DEF Connection
      <4>5. Loads(conns'[c].req) = {}
        BY <4>1, <4>3, <4>4, RequestsInRest
      <4> QED
        BY <3>1, <3>3, <3>5, <4>1, <4>3, <4>5 DEF DealtBy, HasInHand
    <3> QED
      BY <3>4, <3>5
  <2> QED
    BY <2>2, <2>3, OthersCover DEF Accepted
<1> QED
  BY <1>2, <1>3, <1>4, <1>5, <1>6, <1>7, <1>8, <1>9, <1>10, <1>11 DEF MainStep, Timer, Callback

-----------------------------------------------------------------------------
\* The steps of the leader's main thread.

\* A round begins with nobody heard of.
LEMMA BeginsCovers ==
  ASSUME IInv', NEW n \in Nodes, BeginLoad(n), main \in [Nodes -> MainThread]
  PROVE  Covering(n)'
<1>1. main'[n] = [Loop EXCEPT !.at = "count", !.count = 1, !.rest = Peers(n)]
  BY DEF BeginLoad
<1>2. /\ main'[n].at = "count" /\ main'[n].count = 1 /\ main'[n].rest = Peers(n)
  BY <1>1 DEF Loop
<1>3. Members(n)' \subseteq Peers(n)
  BY DEF IInv, LinksHeld, Members, Peers
<1>4. Heard(n)' = {}
  BY <1>2, <1>3 DEF Heard, Left
<1>5. Cardinality({}) = 0
  BY FS_EmptySet
<1> QED
  BY <1>2, <1>4, <1>5 DEF Covering

LEMMA MembersKept ==
  ASSUME IInv, DInv, DInv', NEW n \in Nodes, link'[n] = link[n], AllLive(n)',
         \A m \in Members(n) : Live(link[n][m])' =>
           /\ Live(link[n][m])
           /\ DealtBy(conns'[link[n][m]], db'[m]) = DealtBy(conns[link[n][m]], db[m])
  PROVE  /\ AllLive(n) /\ Members(n)' = Members(n)
         /\ \A m \in Members(n) : Dealt(n, m)' = Dealt(n, m)
<1>1. ASSUME NEW m \in Members(n)
      PROVE  Live(link[n][m]) /\ Dealt(n, m)' = Dealt(n, m)
  <2>1. PICK c : c = link[n][m]
    OBVIOUS
  <2>2. m \in Members(n)' /\ link'[n][m] = c
    BY <2>1 DEF Members
  <2>3. Live(c)'
    BY <2>2 DEF AllLive, Live
  <2>4. Live(link[n][m])'
    BY <2>1, <2>2, <2>3 DEF Live
  <2> QED
    BY <2>4, DealtKept
<1> QED
  BY <1>1 DEF AllLive, Members

\* Between the rounds.
LEMMA RestsCovers ==
  ASSUME IInv, DInv, DInv', NEW n \in Nodes, Covering(n), UNCHANGED <<leaders, db>>,
         link'[n] = link[n],
         main[n].at \in {"loop", "check"}, main'[n].at \in {"loop", "check"},
         \A m \in Members(n) : Live(link[n][m])' =>
           /\ Live(link[n][m])
           /\ DealtBy(conns'[link[n][m]], db'[m]) = DealtBy(conns[link[n][m]], db[m])
  PROVE  Covering(n)'
<1> SUFFICES ASSUME leaders' = {n}, AllLive(n)'
             PROVE  DealtOut(n, Members(n), Fragments \ db[n])'
  BY DEF Covering
<1>1. /\ AllLive(n) /\ Members(n)' = Members(n)
      /\ \A m \in Members(n) : Dealt(n, m)' = Dealt(n, m)
  BY MembersKept
<1>2. DealtOut(n, Members(n), Fragments \ db[n])
  BY <1>1 DEF Covering
<1> DEFINE T == Fragments \ db[n]
<1>3. T' = T
  OBVIOUS
<1> HIDE DEF T
<1>4. DealtOut(n, Members(n), T)
  BY <1>2 DEF T
<1>5. DealtOut(n, Members(n), T)'
  BY <1>1, <1>3, <1>4, DealtOutKept DEF DealtOut
<1> QED
  BY <1>5 DEF T

\* A ping changes nothing for the LOADs.
LEMMA AskedKeeps ==
  ASSUME IInv, DInv, NEW n \in Nodes, NEW m \in Members(n), NEW c, conns' = Sent(conns, c, Ping),
         c \in ConnIds, db' = db, link'[n] = link[n], Live(link[n][m])'
  PROVE  /\ Live(link[n][m])
         /\ DealtBy(conns'[link[n][m]], db'[m]) = DealtBy(conns[link[n][m]], db[m])
<1>1. PICK d : d = link[n][m]
  OBVIOUS
<1>2. /\ conns \in [ConnIds -> Connection] /\ d \in ConnIds /\ d # NoConn /\ m \in Nodes
      /\ conns[d] \in Connection /\ conns[d].req \in Seq(Message)
  BY <1>1 DEF Members, IInv, FieldsTyped, Connection
<1>3. CASE d # c
  <2>1. conns'[d] = conns[d]
    BY <1>2, <1>3, SentOnly, MessagesTyped
  <2> QED
    BY <1>1, <2>1 DEF Live
<1>4. CASE d = c
  <2>1. /\ conns'[d].open = conns[d].open /\ conns'[d].server = conns[d].server
        /\ conns'[d].input = conns[d].input
    BY <1>2, <1>4, SentOnly, MessagesTyped DEF ButReq
  <2>2. Live(d) /\ Live(link[n][m])
    BY <1>1, <2>1 DEF Live
  <2>3. OneLoad(conns[d])
    BY <1>1, <1>2, <2>2 DEF DInv
  <2>4. conns'[d].req = Append(conns[d].req, Ping)
    <3>1. conns'[d] = [conns[d] EXCEPT !.req = Append(@, Ping)]
      BY <1>2, <1>4, <2>2 DEF Sent, Live
    <3> QED
      BY <1>2, <3>1 DEF Connection
  <2>5. Loads(conns'[d].req) = Loads(conns[d].req)
    BY <1>2, <2>4, RequestsInAppend, MessagesTyped
  <2>6. Loads(conns[d].req) # {} => conns'[d].req[1] = conns[d].req[1]
    <3> SUFFICES ASSUME Loads(conns[d].req) # {} PROVE Append(conns[d].req, Ping)[1] = conns[d].req[1]
      BY <2>4
    <3>1. 1 \in 1..Len(conns[d].req)
      BY <2>3 DEF OneLoad, Loads
    <3> QED
      BY <1>2, <3>1, AppendProperties, MessagesTyped
  <2>7. DealtBy(conns'[d], db'[m]) = DealtBy(conns[d], db[m])
    BY <2>1, <2>5, <2>6 DEF DealtBy, HasInHand
  <2> QED
    BY <1>1, <2>2, <2>7
<1> QED
  BY <1>3, <1>4

\* An answer that is read changes nothing for the LOADs either.
LEMMA ReadKeeps ==
  ASSUME IInv, NEW n \in Nodes, NEW m \in Members(n), NEW k, NEW c, NEW q,
         AnswerRead(n, k, c, q), ~Deal(n, k) \/ m # q, Live(link[n][m])'
  PROVE  /\ Live(link[n][m])
         /\ DealtBy(conns'[link[n][m]], db'[m]) = DealtBy(conns[link[n][m]], db[m])
<1>1. PICK d : d = link[n][m]
  OBVIOUS
<1>2. d \in ConnIds /\ d # NoConn /\ m \in Nodes
  BY <1>1 DEF Members, IInv, FieldsTyped
<1>3. CASE d # c
  BY <1>1, <1>2, <1>3 DEF AnswerRead, Live
<1>4. CASE d = c
  <2>1. /\ conns'[d].open = conns[d].open /\ conns'[d].server = conns[d].server
        /\ conns'[d].input = conns[d].input /\ db' = db /\ link' = link
    BY <1>4 DEF AnswerRead
  <2>2. Live(d) /\ Live(link[n][m])
    BY <1>1, <2>1 DEF Live
  <2>3. m = q
    <3>1. q \in Nodes /\ link[n][q] = link[n][m] /\ link[n][m] # NoConn
      BY <1>1, <1>2, <1>4 DEF AnswerRead, Peers
    <3> QED
      BY <1>2, <3>1, LinkOnce
  <2>4. conns'[d].req = conns[d].req
    BY <1>4, <2>2, <2>3 DEF AnswerRead
  <2>5. DealtBy(conns'[d], db'[m]) = DealtBy(conns[d], db[m])
    BY <2>1, <2>4 DEF DealtBy, HasInHand
  <2> QED
    BY <1>1, <2>2, <2>5
<1> QED
  BY <1>3, <1>4

\* One more peer was heard of.
LEMMA HeardOfOne ==
  ASSUME IInv, NEW n \in Nodes, main[n].at \in {"count", "share"}, main[n].conn # NoConn,
         main'[n].conn = NoConn, main'[n].rest = main[n].rest, link'[n] = link[n],
         NEW m, m = conns[main[n].conn].to
  PROVE  /\ Heard(n)' = Heard(n) \cup {m} /\ m \notin Heard(n) /\ m \in Members(n)
         /\ Cardinality(Heard(n)) \in Nat
         /\ Cardinality(Heard(n) \cup {m}) = Cardinality(Heard(n)) + 1
<1>1. m \in Nodes /\ link[n][m] = main[n].conn /\ m \notin main[n].rest
  BY DEF IInv, MainsInPlace, MainInPlace, Waiting
<1>2. Left(n) = main[n].rest \cup {m} /\ Left(n)' = main[n].rest
  BY DEF Left
<1>3. Members(n)' = Members(n) /\ m \in Members(n)
  BY <1>1 DEF Members
<1>4. Heard(n)' = Heard(n) \cup {m} /\ m \notin Heard(n)
  BY <1>1, <1>2, <1>3 DEF Heard
<1>5. IsFiniteSet(Heard(n)) /\ Cardinality(Heard(n)) \in Nat
  <2>1. Heard(n) \in SUBSET Nodes
    BY DEF Heard, Members
  <2> QED
    BY <2>1, NodesFinite
<1> QED
  BY <1>3, <1>4, <1>5, FS_AddElement

LEMMA AskNextCovers ==
  ASSUME IInv, DInv, DInv', NEW n \in Nodes, Covering(n), AskNext(n)
  PROVE  Covering(n)'
<1> DEFINE rest == Linked(n, main[n].rest)
           q == NextOf(rest)
           c == link[n][q]
           t == [main[n] EXCEPT !.conn = c, !.rest = rest \ {q}]
<1>1. /\ main[n].at \in {"count", "share"} /\ main[n].conn = NoConn /\ rest # {}
      /\ conns' = Sent(conns, c, Ping) /\ main' = [main EXCEPT ![n] = t]
      /\ UNCHANGED <<leaders, link, db>>
  BY DEF AskNext, procVars
<1>2. q \in rest /\ q \in main[n].rest /\ c # NoConn
  BY <1>1, NextInRest DEF NextOf
<1>3. main[n] \in MainThread /\ main \in [Nodes -> MainThread] /\ q \in Nodes
  BY <1>2 DEF IInv, FieldsTyped, MainThread
<1>4. /\ t.at = main[n].at /\ t.count = main[n].count /\ t.slot = main[n].slot
      /\ t.conn = c /\ t.rest = rest \ {q}
  BY <1>3 DEF MainThread
<1> HIDE DEF t
<1>5. main'[n] = t
  BY <1>1, <1>3
<1>6. c \in ConnIds
  BY <1>2, <1>3 DEF IInv, FieldsTyped
<1>7. conns'[c].to = q
  <2>1. conns[c].to = q
    BY <1>2, <1>3 DEF IInv, LinksHeld
  <2>2. conns \in [ConnIds -> Connection]
    BY DEF IInv, FieldsTyped
  <2>3. conns'[c].to = conns[c].to
    BY <1>1, <1>6, <2>2, SentOnly, MessagesTyped DEF ButReq
  <2> QED
    BY <2>1, <2>3
<1>8. Heard(n)' = Heard(n)
  <2>1. Left(n) = main[n].rest
    BY <1>1 DEF Left
  <2>2. Left(n)' = rest
    BY <1>2, <1>4, <1>5, <1>7 DEF Left
  <2>3. Members(n)' = Members(n)
    BY <1>1 DEF Members
  <2>4. Members(n) \ main[n].rest = Members(n) \ rest
    BY DEF Members, Linked
  <2> QED
    BY <2>1, <2>2, <2>3, <2>4 DEF Heard
<1> HIDE DEF q, c
<1>9. \A m \in Members(n) : Live(link[n][m])' =>
           /\ Live(link[n][m])
           /\ DealtBy(conns'[link[n][m]], db'[m]) = DealtBy(conns[link[n][m]], db[m])
  BY <1>1, <1>6, AskedKeeps
<1> SUFFICES ASSUME leaders' = {n}, AllLive(n)' PROVE Covering(n)'
  BY DEF Covering
<1>10. /\ AllLive(n) /\ Members(n)' = Members(n)
       /\ \A m \in Members(n) : Dealt(n, m)' = Dealt(n, m)
  BY <1>1, <1>9, MembersKept
<1>11. leaders = {n} /\ Heard(n) \subseteq Members(n)
  BY <1>1 DEF Heard
<1> DEFINE T == {f \in Fragments : f % main[n].count \in 1..(main[n].slot - 1)}
<1>12. main[n].at = "share" => DealtOut(n, Heard(n), T)
  BY <1>10, <1>11 DEF Covering
<1>13. T' = T
  BY <1>4, <1>5
<1> HIDE DEF T
<1>14. main[n].at = "share" => DealtOut(n, Heard(n), T)'
  <2> SUFFICES ASSUME main[n].at = "share" PROVE DealtOut(n, Heard(n), T)'
    OBVIOUS
  <2>1. \A m \in Heard(n) : Dealt(n, m)' = Dealt(n, m)
    BY <1>10, <1>11
  <2> QED
    BY <1>8, <1>12, <1>13, <2>1, DealtOutKept DEF DealtOut
<1>15. main[n].at = "share" =>
         DealtOut(n, Heard(n), {f \in Fragments : f % main[n].count \in 1..(main[n].slot - 1)})'
  BY <1>14 DEF T
<1>16. /\ main[n].at = "count" => main[n].count = 1 + Cardinality(Heard(n))
       /\ main[n].at = "share" =>
            /\ main[n].count = 1 + Cardinality(Members(n))
            /\ main[n].slot = 1 + Cardinality(Heard(n))
  BY <1>10, <1>11 DEF Covering
<1> QED
  BY <1>1, <1>4, <1>5, <1>8, <1>10, <1>15, <1>16 DEF Covering

LEMMA CountCovers ==
  ASSUME IInv, PInv, LInv, DInv, DInv', NEW n \in Nodes, Covering(n),
         NEW k \in 0..MaxRead, Count(n, k)
  PROVE  Covering(n)'
<1> SUFFICES ASSUME leaders' = {n}, AllLive(n)', NEW c, c = main[n].conn, NEW q, q = conns[c].to
             PROVE  Covering(n)'
  BY DEF Covering
<1> DEFINE t == [main[n] EXCEPT !.conn = NoConn, !.count = @ + 1]
<1>1. main[n].at = "count" /\ c # NoConn /\ main' = [main EXCEPT ![n] = t] /\ ~Deal(n, k)
  BY DEF Count, Deal
<1>2. main[n] \in MainThread /\ main \in [Nodes -> MainThread]
  BY DEF IInv, FieldsTyped
<1>3. /\ t.at = "count" /\ t.count = main[n].count + 1 /\ t.conn = NoConn /\ t.rest = main[n].rest
  BY <1>1, <1>2 DEF MainThread
<1> HIDE DEF t
<1>4. main'[n] = t
  BY <1>1, <1>2
<1>5. AnswerRead(n, k, c, q)
  BY AnswerEffect
<1>6. \A m \in Members(n) : Live(link[n][m])' =>
        /\ Live(link[n][m])
        /\ DealtBy(conns'[link[n][m]], db'[m]) = DealtBy(conns[link[n][m]], db[m])
  BY <1>1, <1>5, ReadKeeps
<1>7. leaders = {n} /\ link'[n] = link[n]
  BY <1>5 DEF AnswerRead
<1>8. AllLive(n)
  BY <1>6, <1>7, MembersKept
<1>9. main[n].count = 1 + Cardinality(Heard(n))
  BY <1>1, <1>7, <1>8 DEF Covering
<1>10. Cardinality(Heard(n)') = Cardinality(Heard(n)) + 1 /\ Cardinality(Heard(n)) \in Nat
  BY <1>1, <1>3, <1>4, <1>7, HeardOfOne
<1>11. main'[n].count = 1 + Cardinality(Heard(n)')
  BY <1>3, <1>4, <1>9, <1>10
<1> QED
  BY <1>3, <1>4, <1>11 DEF Covering

LEMMA PassOverCovers ==
  ASSUME IInv, PInv, LInv, DInv, DInv', NEW n \in Nodes, NEW k \in 0..MaxRead, PassOver(n, k)
  PROVE  Covering(n)'
<1> SUFFICES ASSUME AllLive(n)', NEW c, c = main[n].conn, NEW q, q = conns[c].to PROVE FALSE
  BY DEF Covering
<1>1. main[n].at \in {"count", "share"} /\ c # NoConn /\ PingFails(c, k)
  BY DEF PassOver
<1>2. Dead(c)
  BY <1>1, FailsAtEnd
<1>3. AnswerRead(n, k, c, q)
  BY AnswerEffect
<1>4. q \in Members(n)' /\ link'[n][q] = c
  BY <1>3 DEF AnswerRead, Members, Peers
<1>5. "to" \in conns'[c].open
  BY <1>4 DEF AllLive, Live
<1> QED
  BY <1>2, <1>3, <1>5 DEF AnswerRead, Dead

LEMMA StartDealingCovers ==
  ASSUME IInv, IInv', NEW n \in Nodes, Covering(n), StartDealing(n)
  PROVE  Covering(n)'
<1> SUFFICES ASSUME leaders' = {n}, AllLive(n)' PROVE Covering(n)'
  BY DEF Covering
<1> DEFINE t == [main[n] EXCEPT !.at = "share", !.slot = FirstPeerSlot, !.rest = Peers(n)]
<1>1. /\ main[n].at = "count" /\ main[n].conn = NoConn /\ Linked(n, main[n].rest) = {}
      /\ main' = [main EXCEPT ![n] = t] /\ UNCHANGED <<conns, leaders, link, db>>
  BY DEF StartDealing, RoundOver, procVars
<1>2. main[n] \in MainThread /\ main \in [Nodes -> MainThread]
  BY DEF IInv, FieldsTyped
<1>3. /\ t.at = "share" /\ t.count = main[n].count /\ t.conn = NoConn /\ t.rest = Peers(n)
      /\ t.slot = 1
  BY <1>1, <1>2 DEF MainThread, FirstPeerSlot
<1> HIDE DEF t
<1>4. main'[n] = t
  BY <1>1, <1>2
<1>5. leaders = {n} /\ AllLive(n) /\ Members(n)' = Members(n)
  BY <1>1 DEF AllLive, Members, Live
<1>6. Heard(n) = Members(n)
  BY <1>1, <1>2 DEF Heard, Left, Linked, Members, MainThread
<1>7. main[n].count = 1 + Cardinality(Members(n))
  BY <1>1, <1>5, <1>6 DEF Covering
<1>8. Heard(n)' = {}
  BY <1>3, <1>4, <1>5, MembersArePeers DEF Heard, Left
<1>9. Cardinality({}) = 0
  BY FS_EmptySet
<1>10. DealtOut(n, Heard(n), {f \in Fragments : f % main[n].count \in 1..(main[n].slot - 1)})'
  <2>1. 1..(main'[n].slot - 1) = {}
    BY <1>3, <1>4
  <2> QED
    BY <1>8, <2>1 DEF DealtOut
<1> QED
  BY <1>3, <1>4, <1>5, <1>7, <1>8, <1>9, <1>10 DEF Covering

\* The fragments of one slot more.
LEMMA NextShare ==
  ASSUME NEW count \in Nat \ {0}, NEW slot \in Nat \ {0}
  PROVE  LET Upto(i) == {f \in Fragments : f % count \in 1..i} IN
         /\ Upto(slot) = Upto(slot - 1) \cup Share(slot, count)
         /\ Upto(slot - 1) \cap Share(slot, count) = {}
<1>1. \A f \in Fragments : f % count \in Nat
  BY FragmentAssumption DEF Fragments
<1> QED
  BY <1>1 DEF Share

\* The fragments in D are dealt to q too.
LEMMA DealtOneMore ==
  ASSUME NEW n, NEW S, NEW T, NEW q, NEW D, DealtOut(n, S, T), q \notin S, T \cap D = {},
         \A m \in S : Dealt(n, m)' = Dealt(n, m), Dealt(n, q)' = D
  PROVE  /\ \A m \in S \cup {q} : Dealt(n, m)' \subseteq T \cup D
         /\ \A f \in T \cup D : \E m \in S \cup {q} : f \in Dealt(n, m)'
         /\ \A l, m \in S \cup {q} : l # m => Dealt(n, l)' \cap Dealt(n, m)' = {}
<1>1. /\ \A m \in S : Dealt(n, m)' \subseteq T
      /\ \A f \in T : \E m \in S : f \in Dealt(n, m)'
      /\ \A l, m \in S : l # m => Dealt(n, l)' \cap Dealt(n, m)' = {}
  BY DealtOutKept
<1>2. \A m \in S : Dealt(n, m)' \cap D = {}
  BY <1>1
<1>3. ASSUME NEW l \in S \cup {q}, NEW m \in S \cup {q}, l # m
      PROVE  Dealt(n, l)' \cap Dealt(n, m)' = {}
  <2>1. CASE l = q
    <3>1. m \in S
      BY <1>3, <2>1
    <3> QED
      BY <1>2, <2>1, <3>1
  <2>2. CASE m = q
    <3>1. l \in S
      BY <1>3, <2>2
    <3> QED
      BY <1>2, <2>2, <3>1
  <2>3. CASE l # q /\ m # q
    BY <1>1, <1>3, <2>3
  <2> QED
    BY <2>1, <2>2, <2>3
<1>4. \A m \in S \cup {q} : Dealt(n, m)' \subseteq T \cup D
  BY <1>1
<1>5. \A f \in T \cup D : \E m \in S \cup {q} : f \in Dealt(n, m)'
  BY <1>1
<1> QED
  BY <1>3, <1>4, <1>5

\* A peer that answers is dealt the next share.
LEMMA DealCovers ==
  ASSUME IInv, IInv', PInv, LInv, DInv, DInv', NEW n \in Nodes, Covering(n),
         NEW k \in 0..MaxRead, Deal(n, k)
  PROVE  Covering(n)'
<1> SUFFICES ASSUME leaders' = {n}, AllLive(n)', NEW c, c = main[n].conn, NEW q, q = conns[c].to,
                    NEW slot, slot = main[n].slot, NEW count, count = main[n].count
             PROVE  Covering(n)'
  BY DEF Covering
<1> DEFINE t == [main[n] EXCEPT !.conn = NoConn, !.slot = @ + 1]
           D == Share(slot, count)
           Upto(i) == {f \in Fragments : f % count \in 1..i}
<1>1. main[n].at = "share" /\ c # NoConn /\ main' = [main EXCEPT ![n] = t]
  BY DEF Deal
<1>2. main[n] \in MainThread /\ main \in [Nodes -> MainThread] /\ slot \in Nat /\ count \in Nat
  BY DEF IInv, FieldsTyped, MainThread
<1>3. /\ t.at = "share" /\ t.count = count /\ t.slot = slot + 1 /\ t.conn = NoConn
      /\ t.rest = main[n].rest
  BY <1>1, <1>2 DEF MainThread
<1> HIDE DEF t
<1>4. main'[n] = t
  BY <1>1, <1>2
<1>5. AnswerRead(n, k, c, q)
  BY AnswerEffect
<1>6. leaders = {n} /\ link' = link /\ q \in Members(n) /\ link[n][q] = c
  BY <1>5 DEF AnswerRead, Members, Peers
\* The others keep what they were dealt.
<1>7. ASSUME NEW m \in Members(n)
      PROVE  /\ Live(link[n][m]) /\ Live(link[n][m])'
             /\ m # q => Dealt(n, m)' = Dealt(n, m)
  <2>1. PICK d : d = link[n][m]
    OBVIOUS
  <2>2. d \in ConnIds /\ link'[n][m] = d /\ m \in Members(n)'
    BY <1>6, <2>1 DEF Members, IInv, FieldsTyped
  <2>3. Live(d)' /\ Live(link[n][m])'
    BY <2>1, <2>2 DEF AllLive, Live
  <2>4. Live(link[n][m])
    <3>1. conns'[d].open = conns[d].open
      BY <1>5, <2>2 DEF AnswerRead
    <3> QED
      BY <2>1, <2>3, <3>1 DEF Live
  <2>5. m # q => Dealt(n, m)' = Dealt(n, m)
    <3> SUFFICES ASSUME m # q PROVE Dealt(n, m)' = Dealt(n, m)
      OBVIOUS
    <3>1. DealtBy(conns'[link[n][m]], db'[m]) = DealtBy(conns[link[n][m]], db[m])
      BY <1>5, <2>3, ReadKeeps
    <3>2. link'[n] = link[n]
      BY <1>6
    <3> QED
      BY <2>3, <2>4, <3>1, <3>2, DealtKept
  <2> QED
    BY <2>3, <2>4, <2>5
<1>8. AllLive(n)
  BY <1>7 DEF AllLive
<1>9. Dealt(n, q)' = D
  <2>1. Live(c) /\ Live(c)'
    <3>1. PICK d : d = link[n][q]
      OBVIOUS
    <3>2. Live(link[n][q]) /\ Live(link[n][q])'
      BY <1>6, <1>7
    <3>3. d = c
      BY <1>6, <3>1
    <3>4. Live(c)
      BY <1>6, <3>2
    <3> QED
      BY <1>5, <3>4 DEF AnswerRead, Live
  <2>2. conns[c].server = "reading" /\ conns'[c].server = "reading" /\ conns'[c].req = <<Msg("LOAD", D)>>
    BY <1>5, <2>1 DEF AnswerRead
  <2>3. ~HasInHand(conns'[c])
    BY <2>2 DEF HasInHand
  <2>4. Loads(conns'[c].req) # {} /\ conns'[c].req[1].body = D
    <3>1. Msg("LOAD", D).type = "LOAD" /\ Msg("LOAD", D).body = D
      BY DEF Msg
    <3> HIDE DEF D
    <3>2. <<Msg("LOAD", D)>>[1] = Msg("LOAD", D) /\ 1 \in 1..Len(<<Msg("LOAD", D)>>)
      OBVIOUS
    <3>3. 1 \in Loads(<<Msg("LOAD", D)>>)
      BY <3>1, <3>2 DEF Loads
    <3> QED
      BY <2>2, <3>1, <3>2, <3>3
  <2>5. DealtBy(conns'[c], db'[q]) = D
    BY <2>3, <2>4 DEF DealtBy
  <2>6. q \in Nodes /\ link'[n][q] = c
    BY <1>6 DEF Members
  <2>7. Dealt(n, q)' = DealtBy(conns'[c], db'[q])
    BY <1>1, <2>1, <2>6 DEF DInv, Live
  <2> QED
    BY <2>5, <2>7
<1>10. /\ count = 1 + Cardinality(Members(n)) /\ slot = 1 + Cardinality(Heard(n))
       /\ DealtOut(n, Heard(n), Upto(slot - 1))
  BY <1>1, <1>6, <1>8 DEF Covering
<1>11. /\ Heard(n)' = Heard(n) \cup {q} /\ q \notin Heard(n) /\ Cardinality(Heard(n)) \in Nat
       /\ Cardinality(Heard(n) \cup {q}) = Cardinality(Heard(n)) + 1
  <2>1. main'[n].conn = NoConn /\ main'[n].rest = main[n].rest /\ link'[n] = link[n]
    BY <1>3, <1>4, <1>6
  <2> QED
    BY <1>1, <2>1, HeardOfOne
<1>12. Cardinality(Members(n)) \in Nat /\ Members(n)' = Members(n)
  <2>1. Members(n) \in SUBSET Nodes
    BY DEF Members
  <2> QED
    BY <1>6, <2>1, NodesFinite DEF Members
<1>13. slot \in Nat \ {0} /\ count \in Nat \ {0}
  BY <1>10, <1>11, <1>12
<1>14. Upto(slot) = Upto(slot - 1) \cup D /\ Upto(slot - 1) \cap D = {}
  BY <1>13, NextShare
<1>15. main'[n].slot - 1 = slot /\ main'[n].count = count /\ main'[n].slot = slot + 1
  BY <1>2, <1>3, <1>4
<1>16. {f \in Fragments : f % main[n].count \in 1..(main[n].slot - 1)}' = Upto(slot)
  BY <1>15
<1> HIDE DEF Upto, D
<1>17. \A m \in Heard(n) : Dealt(n, m)' = Dealt(n, m)
  BY <1>7, <1>11 DEF Heard
<1>18. PICK S, T : S = Heard(n) /\ T = Upto(slot - 1)
  OBVIOUS
<1>19. /\ \A m \in S \cup {q} : Dealt(n, m)' \subseteq T \cup D
       /\ \A f \in T \cup D : \E m \in S \cup {q} : f \in Dealt(n, m)'
       /\ \A l, m \in S \cup {q} : l # m => Dealt(n, l)' \cap Dealt(n, m)' = {}
  BY <1>9, <1>10, <1>11, <1>14, <1>17, <1>18, DealtOneMore
<1>20. DealtOut(n, Heard(n), {f \in Fragments : f % main[n].count \in 1..(main[n].slot - 1)})'
  <2>1. Heard(n)' = S \cup {q} /\ Upto(slot) = T \cup D
    BY <1>11, <1>14, <1>18
  <2> QED
    BY <1>16, <1>19, <2>1 DEF DealtOut
<1>21. main'[n].slot = 1 + Cardinality(Heard(n)') /\ main'[n].count = 1 + Cardinality(Members(n)')
  BY <1>10, <1>11, <1>12, <1>15
<1> QED
  BY <1>3, <1>4, <1>20, <1>21 DEF Covering

\* What is not the leader's share is in those of the slots from 1 on.
LEMMA OthersShares ==
  ASSUME NEW count \in Nat \ {0}
  PROVE  Fragments \ Share(0, count) = {f \in Fragments : f % count \in 1..(count - 1)}
<1>1. \A f \in Fragments : f \in Nat
  BY FragmentAssumption DEF Fragments
<1>2. \A f \in Fragments : f % count \in 0..(count - 1)
  BY <1>1
<1>3. \A f \in Fragments : ~(f % count = 0) <=> f % count \in 1..(count - 1)
  BY <1>2
<1> QED
  BY <1>3 DEF Share

\* After its peers, the leader loads its own share.
LEMMA LoadLocalCovers ==
  ASSUME IInv, IInv', DInv, DInv', NEW n \in Nodes, Covering(n), LoadLocal(n)
  PROVE  Covering(n)'
<1> SUFFICES ASSUME leaders' = {n}, AllLive(n)', NEW count, count = main[n].count
             PROVE  Covering(n)'
  BY DEF Covering
<1>1. /\ main[n].at = "share" /\ main[n].conn = NoConn /\ Linked(n, main[n].rest) = {}
      /\ main' = [main EXCEPT ![n] = Loop] /\ UNCHANGED <<conns, leaders, link>>
      /\ db' = [db EXCEPT ![n] = Share(0, count)]
  BY DEF LoadLocal, RoundOver, procVars
<1>2. /\ main[n] \in MainThread /\ main \in [Nodes -> MainThread]
      /\ db \in [Nodes -> SUBSET Fragments]
  BY DEF IInv, FieldsTyped
<1>3. main'[n].at = "loop"
  BY <1>1, <1>2, LoopTyped
<1>4. db'[n] = Share(0, count) /\ \A m \in Nodes : m # n => db'[m] = db[m]
  BY <1>1, <1>2
<1>5. ASSUME NEW m \in Members(n), Live(link[n][m])'
      PROVE  /\ Live(link[n][m])
             /\ DealtBy(conns'[link[n][m]], db'[m]) = DealtBy(conns[link[n][m]], db[m])
  <2>1. db'[m] = db[m]
    BY <1>4, MembersArePeers DEF Peers
  <2> QED
    BY <1>1, <1>5, <2>1 DEF Live
<1>6. /\ AllLive(n) /\ Members(n)' = Members(n)
      /\ \A m \in Members(n) : Dealt(n, m)' = Dealt(n, m)
  BY <1>1, <1>5, MembersKept
<1>7. Heard(n) = Members(n)
  BY <1>1, <1>2 DEF Heard, Left, Linked, Members, MainThread
<1> DEFINE T == {f \in Fragments : f % count \in 1..(count - 1)}
<1>8. /\ count = 1 + Cardinality(Members(n)) /\ main[n].slot = 1 + Cardinality(Members(n))
      /\ DealtOut(n, Members(n), {f \in Fragments : f % count \in 1..(main[n].slot - 1)})
  BY <1>1, <1>6, <1>7 DEF Covering
<1>9. Cardinality(Members(n)) \in Nat
  <2>1. Members(n) \in SUBSET Nodes
    BY DEF Members
  <2> QED
    BY <2>1, NodesFinite
<1>10. count \in Nat \ {0} /\ main[n].slot = count
  BY <1>8, <1>9
<1>11. Fragments \ db'[n] = T
  BY <1>4, <1>10, OthersShares
<1>12. DealtOut(n, Members(n), T)
  BY <1>8, <1>10
<1> HIDE DEF T
<1>13. PICK S, U : S = Members(n) /\ U = T
  OBVIOUS
<1>14. /\ \A m \in S : Dealt(n, m)' \subseteq U
       /\ \A f \in U : \E m \in S : f \in Dealt(n, m)'
       /\ \A l, m \in S : l # m => Dealt(n, l)' \cap Dealt(n, m)' = {}
  BY <1>6, <1>12, <1>13, DealtOutKept
<1>15. DealtOut(n, Members(n), Fragments \ db[n])'
  BY <1>6, <1>11, <1>13, <1>14 DEF DealtOut
<1> QED
  BY <1>3, <1>15 DEF Covering

LEMMA ConnectsCovers ==
  ASSUME IInv, IInv', DInv, DInv', NEW n \in Nodes, Covering(n),
         NEW m, NEW cs, NEW c, Reconnected(n, m, cs, c)
  PROVE  Covering(n)'
<1> SUFFICES ASSUME leaders' = {n} PROVE Covering(n)'
  BY DEF Covering
<1>1. leaders = {n} /\ UNCHANGED <<leaders, db>> /\ main \in [Nodes -> MainThread]
  BY DEF Reconnected, IInv, FieldsTyped
<1>2. CASE c # NoConn
  <2>1. main'[n].at = "id"
    BY <1>2 DEF Reconnected
  <2> QED
    BY <2>1 DEF Covering
<1>3. CASE BeginLoad(n)
  BY <1>1, <1>3, BeginsCovers
<1>4. CASE main[n].at = "loop" /\ main'[n].at = "loop" /\ UNCHANGED <<conns, link>>
  <2>1. \A q \in Members(n) : Live(link[n][q])' =>
          /\ Live(link[n][q])
          /\ DealtBy(conns'[link[n][q]], db'[q]) = DealtBy(conns[link[n][q]], db[q])
    BY <1>1, <1>4 DEF Live
  <2> QED
    BY <1>1, <1>4, <2>1, RestsCovers
<1> QED
  BY <1>1, <1>2, <1>3, <1>4 DEF Reconnected

\* The other steps of the leader's main thread.
LEMMA OwnStepCovers ==
  ASSUME LeadersLive, IInv, IInv', PInv, LInv, DInv, DInv', NEW n \in Nodes, Covering(n),
         (\E now \in 1..MaxTime : Start(n, now)) \/ Crash(n) \/ MainStep(n)
  PROVE  Covering(n)'
<1> SUFFICES ASSUME leaders' = {n} PROVE Covering(n)'
  BY DEF Covering
<1>1. /\ MainInPlace(n) /\ main \in [Nodes -> MainThread] /\ conns \in [ConnIds -> Connection]
      /\ leaders \subseteq {p \in Nodes : phase[p] = "up"}
  BY DEF IInv, FieldsTyped, MainsInPlace
<1>2. CASE \E now \in 1..MaxTime : Start(n, now)
  <2>1. main' = [main EXCEPT ![n] = [Loop EXCEPT !.at = "boot", !.rest = Peers(n)]]
    BY <1>2 DEF Start
  <2>2. [Loop EXCEPT !.at = "boot", !.rest = Peers(n)].at = "boot"
    BY DEF Loop
  <2>3. main'[n].at = "boot"
    BY <1>1, <2>1, <2>2
  <2> QED
    BY <2>3 DEF Covering
<1>3. ~Crash(n) /\ ~Listen(n)
  <2>1. ~Crash(n)
    BY DEF Crash, Down
  <2>2. ~Listen(n)
    BY <1>1 DEF Listen, MainInPlace
  <2> QED
    BY <2>1, <2>2
<1>4. CASE Seniority(n)
  BY <1>1, <1>4, BeginsCovers DEF Seniority
<1>5. CASE \E m \in Peers(n) : TimerPing(n, m)
  <2>1. PICK m \in Peers(n) : TimerPing(n, m)
    BY <1>5
  <2>2. PICK c : c = link[n][m]
    OBVIOUS
  <2>3. /\ main[n].at = "loop" /\ c # NoConn /\ conns' = Sent(conns, c, Ping)
        /\ main' = [main EXCEPT ![n] = Awaiting(n, c)]
        /\ UNCHANGED <<leaders, db, link>>
    BY <2>1, <2>2 DEF TimerPing, Idle, procVars
  <2>4. c \in ConnIds
    BY <2>2, <2>3 DEF Peers, IInv, FieldsTyped
  <2>5. main'[n].at = "check"
    <3>1. Awaiting(n, c).at = "check"
      BY DEF Awaiting, Loop
    <3> QED
      BY <1>1, <2>3, <3>1
  <2>6. \A q \in Members(n) : Live(link[n][q])' =>
          /\ Live(link[n][q])
          /\ DealtBy(conns'[link[n][q]], db'[q]) = DealtBy(conns[link[n][q]], db[q])
    BY <2>3, <2>4, AskedKeeps
  <2> QED
    BY <2>3, <2>5, <2>6, RestsCovers
<1>6. CASE \E k \in 0..MaxRead : Valid(n, k)
  <2>1. PICK k \in 0..MaxRead : Valid(n, k)
    BY <1>6
  <2>2. PICK c, m : c = main[n].conn /\ m = conns[c].to
    OBVIOUS
  <2>3. AnswerRead(n, k, c, m) /\ main[n].at = "check" /\ ~Deal(n, k) /\ main'[n].at = "loop"
    BY <1>1, <2>1, <2>2, AnswerEffect, LoopTyped DEF Valid, Deal
  <2>4. \A q \in Members(n) : Live(link[n][q])' =>
          /\ Live(link[n][q])
          /\ DealtBy(conns'[link[n][q]], db'[q]) = DealtBy(conns[link[n][q]], db[q])
    BY <2>3, ReadKeeps
  <2>5. UNCHANGED <<leaders, db>> /\ link'[n] = link[n]
    BY <2>3 DEF AnswerRead
  <2> QED
    BY <2>3, <2>4, <2>5, RestsCovers
<1>7. CASE \/ BootConnect(n) \/ \E m \in Peers(n) : TimerConnect(n, m)
           \/ \E k \in 0..MaxRead : Invalid(n, k)
  BY <1>7, ConnectingEffect, ConnectsCovers
<1>8. CASE \E m \in Peers(n) : GetId(n, m)
  <2>1. PICK m \in Peers(n) : GetId(n, m)
    BY <1>8
  <2>2. LoadIfLeader(n, m) /\ leaders' = leaders
    BY <2>1 DEF GetId, procVars
  <2>3. BeginLoad(n)
    BY <2>2 DEF LoadIfLeader
  <2> QED
    BY <1>1, <2>3, BeginsCovers
<1>9. CASE \E c \in ConnIds : Accept(n, c)
  <2>1. PICK c \in ConnIds : Accept(n, c)
    BY <1>9
  <2>2. Accepted(n, c)
    BY <2>1, AcceptEffect
  <2>3. ASSUME NEW m \in Members(n) PROVE conns'[link[n][m]] = conns[link[n][m]]
    <3>1. m \in Nodes /\ link[n][m] # NoConn
      BY DEF Members
    <3>2. link[n][m] \in ConnIds /\ conns[link[n][m]].to # n
      BY <3>1 DEF IInv, FieldsTyped, LinksHeld
    <3> QED
      BY <2>2, <3>2 DEF Accepted
  <2> QED
    BY <2>2, <2>3, UntouchedCovers DEF Accepted
<1>10. CASE \E k \in 0..MaxRead : Count(n, k) \/ Deal(n, k) \/ PassOver(n, k)
  BY <1>10, CountCovers, DealCovers, PassOverCovers
<1>11. CASE AskNext(n) \/ StartDealing(n) \/ LoadLocal(n)
  BY <1>11, AskNextCovers, StartDealingCovers, LoadLocalCovers
<1> QED
  BY <1>2, <1>3, <1>4, <1>5, <1>6, <1>7, <1>8, <1>9, <1>10, <1>11 DEF MainStep, Timer, Callback

LEMMA CInvPreserved ==
  LeadersLive /\ IInv /\ IInv' /\ PInv /\ LInv /\ LInv' /\ CInv /\ [Next]_vars => CInv'
<1> SUFFICES ASSUME LeadersLive, IInv, IInv', PInv, LInv, LInv', CInv, [Next]_vars, NEW n \in Nodes
             PROVE  Covering(n)'
  BY DEF CInv
<1>1. DInv /\ Covering(n)
  BY OneLoadEach DEF CInv
<1>2. DInv'
  BY OneLoadEach, PTL
<1>3. ASSUME NEW p \in Nodes, (\E now \in 1..MaxTime : Start(p, now)) \/ Crash(p) \/ MainStep(p)
      PROVE  Covering(n)'
  BY <1>1, <1>2, <1>3, OwnStepCovers, OthersStepCovers
<1>4. ASSUME NEW c \in ConnIds, ServerStep(c) PROVE Covering(n)'
  BY <1>1, <1>2, <1>4, ServedCovers
<1>5. ASSUME UNCHANGED vars PROVE Covering(n)'
  <2>1. UNCHANGED <<conns, leaders, db, main, link>>
    BY <1>5 DEF vars, procVars
  <2> QED
    BY <1>1, <1>2, <2>1, UntouchedCovers
<1> QED
  BY <1>3, <1>4, <1>5 DEF Next

LEMMA InitOrdered == Init => LInv /\ CInv
<1> SUFFICES ASSUME Init PROVE LInv /\ CInv
  OBVIOUS
<1>1. ASSUME NEW c \in ConnIds PROVE FromLeader(c)
  <2>1. conns[c] = Closed /\ Closed.input.type = "NONE" /\ Closed.req = <<>>
    BY DEF Init, Closed, NoMsg, Msg
  <2> QED
    BY <2>1, NoRequestsIn DEF FromLeader, Carries
<1>2. AllOrderly
  BY DEF Init, AllOrderly
<1>3. CInv
  BY DEF Init, CInv, Covering
<1> QED
  BY <1>1, <1>2, <1>3 DEF LInv, LoadsFromLeaders

LEMMA CInvHolds ==
  ASSUME LeadersLive
  PROVE  Spec => [](IInv /\ LInv /\ CInv)
<1>1. Init => IInv /\ PInv /\ LInv /\ CInv
  BY InitHolds, InitOrdered DEF Init, PInv
<1>2. IInv /\ PInv /\ [Next]_vars => IInv' /\ PInv'
  BY NextPreserves, PInvPreserved
<1>3. IInv /\ PInv /\ LInv /\ [Next]_vars => LInv'
  BY LInvPreserved
<1>4. IInv /\ IInv' /\ PInv /\ LInv /\ LInv' /\ CInv /\ [Next]_vars => CInv'
  BY CInvPreserved
<1> QED
  BY <1>1, <1>2, <1>3, <1>4, PTL DEF Spec

(* As long as no leader dies, whatever its followers do, die and come      *)
(* back: when the only leader is back in its loop and no connection of its *)
(* is lost, load_database has left every fragment at exactly one of the    *)
(* peers - none was dealt twice, and none to a peer that missed it.        *)
THEOREM FragmentsAreCovered ==
  ASSUME LeadersLive
  PROVE  Spec => []FragmentsCovered
<1>1. IInv /\ LInv /\ CInv => FragmentsCovered
  <2> SUFFICES ASSUME IInv, LInv, CInv, NEW n \in Nodes, leaders = {n}, Idle(n), AllLive(n),
                      NEW f \in Fragments
               PROVE  Cardinality({m \in Members(n) : f \in Dealt(n, m)})
                      + (IF f \in db[n] THEN 1 ELSE 0) = 1
    BY DEF FragmentsCovered, Members, AllLive
  <2> DEFINE S == {m \in Members(n) : f \in Dealt(n, m)}
  <2>1. DealtOut(n, Members(n), Fragments \ db[n])
    BY DEF CInv, Covering, Idle
  <2> SUFFICES Cardinality(S) = IF f \in db[n] THEN 0 ELSE 1
    OBVIOUS
  <2>2. CASE f \in db[n]
    <3>1. S = {}
      BY <2>1, <2>2 DEF DealtOut
    <3>2. Cardinality({}) = 0
      BY FS_EmptySet
    <3> HIDE DEF S
    <3> QED
      BY <2>2, <3>1, <3>2
  <2>3. CASE f \notin db[n]
    <3>1. PICK m \in Members(n) : f \in Dealt(n, m)
      BY <2>1, <2>3 DEF DealtOut
    <3>2. \A l \in Members(n) : f \in Dealt(n, l) => l = m
      BY <2>1, <3>1 DEF DealtOut
    <3>3. S = {m}
      BY <3>1, <3>2
    <3>4. Cardinality({m}) = 1
      BY FS_Singleton
    <3> HIDE DEF S
    <3> QED
      BY <2>3, <3>3, <3>4
  <2> QED
    BY <2>2, <2>3
<1> QED
  BY <1>1, CInvHolds, PTL
=============================================================================
