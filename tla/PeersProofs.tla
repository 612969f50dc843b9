---------------------------- MODULE PeersProofs ----------------------------
(***************************************************************************)
(* Proofs about Peers for any number of processes, deaths, restarts and    *)
(* connections, and for reads that return any number of messages.          *)
(***************************************************************************)
EXTENDS Peers, FiniteSetTheorems, SequenceTheorems, TLAPS

-----------------------------------------------------------------------------
\* The inductive invariant.

\* Only an ID and a LOAD carry anything.
Message ==
  {Ping, IdReq, Coordinator, NoMsg}
  \cup [type : {"ID"}, body : SUBSET Nat] \cup [type : {"LOAD"}, body : SUBSET Fragments]

Connection ==
  [from : Nodes \cup {NoConn}, to : Nodes \cup {NoConn},
   req : Seq(Message), resp : Seq(Message), open : SUBSET {"from", "to"},
   server : ServerStates, input : Message, failed : {"no", "yes"}]

MainThread ==
  [at : {"boot", "loop", "id", "check", "count", "share"},
   conn : ConnIds \cup {NoConn}, rest : SUBSET Nodes, count : Nat, slot : Nat]

\* What the fields hold.
FieldsTyped ==
  /\ conns \in [ConnIds -> Connection]
  /\ phase \in [Nodes -> {"down", "booting", "up"}]
  /\ id \in [Nodes -> Ids]
  /\ link \in [Nodes -> [Nodes -> ConnIds \cup {NoConn}]]
  /\ known \in [Nodes -> [Nodes -> Ids]]
  /\ main \in [Nodes -> MainThread]
  /\ db \in [Nodes -> SUBSET Fragments]
  /\ clock \in 0..MaxTime /\ crashes \in 0..MaxCrashes

\* An end is open only while the process that holds it runs, and only an open
\* end is served.
EndHeld(c) ==
  /\ conns[c].open = {} => conns[c] = Closed
  /\ conns[c].open # {} => conns[c].from \in Nodes /\ conns[c].to \in Nodes
  /\ "from" \in conns[c].open => phase[conns[c].from] # "down"
  /\ "to" \in conns[c].open => phase[conns[c].to] = "up"
  /\ conns[c].server # "exited" => "to" \in conns[c].open
  /\ conns[c].server \in {"handling", "loading"} => conns[c].input.type = "LOAD"
EndsHeld == \A c \in ConnIds : EndHeld(c)

\* p->connection is an end that this very process holds, to that very peer.
LinksHeld ==
  \A n, m \in Nodes :
    LET c == link[n][m] IN
    c # NoConn =>
      /\ phase[n] # "down" /\ n # m
      /\ conns[c].from = n /\ conns[c].to = m /\ "from" \in conns[c].open

\* n waits for the id of the peer at the other end of c.
AskingId(n, c) == main[n].at = "id" /\ main[n].conn = c

\* The id is on its way, or the peer died and it may have been.
IdComing(c) ==
  \/ /\ "to" \in conns[c].open
     /\ conns[c].server = "backlog" /\ conns[c].req = <<IdReq>> /\ conns[c].resp = <<>>
  \/ /\ "to" \in conns[c].open
     /\ conns[c].server = "reading" /\ conns[c].req = <<>>
     /\ conns[c].resp = <<Msg("ID", {id[conns[c].to]})>>
  \/ /\ "to" \notin conns[c].open
     /\ conns[c].resp = <<>> \/ \E i \in Ids : conns[c].resp = <<Msg("ID", {i})>>

\* The id has arrived; all that is still read are answers to pings.
IdKnown(n, c) ==
  /\ conns[c].server # "backlog"
  /\ \A j \in 1..Len(conns[c].resp) : conns[c].resp[j] = Ping
  /\ "to" \in conns[c].open => known[n][conns[c].to] = id[conns[c].to]

IdsComeFirst ==
  \A n, m \in Nodes :
    LET c == link[n][m] IN
    c # NoConn => IF AskingId(n, c) THEN IdComing(c) ELSE IdKnown(n, c)

\* The main thread waits on connections of its own, and only a leader's is in
\* load_database.
Waiting(n) ==
  LET c == main[n].conn IN
  c # NoConn /\ conns[c].to \in Nodes /\ link[n][conns[c].to] = c
MainInPlace(n) ==
  /\ main[n].at \in {"boot", "loop"} => main[n].conn = NoConn
  /\ main[n].at \in {"id", "check"} => Waiting(n)
  /\ main[n].at \in {"count", "share"} =>
       /\ n \in leaders
       /\ main[n].conn # NoConn => Waiting(n) /\ conns[main[n].conn].to \notin main[n].rest
  /\ main[n].at \notin {"count", "share"} => main[n].count = 0
  /\ main[n].at # "share" => main[n].slot = 0
  /\ main[n].at = "boot" => phase[n] = "booting"
  /\ main[n].rest \subseteq Peers(n)
  /\ phase[n] = "down" => main[n] = Loop
MainsInPlace ==
  /\ \A n \in Nodes : MainInPlace(n)
  /\ leaders \subseteq {n \in Nodes : phase[n] = "up"}
  /\ loading \subseteq {n \in Nodes : phase[n] # "down"}

\* The peers of n that answered a ping, or may yet.
Able(n) ==
  {m \in Peers(n) : LET c == link[n][m] IN
     c # NoConn /\ (conns[c].resp # <<>> \/ "to" \in conns[c].open)}
\* Those that load_database has still to hear of in the round it is in.
Left(n) ==
  main[n].rest \cup (IF main[n].conn = NoConn THEN {} ELSE {conns[main[n].conn].to})

\* The first round has counted every peer that can answer in the second, and
\* the second has slots for all of them left.
SlotsSufficeAt(n) ==
  /\ main[n].at = "count" =>
       /\ 1 + Cardinality(Able(n) \ Left(n)) <= main[n].count
       /\ main[n].count + Cardinality(Left(n)) <= Cardinality(Nodes)
  /\ main[n].at = "share" =>
       /\ main[n].slot + Cardinality(Able(n) \cap Left(n)) <= main[n].count
       /\ main[n].slot + Cardinality(Left(n)) <= Cardinality(Nodes)
       /\ main[n].count <= Cardinality(Nodes)
SlotsSuffice == \A n \in Nodes : SlotsSufficeAt(n)

IInv ==
  /\ FieldsTyped /\ EndsHeld /\ LinksHeld /\ IdsComeFirst /\ MainsInPlace /\ SlotsSuffice

-----------------------------------------------------------------------------
\* Sequences and messages.

LEMMA RestOfSeq ==
  ASSUME NEW S, NEW q \in Seq(S), NEW k \in Nat
  PROVE  /\ Rest(q, k) \in Seq(S)
         /\ \A j \in 1..Len(Rest(q, k)) : j + k \in 1..Len(q) /\ Rest(q, k)[j] = q[j + k]
         /\ Len(q) <= k => Rest(q, k) = <<>>
<1>1. \A j \in (k + 1)..Len(q) : q[j] \in S
  BY ElementOfSeq
<1>2. Len(q) \in Nat
  BY LenProperties
<1>3. /\ SubSeq(q, k + 1, Len(q)) \in Seq(S)
      /\ Len(SubSeq(q, k + 1, Len(q))) = IF k + 1 <= Len(q) THEN Len(q) - k ELSE 0
      /\ \A j \in 1..(Len(q) - k) : SubSeq(q, k + 1, Len(q))[j] = q[j + k]
  BY <1>1, <1>2, SubSeqProperties
<1>4. Len(q) <= k => SubSeq(q, k + 1, Len(q)) = <<>>
  BY <1>2, SubSeqEmpty
<1> QED
  BY <1>2, <1>3, <1>4 DEF Rest

LEMMA MessagesTyped ==
  /\ Ping \in Message /\ IdReq \in Message /\ Coordinator \in Message /\ NoMsg \in Message
  /\ \A i \in Nat : Msg("ID", {i}) \in Message
  /\ \A S \in SUBSET Fragments : Msg("LOAD", S) \in Message
  /\ \A i \in Nat : Msg("ID", {i}) # Ping
  /\ Ping.type = "PING" /\ IdReq.type = "ID_REQ" /\ Coordinator.type = "COORDINATOR"
  /\ NoMsg.type = "NONE"
  /\ \A msg \in Message :
       /\ msg.type = "PING" => msg = Ping
       /\ msg.type = "LOAD" => msg.body \in SUBSET Fragments
<1>1. Fragments \subseteq Nat
  BY FragmentAssumption DEF Fragments
<1>2. \A S \in SUBSET Fragments : Msg("LOAD", S) \in Message
  BY <1>1 DEF Msg, Message
<1>3. \A i \in Nat : Msg("ID", {i}) \in Message
  BY DEF Msg, Message
<1>4. Ping \in Message /\ IdReq \in Message /\ Coordinator \in Message /\ NoMsg \in Message
  BY DEF Msg, Message, Ping, IdReq, Coordinator, NoMsg
<1>5. \A i \in Nat : Msg("ID", {i}) # Ping
  <2>1. \A i \in Nat : Msg("ID", {i}).type = "ID" /\ Ping.type = "PING"
    BY DEF Msg, Ping
  <2> QED
    BY <2>1
<1>6. /\ Ping.type = "PING" /\ IdReq.type = "ID_REQ" /\ Coordinator.type = "COORDINATOR"
      /\ NoMsg.type = "NONE"
  BY DEF Msg, Ping, IdReq, Coordinator, NoMsg
<1>7. ASSUME NEW msg \in Message
      PROVE  /\ msg.type = "PING" => msg = Ping
             /\ msg.type = "LOAD" => msg.body \in SUBSET Fragments
  <2>1. CASE msg \in {Ping, IdReq, Coordinator, NoMsg}
    BY <1>6, <2>1
  <2>2. CASE msg \in [type : {"ID"}, body : SUBSET Nat]
    BY <2>2
  <2>3. CASE msg \in [type : {"LOAD"}, body : SUBSET Fragments]
    BY <2>3
  <2> QED
    BY <2>1, <2>2, <2>3 DEF Message
<1> QED
  BY <1>2, <1>3, <1>4, <1>5, <1>6, <1>7

LEMMA ClosedTyped ==
  /\ Closed \in Connection
  /\ \A n, m \in Nodes : Opened(n, m) \in Connection
<1> QED
  BY MessagesTyped DEF Closed, Opened, Connection, ServerStates

\* Connection d is as it was but for what is still to be read by its server.
ButReq(cs, ds, d) ==
  /\ ds[d].from = cs[d].from /\ ds[d].to = cs[d].to /\ ds[d].open = cs[d].open
  /\ ds[d].resp = cs[d].resp /\ ds[d].server = cs[d].server /\ ds[d].input = cs[d].input

\* A write changes only what is still to be read at the other end.
LEMMA SentOnly ==
  ASSUME NEW cs \in [ConnIds -> Connection], NEW c \in ConnIds, NEW msg \in Message
  PROVE  /\ Sent(cs, c, msg) \in [ConnIds -> Connection]
         /\ \A d \in ConnIds : d # c => Sent(cs, c, msg)[d] = cs[d]
         /\ ButReq(cs, Sent(cs, c, msg), c)
<1>1. Append(cs[c].req, msg) \in Seq(Message)
  BY DEF Connection
<1>2. CASE "to" \in cs[c].open
  <2> DEFINE k == [cs[c] EXCEPT !.req = Append(@, msg)]
  <2>1. Sent(cs, c, msg) = [cs EXCEPT ![c] = k]
    BY <1>2 DEF Sent
  <2>2. k \in Connection
    BY <1>1 DEF Connection
  <2>3. /\ k.from = cs[c].from /\ k.to = cs[c].to /\ k.open = cs[c].open
        /\ k.resp = cs[c].resp /\ k.server = cs[c].server /\ k.input = cs[c].input
    BY DEF Connection
  <2> HIDE DEF k
  <2> QED
    BY <2>1, <2>2, <2>3 DEF ButReq
<1>3. CASE "to" \notin cs[c].open
  BY <1>3 DEF Sent, ButReq
<1> QED
  BY <1>2, <1>3

\* An answer changes only what is still to be read at this end.
LEMMA AnsweredOnly ==
  ASSUME NEW c \in ConnIds, conns \in [ConnIds -> Connection], NEW msg \in Message
  PROVE  \E r \in Seq(Message) :
           /\ r = IF "from" \in conns[c].open THEN Append(conns[c].resp, msg)
                  ELSE conns[c].resp
           /\ Answered(conns, c, msg) = [conns EXCEPT ![c] = [@ EXCEPT !.resp = r]]
           /\ [conns[c] EXCEPT !.resp = r] \in Connection
<1>1. Append(conns[c].resp, msg) \in Seq(Message) /\ conns[c].resp \in Seq(Message)
  BY DEF Connection
<1>2. CASE "from" \in conns[c].open
  <2>1. Answered(conns, c, msg) =
          [conns EXCEPT ![c] = [@ EXCEPT !.resp = Append(conns[c].resp, msg)]]
    BY <1>2 DEF Answered
  <2>2. [conns[c] EXCEPT !.resp = Append(conns[c].resp, msg)] \in Connection
    BY <1>1 DEF Connection
  <2> QED
    BY <1>1, <1>2, <2>1, <2>2
<1>3. CASE "from" \notin conns[c].open
  <2>1. [conns[c] EXCEPT !.resp = conns[c].resp] = conns[c]
    BY DEF Connection
  <2> QED
    BY <1>1, <1>3, <2>1 DEF Answered
<1> QED
  BY <1>2, <1>3

LEMMA ReceivedOnly ==
  ASSUME NEW c \in ConnIds, conns \in [ConnIds -> Connection], NEW k \in Nat
  PROVE  /\ Received(c, k) = [conns EXCEPT ![c] = [@ EXCEPT !.resp = Rest(conns[c].resp, k)]]
         /\ [conns[c] EXCEPT !.resp = Rest(conns[c].resp, k)] \in Connection
         /\ Rest(conns[c].resp, k) \in Seq(Message)
<1>1. Rest(conns[c].resp, k) \in Seq(Message)
  BY RestOfSeq DEF Connection
<1>2. [conns[c] EXCEPT !.resp = Rest(conns[c].resp, k)] \in Connection
  BY <1>1 DEF Connection
<1> QED
  BY <1>1, <1>2 DEF Received

-----------------------------------------------------------------------------
\* The counts of load_database.

LEMMA NodesFinite ==
  /\ IsFiniteSet(Nodes) /\ Cardinality(Nodes) \in Nat
  /\ \A S \in SUBSET Nodes :
       IsFiniteSet(S) /\ Cardinality(S) \in Nat /\ Cardinality(S) <= Cardinality(Nodes)
<1>1. IsFiniteSet(Nodes)
  BY PeersAssumption
<1> QED
  BY <1>1, FS_CardinalityType, FS_Subset

LEMMA SmallerSubset ==
  ASSUME NEW T \in SUBSET Nodes, NEW S \in SUBSET T
  PROVE  Cardinality(S) <= Cardinality(T)
BY NodesFinite, FS_Subset

LEMMA LeftTyped ==
  ASSUME IInv, NEW n \in Nodes
  PROVE  Able(n) \in SUBSET Nodes /\ (main[n].at \in {"count", "share"} => Left(n) \in SUBSET Nodes)
<1>1. Able(n) \in SUBSET Nodes
  BY DEF Able, Peers
<1>2. main[n].rest \subseteq Nodes
  BY DEF IInv, FieldsTyped, MainThread
<1>3. ASSUME main[n].at \in {"count", "share"}, main[n].conn # NoConn
      PROVE  conns[main[n].conn].to \in Nodes
  <2>1. MainInPlace(n)
    BY DEF IInv, MainsInPlace
  <2> QED
    BY <1>3, <2>1 DEF MainInPlace, Waiting
<1> QED
  BY <1>1, <1>2, <1>3 DEF Left

\* A round in which nothing is asked or answered stays as it is, though peers
\* may die.
LEMMA SlotsKept ==
  ASSUME IInv, NEW n \in Nodes,
         main[n].at \in {"count", "share"} \/ main'[n].at \in {"count", "share"} =>
           /\ main'[n] = main[n]
           /\ Able(n)' \subseteq Able(n)
           /\ main[n].conn # NoConn => conns'[main[n].conn].to = conns[main[n].conn].to
  PROVE  SlotsSufficeAt(n)'
<1> SUFFICES ASSUME main'[n].at \in {"count", "share"}
             PROVE  SlotsSufficeAt(n)'
  BY DEF SlotsSufficeAt
<1>1. main'[n] = main[n] /\ Able(n)' \subseteq Able(n) /\ Left(n)' = Left(n)
  BY DEF Left
<1>2. Able(n) \in SUBSET Nodes /\ Left(n) \in SUBSET Nodes
  BY <1>1, LeftTyped
<1>3. /\ Cardinality(Able(n)' \ Left(n)') <= Cardinality(Able(n) \ Left(n))
      /\ Cardinality(Able(n)' \cap Left(n)') <= Cardinality(Able(n) \cap Left(n))
  BY <1>1, <1>2, SmallerSubset
<1>4. /\ Cardinality(Able(n)' \ Left(n)') \in Nat /\ Cardinality(Able(n) \ Left(n)) \in Nat
      /\ Cardinality(Able(n)' \cap Left(n)') \in Nat /\ Cardinality(Able(n) \cap Left(n)) \in Nat
  BY <1>1, <1>2, NodesFinite
<1>5. main[n].count \in Nat /\ main[n].slot \in Nat
  BY DEF IInv, FieldsTyped, MainThread
<1>6. SlotsSufficeAt(n)
  BY DEF IInv, SlotsSuffice
<1> HIDE DEF Able, Left
<1>7. CASE main[n].at = "count"
  BY <1>1, <1>3, <1>4, <1>5, <1>6, <1>7 DEF SlotsSufficeAt
<1>8. CASE main[n].at = "share"
  BY <1>1, <1>3, <1>4, <1>5, <1>6, <1>8 DEF SlotsSufficeAt
<1> QED
  BY <1>1, <1>7, <1>8

-----------------------------------------------------------------------------
\* The steps of peer_main: what they do to a connection is no matter to the
\* process that opened it, but for answers to its pings.
LEMMA ServedKeeps ==
  ASSUME IInv, NEW c \in ConnIds, NEW k \in Connection, conns' = [conns EXCEPT ![c] = k],
         k.from = conns[c].from, k.to = conns[c].to, k.open = conns[c].open,
         conns[c].server \notin {"backlog", "exited"}, k.server \notin {"backlog", "exited"},
         k.server \in {"handling", "loading"} => k.input.type = "LOAD",
         conns[c].server = "reading" => conns[c].req # <<>> \/ "from" \notin conns[c].open,
         k.resp = conns[c].resp \/ k.resp = Append(conns[c].resp, Ping),
         UNCHANGED <<procVars, link, known, main, clock, crashes>>,
         db' \in [Nodes -> SUBSET Fragments], loading' \subseteq loading \cup {conns[c].to}
  PROVE  IInv'
<1>1. "to" \in conns[c].open /\ conns[c].to \in Nodes /\ phase[conns[c].to] = "up"
  BY DEF IInv, EndsHeld, EndHeld
<1>2. FieldsTyped'
  BY DEF IInv, FieldsTyped, procVars
<1>3. EndsHeld'
  <2> SUFFICES ASSUME NEW d \in ConnIds
               PROVE  EndHeld(d)'
    BY DEF EndsHeld
  <2>1. CASE d = c
    BY <1>1, <2>1 DEF IInv, EndsHeld, EndHeld, FieldsTyped, procVars
  <2>2. CASE d # c
    BY <2>2 DEF IInv, EndsHeld, EndHeld, FieldsTyped, procVars
  <2> QED
    BY <2>1, <2>2
<1>4. LinksHeld'
  BY DEF IInv, LinksHeld, FieldsTyped, procVars
<1>5. IdsComeFirst'
  <2> SUFFICES ASSUME NEW n \in Nodes, NEW m \in Nodes, link[n][m] # NoConn
               PROVE  IF AskingId(n, link[n][m]) THEN IdComing(link[n][m])'
                      ELSE IdKnown(n, link[n][m])'
    BY DEF IdsComeFirst, AskingId
  <2> DEFINE d == link[n][m]
  <2>1. d \in ConnIds /\ "from" \in conns[d].open
    BY DEF IInv, LinksHeld, FieldsTyped
  <2>2. IF AskingId(n, d) THEN IdComing(d) ELSE IdKnown(n, d)
    BY DEF IInv, IdsComeFirst
  <2>3. CASE d # c
    <3>1. conns'[d] = conns[d]
      BY <2>1, <2>3 DEF IInv, FieldsTyped
    <3> QED
      BY <2>2, <3>1 DEF IdComing, IdKnown, procVars
  <2>4. CASE d = c
    <3>1. ~AskingId(n, d)
      BY <1>1, <2>1, <2>2, <2>4 DEF IdComing
    <3>2. conns'[d] = k
      BY <2>1, <2>4 DEF IInv, FieldsTyped
    <3>3. conns[c].resp \in Seq(Message)
      BY DEF IInv, FieldsTyped, Connection
    <3>4. \A j \in 1..Len(k.resp) : k.resp[j] = Ping
      <4>1. \A j \in 1..Len(conns[c].resp) : conns[c].resp[j] = Ping
        BY <2>2, <2>4, <3>1 DEF IdKnown
      <4> QED
        BY <3>3, <4>1
    <3> QED
      BY <2>2, <2>4, <3>1, <3>2, <3>4 DEF IdKnown, procVars
  <2> QED
    BY <2>3, <2>4
<1>6. MainsInPlace'
  <2>1. \A n \in Nodes : Waiting(n) => Waiting(n)'
    BY DEF Waiting, IInv, FieldsTyped
  <2>2. \A d \in ConnIds : conns'[d].to = conns[d].to
    BY DEF IInv, FieldsTyped
  <2>3. \A n \in Nodes : main[n].conn # NoConn => main[n].conn \in ConnIds
    BY DEF IInv, FieldsTyped, MainThread
  <2> QED
    BY <1>1, <2>1, <2>2, <2>3 DEF IInv, MainsInPlace, MainInPlace, procVars
<1>7. SlotsSuffice'
  <2>1. \A d \in ConnIds : conns'[d].to = conns[d].to
    BY DEF IInv, FieldsTyped
  <2>2. \A n \in Nodes : main[n].conn # NoConn => main[n].conn \in ConnIds
    BY DEF IInv, FieldsTyped, MainThread
  <2>3. \A d \in ConnIds : conns'[d].resp # <<>> \/ "to" \in conns'[d].open =>
                           conns[d].resp # <<>> \/ "to" \in conns[d].open
    BY <1>1 DEF IInv, FieldsTyped
  <2>4. \A n, m \in Nodes : link[n][m] # NoConn => link[n][m] \in ConnIds
    BY DEF IInv, FieldsTyped
  <2>5. \A n \in Nodes : Able(n)' \subseteq Able(n)
    BY <2>3, <2>4 DEF Able, Peers
  <2> QED
    BY <2>1, <2>2, <2>5, SlotsKept DEF SlotsSuffice
<1> QED
  BY <1>2, <1>3, <1>4, <1>5, <1>6, <1>7 DEF IInv

LEMMA ServerReadStep ==
  ASSUME IInv, NEW c \in ConnIds, NEW k \in 1..MaxRead, ServerRead(c, k)
  PROVE  IInv'
<1> DEFINE r == [conns[c] EXCEPT !.req = Rest(conns[c].req, k), !.server = "spinning",
                                 !.input = Head(conns[c].req)]
<1>1. conns' = [conns EXCEPT ![c] = r]
  BY DEF ServerRead
<1>2. k \in Nat /\ conns[c].req # <<>> /\ conns[c] \in Connection
  BY ConnectionAssumption DEF ServerRead, Reads, IInv, FieldsTyped
<1>3. Rest(conns[c].req, k) \in Seq(Message) /\ Head(conns[c].req) \in Message
  BY <1>2, RestOfSeq, HeadTailProperties DEF Connection
<1>4. /\ r \in Connection /\ r.server = "spinning" /\ r.resp = conns[c].resp
      /\ r.from = conns[c].from /\ r.to = conns[c].to /\ r.open = conns[c].open
  BY <1>2, <1>3 DEF Connection, ServerStates
<1>5. UNCHANGED <<procVars, loading, link, known, main, db, clock, crashes>>
  BY DEF ServerRead
<1>6. conns[c].server = "reading"
  BY DEF ServerRead
<1>7. db' \in [Nodes -> SUBSET Fragments] /\ loading' \subseteq loading \cup {conns[c].to}
  BY <1>5 DEF IInv, FieldsTyped
<1> HIDE DEF r
<1> QED
  BY <1>1, <1>2, <1>4, <1>5, <1>6, <1>7, ServedKeeps

LEMMA ServerReadErrorStep ==
  ASSUME IInv, NEW c \in ConnIds, ServerReadError(c)
  PROVE  IInv'
<1> DEFINE r == [conns[c] EXCEPT !.server = "spinning", !.failed = "yes"]
<1>1. conns' = [conns EXCEPT ![c] = r]
  BY DEF ServerReadError
<1>2. conns[c] \in Connection
  BY DEF IInv, FieldsTyped
<1>3. /\ r \in Connection /\ r.server = "spinning" /\ r.resp = conns[c].resp
      /\ r.from = conns[c].from /\ r.to = conns[c].to /\ r.open = conns[c].open
  BY <1>2 DEF Connection, ServerStates
<1>4. UNCHANGED <<procVars, loading, link, known, main, db, clock, crashes>>
  BY DEF ServerReadError
<1>5. conns[c].server = "reading" /\ "from" \notin conns[c].open
  BY DEF ServerReadError
<1>6. db' \in [Nodes -> SUBSET Fragments] /\ loading' \subseteq loading \cup {conns[c].to}
  BY <1>4 DEF IInv, FieldsTyped
<1> HIDE DEF r
<1> QED
  BY <1>1, <1>3, <1>4, <1>5, <1>6, ServedKeeps

LEMMA ServerHandleStep ==
  ASSUME IInv, NEW c \in ConnIds, ServerHandle(c)
  PROVE  IInv'
<1>1. conns[c] \in Connection /\ conns \in [ConnIds -> Connection]
  BY DEF IInv, FieldsTyped
<1>2. UNCHANGED <<procVars, loading, link, known, main, db, clock, crashes>>
      /\ conns[c].server = "spinning"
  BY DEF ServerHandle
<1>3. PICK at \in {"reading", "handling"}, q \in {conns[c].resp, Append(conns[c].resp, Ping)} :
        /\ conns' = [conns EXCEPT ![c] = [conns[c] EXCEPT !.resp = q, !.server = at]]
        /\ at = "handling" => conns[c].input.type = "LOAD"
  <2>1. CASE conns[c].input.type = "PING"
    <3>1. conns' = [Answered(conns, c, Ping) EXCEPT ![c].server = "reading"]
      BY <2>1 DEF ServerHandle
    <3>2. PICK q \in {conns[c].resp, Append(conns[c].resp, Ping)} :
            Answered(conns, c, Ping) = [conns EXCEPT ![c] = [conns[c] EXCEPT !.resp = q]]
      <4>1. PICK q \in Seq(Message) :
              /\ q = IF "from" \in conns[c].open THEN Append(conns[c].resp, Ping)
                     ELSE conns[c].resp
              /\ Answered(conns, c, Ping) = [conns EXCEPT ![c] = [@ EXCEPT !.resp = q]]
        BY <1>1, MessagesTyped, AnsweredOnly
      <4> QED
        BY <4>1
    <3> QED
      BY <1>1, <3>1, <3>2 DEF Connection
  <2>2. CASE conns[c].input.type # "PING"
    <3>1. conns[c] = [conns[c] EXCEPT !.resp = conns[c].resp]
      BY <1>1 DEF Connection
    <3>2. CASE conns' = [conns EXCEPT ![c].server = "handling"] /\ conns[c].input.type = "LOAD"
      <4>1. [conns[c] EXCEPT !.server = "handling"] =
              [conns[c] EXCEPT !.resp = conns[c].resp, !.server = "handling"]
        BY <1>1 DEF Connection
      <4> QED
        BY <3>2, <4>1
    <3>3. CASE conns' = [conns EXCEPT ![c].server = "reading"]
      <4>1. [conns[c] EXCEPT !.server = "reading"] =
              [conns[c] EXCEPT !.resp = conns[c].resp, !.server = "reading"]
        BY <1>1 DEF Connection
      <4> QED
        BY <3>3, <4>1
    <3> QED
      BY <2>2, <3>2, <3>3 DEF ServerHandle
  <2> QED
    BY <2>1, <2>2
<1> DEFINE r == [conns[c] EXCEPT !.resp = q, !.server = at]
<1>4. q \in Seq(Message)
  <2>1. conns[c].resp \in Seq(Message) /\ Ping \in Message
    BY <1>1, MessagesTyped DEF Connection
  <2>2. Append(conns[c].resp, Ping) \in Seq(Message)
    BY <2>1
  <2> QED
    BY <2>1, <2>2
<1>5. /\ r \in Connection /\ r.server = at /\ r.resp = q /\ r.input = conns[c].input
      /\ r.from = conns[c].from /\ r.to = conns[c].to /\ r.open = conns[c].open
  BY <1>1, <1>4 DEF Connection, ServerStates
<1>6. db' \in [Nodes -> SUBSET Fragments] /\ loading' \subseteq loading \cup {conns[c].to}
  BY <1>2 DEF IInv, FieldsTyped
<1>7. conns' = [conns EXCEPT ![c] = r]
  BY <1>3
<1> HIDE DEF r
<1>8. /\ conns[c].server \notin {"backlog", "exited"} /\ r.server \notin {"backlog", "exited"}
      /\ r.server \in {"handling", "loading"} => r.input.type = "LOAD"
      /\ conns[c].server # "reading"
      /\ r.resp = conns[c].resp \/ r.resp = Append(conns[c].resp, Ping)
  BY <1>2, <1>3, <1>5
<1>9. UNCHANGED <<procVars, link, known, main, clock, crashes>>
  BY <1>2
<1> QED
  BY <1>5, <1>6, <1>7, <1>8, <1>9, ServedKeeps

LEMMA ServerLoadStep ==
  ASSUME IInv, NEW c \in ConnIds, ServerLoad(c) \/ ServerLoaded(c)
  PROVE  IInv'
<1>1. conns[c] \in Connection /\ conns[c].server \in {"handling", "loading"}
  BY DEF IInv, FieldsTyped, ServerLoad, ServerLoaded
<1>2. PICK at \in {"loading", "reading"} :
        conns' = [conns EXCEPT ![c] = [conns[c] EXCEPT !.server = at]]
  BY DEF ServerLoad, ServerLoaded
<1> DEFINE r == [conns[c] EXCEPT !.server = at]
<1>3. /\ r \in Connection /\ r.server = at /\ r.resp = conns[c].resp
      /\ r.input = conns[c].input
      /\ r.from = conns[c].from /\ r.to = conns[c].to /\ r.open = conns[c].open
  BY <1>1 DEF Connection, ServerStates
<1>4. UNCHANGED <<procVars, link, known, main, clock, crashes>>
  BY DEF ServerLoad, ServerLoaded
<1>5. conns[c].input.type = "LOAD" /\ conns[c].input.body \subseteq Fragments
  BY <1>1, MessagesTyped DEF IInv, EndsHeld, EndHeld, Connection
<1>6. db' \in [Nodes -> SUBSET Fragments]
  BY <1>5 DEF ServerLoad, ServerLoaded, IInv, FieldsTyped
<1>7. loading' \subseteq loading \cup {conns[c].to}
  BY DEF ServerLoad, ServerLoaded, DoneLoading
<1> HIDE DEF r
<1> QED
  BY <1>1, <1>2, <1>3, <1>4, <1>5, <1>6, <1>7, ServedKeeps DEF r

-----------------------------------------------------------------------------
\* The steps of the main thread that ping, or read the answer to a ping.

\* No other process and no connection but c is the matter of such a step.
LEMMA UsedKeeps ==
  ASSUME IInv, NEW n \in Nodes, NEW m \in Nodes, NEW c \in ConnIds, link[n][m] = c,
         main[n].at # "id", NEW t \in MainThread, main' = [main EXCEPT ![n] = t], t.at # "id",
         conns' \in [ConnIds -> Connection], \A d \in ConnIds : d # c => conns'[d] = conns[d],
         conns'[c].from = conns[c].from, conns'[c].to = conns[c].to,
         conns'[c].open = conns[c].open, conns'[c].server = conns[c].server,
         conns'[c].input = conns[c].input,
         \A j \in 1..Len(conns'[c].resp) : conns'[c].resp[j] = Ping,
         conns'[c].resp # <<>> => conns[c].resp # <<>>,
         UNCHANGED <<procVars, loading, link, known, db, clock, crashes>>,
         MainInPlace(n)', SlotsSufficeAt(n)'
  PROVE  IInv'
<1> USE DEF NoConn
<1>1. FieldsTyped'
  BY DEF IInv, FieldsTyped, procVars
<1>2. /\ conns[c].from = n /\ conns[c].to = m /\ "from" \in conns[c].open
      /\ c # NoConn /\ n # m
  <2>1. c # NoConn
    BY DEF ConnIds
  <2> QED
    BY <2>1 DEF IInv, LinksHeld
<1>3. EndsHeld'
  <2> SUFFICES ASSUME NEW d \in ConnIds
               PROVE  EndHeld(d)'
    BY DEF EndsHeld
  <2>1. CASE d = c
    BY <1>2, <2>1 DEF IInv, EndsHeld, EndHeld, procVars
  <2>2. CASE d # c
    BY <2>2 DEF IInv, EndsHeld, EndHeld, procVars
  <2> QED
    BY <2>1, <2>2
<1>4. \A d \in ConnIds : conns'[d].to = conns[d].to /\ conns'[d].from = conns[d].from
                         /\ conns'[d].open = conns[d].open
  OBVIOUS
<1>5. \A p, q \in Nodes : link[p][q] \in ConnIds \cup {NoConn}
  BY DEF IInv, FieldsTyped
<1>6. LinksHeld'
  BY <1>4, <1>5 DEF IInv, LinksHeld, procVars
<1>7. main \in [Nodes -> MainThread]
  BY DEF IInv, FieldsTyped
<1>8. IdsComeFirst'
  <2> SUFFICES ASSUME NEW p \in Nodes, NEW q \in Nodes, NEW d, d = link'[p][q], d # NoConn
               PROVE  IF AskingId(p, d)' THEN IdComing(d)' ELSE IdKnown(p, d)'
    BY DEF IdsComeFirst
  <2>1. d = link[p][q] /\ d \in ConnIds /\ conns[d].from = p
    BY <1>5 DEF IInv, LinksHeld
  <2>2. IF AskingId(p, d) THEN IdComing(d) ELSE IdKnown(p, d)
    BY <2>1 DEF IInv, IdsComeFirst
  <2>3. AskingId(p, d)' <=> AskingId(p, d)
    BY <1>7 DEF AskingId
  <2>4. CASE d # c
    <3>1. conns'[d] = conns[d] /\ UNCHANGED <<id, known>>
      BY <2>1, <2>4 DEF procVars
    <3>2. IdComing(d)' <=> IdComing(d)
      BY <3>1 DEF IdComing
    <3>3. IdKnown(p, d)' <=> IdKnown(p, d)
      BY <3>1 DEF IdKnown
    <3> QED
      BY <2>2, <2>3, <3>2, <3>3
  <2>5. CASE d = c
    <3>1. ~AskingId(p, d) /\ IdKnown(p, d)
      BY <1>2, <2>1, <2>2, <2>5 DEF AskingId
    <3>2. IdKnown(p, d)'
      BY <2>5, <3>1 DEF IdKnown, procVars
    <3> QED
      BY <2>3, <3>1, <3>2
  <2> QED
    BY <2>4, <2>5
<1>9. \A p \in Nodes : main[p].conn # NoConn => main[p].conn \in ConnIds
  BY <1>7 DEF MainThread
<1>10. ASSUME NEW p \in Nodes, p # n
       PROVE  main'[p] = main[p] /\ MainInPlace(p)'
  <2>1. main'[p] = main[p]
    BY <1>7, <1>10
  <2>2. Waiting(p) => Waiting(p)'
    BY <1>4, <1>9, <2>1 DEF Waiting
  <2>3. MainInPlace(p)
    BY DEF IInv, MainsInPlace
  <2> QED
    BY <1>4, <1>9, <2>1, <2>2, <2>3 DEF MainInPlace, procVars
<1>11. MainsInPlace'
  BY <1>10 DEF IInv, MainsInPlace, procVars
<1>12. ASSUME NEW p \in Nodes, p # n
       PROVE  SlotsSufficeAt(p)'
  <2>1. \A d \in ConnIds : conns'[d].resp # <<>> \/ "to" \in conns'[d].open =>
                           conns[d].resp # <<>> \/ "to" \in conns[d].open
    OBVIOUS
  <2>2. Able(p)' \subseteq Able(p)
    BY <1>5, <2>1 DEF Able, Peers
  <2>3. main'[p] = main[p]
    BY <1>10, <1>12
  <2> QED
    BY <1>4, <1>9, <2>2, <2>3, SlotsKept
<1>13. SlotsSuffice'
  BY <1>12 DEF SlotsSuffice
<1> QED
  BY <1>1, <1>3, <1>6, <1>8, <1>11, <1>13 DEF IInv

\* Where the main thread is waiting, on a connection to which peer.
LEMMA WaitsOn ==
  ASSUME IInv, NEW n \in Nodes,
         \/ main[n].at \in {"check", "id"}
         \/ main[n].at \in {"count", "share"} /\ main[n].conn # NoConn
  PROVE  LET c == main[n].conn
             m == conns[c].to
         IN  /\ c \in ConnIds /\ m \in Peers(n) /\ link[n][m] = c /\ conns[c].from = n
             /\ "from" \in conns[c].open /\ phase[n] # "down"
             /\ main[n].at # "id" =>
                  conns[c].server # "backlog" /\ \A j \in 1..Len(conns[c].resp) : conns[c].resp[j] = Ping
<1>1. MainInPlace(n) /\ main[n] \in MainThread
  BY DEF IInv, MainsInPlace, FieldsTyped
<1>2. Waiting(n)
  BY <1>1 DEF MainInPlace
<1> DEFINE c == main[n].conn
           m == conns[c].to
<1>3. c # NoConn /\ m \in Nodes /\ link[n][m] = c
  BY <1>2 DEF Waiting
<1>4. c \in ConnIds
  BY <1>1, <1>3 DEF MainThread
<1>5. phase[n] # "down" /\ n # m /\ conns[c].from = n /\ "from" \in conns[c].open
  BY <1>3 DEF IInv, LinksHeld
<1>6. main[n].at # "id" => IdKnown(n, c)
  BY <1>3 DEF IInv, IdsComeFirst, AskingId
<1> QED
  BY <1>3, <1>4, <1>5, <1>6 DEF IdKnown, Peers

\* What c is like once the answer to a ping was read from it.
Read(cs, c) ==
  /\ cs \in [ConnIds -> Connection] /\ \A d \in ConnIds : d # c => cs[d] = conns[d]
  /\ cs[c].from = conns[c].from /\ cs[c].to = conns[c].to /\ cs[c].open = conns[c].open
  /\ cs[c].server = conns[c].server /\ cs[c].input = conns[c].input
  /\ \A j \in 1..Len(cs[c].resp) : cs[c].resp[j] = Ping
  /\ cs[c].resp # <<>> => conns[c].resp # <<>>

LEMMA ReadsOnly ==
  ASSUME IInv, NEW n \in Nodes, NEW k \in Nat, main[n].at \in {"check", "count", "share"},
         main[n].at # "check" => main[n].conn # NoConn
  PROVE  Read(Received(main[n].conn, k), main[n].conn)
<1> DEFINE c == main[n].conn
           q == Rest(conns[c].resp, k)
<1>1. /\ c \in ConnIds
      /\ \A j \in 1..Len(conns[c].resp) : conns[c].resp[j] = Ping
  BY WaitsOn
<1>2. conns \in [ConnIds -> Connection] /\ conns[c] \in Connection /\ conns[c].resp \in Seq(Message)
  BY <1>1 DEF IInv, FieldsTyped, Connection
<1>3. /\ Received(c, k) = [conns EXCEPT ![c] = [@ EXCEPT !.resp = q]]
      /\ [conns[c] EXCEPT !.resp = q] \in Connection /\ q \in Seq(Message)
  BY <1>1, <1>2, ReceivedOnly
<1>4. /\ \A j \in 1..Len(q) : j + k \in 1..Len(conns[c].resp) /\ q[j] = conns[c].resp[j + k]
      /\ Len(conns[c].resp) <= k => q = <<>>
  BY <1>2, RestOfSeq
<1>5. \A j \in 1..Len(q) : q[j] = Ping
  BY <1>1, <1>4
<1>6. q # <<>> => conns[c].resp # <<>>
  BY <1>2, <1>4
<1> HIDE DEF q
<1>7. Received(c, k) \in [ConnIds -> Connection]
  BY <1>1, <1>2, <1>3
<1>8. \A d \in ConnIds : d # c => Received(c, k)[d] = conns[d]
  BY <1>1, <1>2, <1>3
<1>9. Received(c, k)[c] = [conns[c] EXCEPT !.resp = q]
  BY <1>1, <1>2, <1>3
<1>10. /\ Received(c, k)[c].from = conns[c].from /\ Received(c, k)[c].to = conns[c].to
       /\ Received(c, k)[c].open = conns[c].open /\ Received(c, k)[c].server = conns[c].server
       /\ Received(c, k)[c].input = conns[c].input /\ Received(c, k)[c].resp = q
  BY <1>2, <1>9 DEF Connection
<1> QED
  BY <1>5, <1>6, <1>7, <1>8, <1>10 DEF Read

\* The peers that may answer are the fewer.
LEMMA ReadAble ==
  ASSUME IInv, NEW c \in ConnIds, Read(conns', c), link' = link
  PROVE  \A n \in Nodes : Able(n)' \subseteq Able(n)
<1>1. \A p, q \in Nodes : link[p][q] # NoConn => link[p][q] \in ConnIds
  BY DEF IInv, FieldsTyped
<1>2. \A d \in ConnIds : conns'[d].resp # <<>> \/ "to" \in conns'[d].open =>
                         conns[d].resp # <<>> \/ "to" \in conns[d].open
  BY DEF Read
<1> QED
  BY <1>1, <1>2 DEF Able, Peers

LEMMA NextInRest ==
  ASSUME IInv, NEW n \in Nodes, NEW S, Linked(n, S) # {}
  PROVE  LET m == NextOf(Linked(n, S))
         IN  m \in S /\ link[n][m] # NoConn
<1>1. NextOf(Linked(n, S)) \in Linked(n, S)
  BY DEF NextOf
<1> QED
  BY <1>1 DEF Linked

LEMMA AskNextStep ==
  ASSUME IInv, NEW n \in Nodes, AskNext(n)
  PROVE  IInv'
<1> DEFINE rest == Linked(n, main[n].rest)
           m == NextOf(rest)
           c == link[n][m]
           t == [main[n] EXCEPT !.conn = c, !.rest = rest \ {m}]
<1>1. /\ main[n] \in MainThread /\ MainInPlace(n) /\ SlotsSufficeAt(n)
      /\ conns \in [ConnIds -> Connection] /\ main \in [Nodes -> MainThread]
      /\ \A p, q \in Nodes : link[p][q] \in ConnIds \cup {NoConn}
  BY DEF IInv, FieldsTyped, MainsInPlace, SlotsSuffice
<1>2. /\ main[n].at \in {"count", "share"} /\ main[n].conn = NoConn /\ rest # {}
      /\ conns' = Sent(conns, c, Ping) /\ main' = [main EXCEPT ![n] = t]
      /\ UNCHANGED <<procVars, loading, link, known, db, clock, crashes>>
  BY DEF AskNext
<1>3. /\ m \in main[n].rest /\ c # NoConn /\ m \in rest
      /\ rest \subseteq main[n].rest /\ main[n].rest \subseteq Peers(n)
  BY <1>1, <1>2, NextInRest DEF Linked, MainInPlace
<1>4. m \in Peers(n) /\ m \in Nodes /\ c \in ConnIds
  BY <1>1, <1>3 DEF Peers
<1>5. conns[c].to = m /\ "from" \in conns[c].open /\ phase[n] # "down"
  BY <1>3, <1>4 DEF IInv, LinksHeld
<1>6. /\ conns' \in [ConnIds -> Connection] /\ \A d \in ConnIds : d # c => conns'[d] = conns[d]
      /\ ButReq(conns, conns', c)
  BY <1>1, <1>2, <1>4, SentOnly, MessagesTyped
<1>7. \A j \in 1..Len(conns[c].resp) : conns[c].resp[j] = Ping
  BY <1>2, <1>3, <1>4 DEF IInv, IdsComeFirst, AskingId, IdKnown
<1>8. Read(conns', c)
  BY <1>6, <1>7 DEF Read, ButReq
<1>9. /\ t \in MainThread /\ t.at = main[n].at /\ t.conn = c /\ t.rest = rest \ {m}
      /\ t.count = main[n].count /\ t.slot = main[n].slot
  BY <1>1, <1>3, <1>4 DEF MainThread
<1>10. main'[n] = t
  BY <1>1, <1>2
<1> HIDE DEF t
<1>14. /\ main'[n].conn = c /\ main'[n].rest = rest \ {m} /\ conns'[c].to = m
      /\ link'[n][m] = c
  BY <1>2, <1>5, <1>6, <1>9, <1>10 DEF ButReq
<1> HIDE DEF c, m
<1>11. MainInPlace(n)'
  <2>1. Waiting(n)'
    BY <1>3, <1>4, <1>14 DEF Waiting
  <2>2. conns'[c].to \notin t.rest
    BY <1>5, <1>6, <1>9 DEF ButReq
  <2> QED
    BY <1>1, <1>2, <1>3, <1>5, <1>9, <1>10, <2>1, <2>2 DEF MainInPlace, procVars
<1>12. SlotsSufficeAt(n)'
  <2>1. Left(n) = main[n].rest /\ Left(n)' = rest
    <3>1. Left(n) = main[n].rest
      BY <1>2 DEF Left
    <3>2. Left(n)' = (rest \ {m}) \cup {m}
      BY <1>3, <1>14 DEF Left
    <3> QED
      BY <1>3, <3>1, <3>2
  <2>2. Able(n)' \subseteq Able(n)
    BY <1>2, <1>4, <1>8, ReadAble
  <2>3. Able(n)' \ rest \subseteq Able(n) \ main[n].rest
    BY <2>2 DEF Able, Linked
  <2>4. Able(n)' \cap rest \subseteq Able(n) \cap main[n].rest
    BY <1>3, <2>2
  <2>5. Able(n) \in SUBSET Nodes /\ main[n].rest \in SUBSET Nodes
    BY <1>1 DEF Able, Peers, MainThread
  <2>6. /\ Cardinality(Able(n)' \ rest) <= Cardinality(Able(n) \ main[n].rest)
        /\ Cardinality(Able(n)' \cap rest) <= Cardinality(Able(n) \cap main[n].rest)
        /\ Cardinality(rest) <= Cardinality(main[n].rest)
    BY <1>3, <2>3, <2>4, <2>5, SmallerSubset
  <2>7. /\ Cardinality(Able(n)' \ rest) \in Nat /\ Cardinality(Able(n) \ main[n].rest) \in Nat
        /\ Cardinality(Able(n)' \cap rest) \in Nat /\ Cardinality(Able(n) \cap main[n].rest) \in Nat
        /\ Cardinality(rest) \in Nat /\ Cardinality(main[n].rest) \in Nat
        /\ Cardinality(Nodes) \in Nat
    BY <1>3, <2>2, <2>5, NodesFinite
  <2>8. main[n].count \in Nat /\ main[n].slot \in Nat
    BY <1>1 DEF MainThread
  <2> HIDE DEF rest
  <2> QED
    BY <1>1, <1>9, <1>10, <2>1, <2>6, <2>7, <2>8 DEF SlotsSufficeAt
<1>13. main[n].at # "id" /\ t.at # "id"
  BY <1>2, <1>9
<1> QED
  BY <1>2, <1>4, <1>8, <1>9, <1>11, <1>12, <1>13, UsedKeeps DEF Read, c

LEMMA SentRead ==
  ASSUME NEW c \in ConnIds, NEW cs, Read(cs, c), NEW msg \in Message
  PROVE  Read(Sent(cs, c, msg), c)
<1>1. cs \in [ConnIds -> Connection]
  BY DEF Read
<1>2. /\ Sent(cs, c, msg) \in [ConnIds -> Connection]
      /\ \A d \in ConnIds : d # c => Sent(cs, c, msg)[d] = cs[d]
      /\ ButReq(cs, Sent(cs, c, msg), c)
  BY <1>1, SentOnly
<1> QED
  BY <1>2 DEF Read, ButReq

LEMMA OneMoreOrLess ==
  ASSUME NEW S \in SUBSET Nodes, NEW m \in Nodes
  PROVE  /\ Cardinality(S \cup {m}) <= Cardinality(S) + 1
         /\ m \in S => Cardinality(S \ {m}) = Cardinality(S) - 1
<1>1. IsFiniteSet(S) /\ Cardinality(S) \in Nat
  BY NodesFinite
<1> QED
  BY <1>1, FS_AddElement, FS_RemoveElement

\* A peer less to hear of leaves room for one more that answered.
LEMMA RoomForOneLess ==
  ASSUME NEW x \in Nat, NEW y \in Nat, NEW u \in Nat, NEW w, NEW N \in Nat,
         w = u + 1, x + w <= N, y = x \/ y = x + 1
  PROVE  y + u <= N
OBVIOUS

LEMMA FewerFit ==
  ASSUME NEW x \in Nat, NEW u \in Nat, NEW v \in Nat, NEW N \in Nat, x + u <= N, v <= u
  PROVE  x + v <= N
OBVIOUS

\* The read of an answer in load_database, or of the end of a connection.
LEMMA AnswerCounted ==
  ASSUME IInv, NEW n \in Nodes, main[n].at \in {"count", "share"}, main[n].conn # NoConn,
         Read(conns', main[n].conn), link' = link, UNCHANGED procVars,
         NEW t \in MainThread, main' = [main EXCEPT ![n] = t],
         t.at = main[n].at, t.conn = NoConn, t.rest = main[n].rest,
         \/ /\ main[n].at = "count"
            /\ t.count = main[n].count + 1 /\ t.slot = main[n].slot
         \/ /\ main[n].at = "share" /\ conns[main[n].conn].resp # <<>>
            /\ t.count = main[n].count /\ t.slot = main[n].slot + 1
         \/ /\ conns[main[n].conn].resp = <<>> /\ "to" \notin conns[main[n].conn].open
            /\ t.count = main[n].count /\ t.slot = main[n].slot
  PROVE  MainInPlace(n)' /\ SlotsSufficeAt(n)'
<1> DEFINE c == main[n].conn
           m == conns[c].to
           rest == main[n].rest
<1>1. /\ main[n] \in MainThread /\ MainInPlace(n) /\ SlotsSufficeAt(n)
      /\ main \in [Nodes -> MainThread]
  BY DEF IInv, FieldsTyped, MainsInPlace, SlotsSuffice
<1>2. c \in ConnIds /\ m \in Peers(n) /\ link[n][m] = c /\ phase[n] # "down"
  BY WaitsOn
<1>3. main'[n] = t
  BY <1>1
<1>4. m \notin rest /\ m \in Nodes /\ rest \subseteq Nodes
  BY <1>1, <1>2 DEF MainInPlace, Peers
<1>5. MainInPlace(n)'
  BY <1>1, <1>2, <1>3 DEF MainInPlace, procVars
<1>6. Left(n) = rest \cup {m} /\ Left(n)' = rest
  <2>1. Left(n) = rest \cup {m}
    BY DEF Left
  <2>2. Left(n)' = rest
    BY <1>3 DEF Left
  <2> QED
    BY <2>1, <2>2
<1>7. Able(n)' \subseteq Able(n) /\ Able(n) \in SUBSET Nodes
  BY <1>2, ReadAble, LeftTyped
<1>8. m \in Able(n) <=> conns[c].resp # <<>> \/ "to" \in conns[c].open
  BY <1>2 DEF Able, NoConn, ConnIds
<1> DEFINE A == Able(n)
           B == Able(n)'
<1>9. \A S \in SUBSET Nodes : Cardinality(S) \in Nat
  BY NodesFinite
<1>10. Cardinality(rest \cup {m}) = Cardinality(rest) + 1
  <2> DEFINE S == rest \cup {m}
  <2>1. S \ {m} = rest /\ S \in SUBSET Nodes /\ m \in S /\ rest \in SUBSET Nodes
    BY <1>4
  <2> HIDE DEF S, rest
  <2>2. Cardinality(S \ {m}) = Cardinality(S) - 1
    BY <1>4, <2>1, OneMoreOrLess
  <2>3. Cardinality(S) \in Nat /\ Cardinality(rest) \in Nat
    BY <1>9, <2>1
  <2>4. Cardinality(rest) = Cardinality(S) - 1
    BY <2>1, <2>2
  <2>5. Cardinality(S) = Cardinality(rest) + 1
    BY <2>3, <2>4
  <2> QED
    BY <2>5 DEF S
<1>11. /\ main[n].count \in Nat /\ main[n].slot \in Nat
       /\ t.count \in Nat /\ t.slot \in Nat
  BY <1>1 DEF MainThread
<1>12. /\ Cardinality(rest) \in Nat /\ Cardinality(Nodes) \in Nat
       /\ Cardinality(B \ rest) \in Nat /\ Cardinality(A \ (rest \cup {m})) \in Nat
       /\ Cardinality(B \cap rest) \in Nat /\ Cardinality(A \cap (rest \cup {m})) \in Nat
  BY <1>4, <1>7, <1>9
<1> HIDE DEF c, m, rest, A, B
<1>13. CASE main[n].at = "count"
  <2>1. t.count + Cardinality(rest) <= Cardinality(Nodes)
    <3>1. main[n].count + Cardinality(rest \cup {m}) <= Cardinality(Nodes)
      BY <1>1, <1>6, <1>13 DEF SlotsSufficeAt
    <3>2. t.count = main[n].count \/ t.count = main[n].count + 1
      BY <1>13
    <3> QED
      BY <1>10, <1>11, <1>12, <3>1, <3>2, RoomForOneLess
  <2>2. 1 + Cardinality(B \ rest) <= t.count
    <3>1. 1 + Cardinality(A \ (rest \cup {m})) <= main[n].count
      BY <1>1, <1>6, <1>13 DEF SlotsSufficeAt, A
    <3>2. CASE t.count = main[n].count + 1
      <4>1. B \ rest \subseteq (A \ (rest \cup {m})) \cup {m}
        BY <1>7 DEF A, B
      <4>2. Cardinality(B \ rest) <= Cardinality((A \ (rest \cup {m})) \cup {m})
        BY <1>4, <1>7, <4>1, SmallerSubset DEF A
      <4>3. Cardinality((A \ (rest \cup {m})) \cup {m}) <= Cardinality(A \ (rest \cup {m})) + 1
        BY <1>4, <1>7, OneMoreOrLess DEF A
      <4>4. Cardinality((A \ (rest \cup {m})) \cup {m}) \in Nat
        BY <1>4, <1>7, <1>9 DEF A
      <4> QED
        BY <1>11, <1>12, <3>1, <3>2, <4>2, <4>3, <4>4
    <3>3. CASE t.count = main[n].count /\ m \notin A
      <4>1. B \ rest \subseteq A \ (rest \cup {m})
        BY <1>7, <3>3 DEF A, B
      <4>2. Cardinality(B \ rest) <= Cardinality(A \ (rest \cup {m}))
        BY <1>7, <4>1, SmallerSubset DEF A
      <4> QED
        BY <1>11, <1>12, <3>1, <3>3, <4>2
    <3> QED
      BY <1>8, <1>13, <3>2, <3>3 DEF A, c
  <2>3. main'[n].at = "count" /\ main'[n].count = t.count
    BY <1>3, <1>13
  <2>4. 1 + Cardinality(Able(n)' \ Left(n)') <= main'[n].count
    BY <1>6, <2>2, <2>3 DEF B
  <2>5. main'[n].count + Cardinality(Left(n)') <= Cardinality(Nodes)
    BY <1>6, <2>1, <2>3
  <2>6. SlotsSufficeAt(n)'
    BY <2>3, <2>4, <2>5 DEF SlotsSufficeAt
  <2> QED
    BY <1>5, <2>6
<1>14. CASE main[n].at = "share"
  <2>1. t.slot + Cardinality(rest) <= Cardinality(Nodes) /\ t.count <= Cardinality(Nodes)
    <3>1. /\ main[n].slot + Cardinality(rest \cup {m}) <= Cardinality(Nodes)
          /\ main[n].count <= Cardinality(Nodes)
      BY <1>1, <1>6, <1>14 DEF SlotsSufficeAt
    <3>2. t.count = main[n].count /\ (t.slot = main[n].slot \/ t.slot = main[n].slot + 1)
      BY <1>14
    <3> QED
      BY <1>10, <1>11, <1>12, <3>1, <3>2, RoomForOneLess
  <2>2. t.slot + Cardinality(B \cap rest) <= t.count
    <3>1. main[n].slot + Cardinality(A \cap (rest \cup {m})) <= main[n].count
      BY <1>1, <1>6, <1>14 DEF SlotsSufficeAt, A
    <3>2. CASE t.slot = main[n].slot + 1 /\ t.count = main[n].count /\ m \in A
      <4>1. B \cap rest \subseteq (A \cap (rest \cup {m})) \ {m}
        BY <1>4, <1>7 DEF A, B
      <4>2. Cardinality(B \cap rest) <= Cardinality((A \cap (rest \cup {m})) \ {m})
        BY <1>7, <4>1, SmallerSubset DEF A
      <4>3. Cardinality((A \cap (rest \cup {m})) \ {m}) = Cardinality(A \cap (rest \cup {m})) - 1
        BY <1>4, <1>7, <3>2, OneMoreOrLess DEF A
      <4>4. main[n].slot + 1 + Cardinality(B \cap rest) <= main[n].count
        <5> DEFINE u == Cardinality(A \cap (rest \cup {m}))
                   v == Cardinality(B \cap rest)
        <5>1. u \in Nat /\ v \in Nat /\ v <= u - 1 /\ main[n].slot + u <= main[n].count
          BY <1>12, <3>1, <4>2, <4>3
        <5> HIDE DEF u, v
        <5>2. main[n].slot + 1 + v <= main[n].count
          BY <1>11, <5>1
        <5> QED
          BY <5>2 DEF v
      <4> QED
        BY <3>2, <4>4
    <3>3. CASE t.slot = main[n].slot /\ t.count = main[n].count
      <4>1. Cardinality(B \cap rest) <= Cardinality(A \cap (rest \cup {m}))
        <5>1. B \cap rest \subseteq A \cap (rest \cup {m})
          BY <1>7 DEF A, B
        <5> QED
          BY <1>7, <5>1, SmallerSubset DEF A
      <4>2. main[n].slot + Cardinality(B \cap rest) <= main[n].count
        BY <1>11, <1>12, <3>1, <4>1, FewerFit
      <4> QED
        BY <3>3, <4>2
    <3> QED
      BY <1>8, <1>14, <3>2, <3>3 DEF A, c
  <2> QED
    BY <1>3, <1>5, <1>6, <1>14, <2>1, <2>2 DEF SlotsSufficeAt, B
<1> QED
  BY <1>5, <1>13, <1>14

\* Only an end is taken for a ping that fails: all there is to read are
\* answers to pings.
LEMMA FailsAtEnd ==
  ASSUME IInv, NEW n \in Nodes, NEW k \in 0..MaxRead,
         main[n].at \in {"check", "count", "share"},
         main[n].at # "check" => main[n].conn # NoConn
  PROVE  /\ PingFails(main[n].conn, k) => k = 0 /\ Dead(main[n].conn)
         /\ PingAnswered(main[n].conn, k) => conns[main[n].conn].resp # <<>>
<1> DEFINE c == main[n].conn
<1>1. c \in ConnIds /\ \A j \in 1..Len(conns[c].resp) : conns[c].resp[j] = Ping
  BY WaitsOn
<1>2. conns[c].resp \in Seq(Message)
  BY <1>1 DEF IInv, FieldsTyped, Connection
<1> HIDE DEF c
<1>3. ASSUME k \in Reads(conns[c].resp) PROVE PingAnswered(c, k) /\ conns[c].resp # <<>>
  <2>1. k \in 1..MaxRead /\ k <= Len(conns[c].resp) /\ Len(conns[c].resp) \in Nat
    BY <1>2, <1>3 DEF Reads
  <2>2. 1 \in 1..Len(conns[c].resp)
    BY <2>1, ConnectionAssumption
  <2>3. Head(conns[c].resp) = Ping
    BY <1>1, <1>2, <2>2
  <2> QED
    BY <1>2, <1>3, <2>2, <2>3 DEF PingAnswered
<1> QED
  BY <1>3 DEF PingFails, PingAnswered, c

LEMMA AnswerStep ==
  ASSUME IInv, NEW n \in Nodes, NEW k \in 0..MaxRead,
         Count(n, k) \/ Deal(n, k) \/ PassOver(n, k)
  PROVE  IInv'
<1> DEFINE c == main[n].conn
           m == conns[c].to
<1>1. /\ main[n].at \in {"count", "share"} /\ main[n].conn # NoConn
      /\ UNCHANGED <<procVars, loading, link, known, db, clock, crashes>>
  BY DEF Count, Deal, PassOver
<1>2. c \in ConnIds /\ m \in Nodes /\ link[n][m] = c
  BY <1>1, WaitsOn DEF Peers
<1>3. k \in Nat
  BY ConnectionAssumption
<1>4. Read(Received(c, k), c)
  BY <1>1, <1>3, ReadsOnly
<1>5. main \in [Nodes -> MainThread] /\ main[n] \in MainThread
  BY DEF IInv, FieldsTyped
<1>6. PICK t \in MainThread :
        /\ main' = [main EXCEPT ![n] = t] /\ Read(conns', c)
        /\ t.at = main[n].at /\ t.conn = NoConn /\ t.rest = main[n].rest
        /\ \/ /\ main[n].at = "count"
              /\ t.count = main[n].count + 1 /\ t.slot = main[n].slot
           \/ /\ main[n].at = "share" /\ conns[c].resp # <<>>
              /\ t.count = main[n].count /\ t.slot = main[n].slot + 1
           \/ /\ conns[c].resp = <<>> /\ "to" \notin conns[c].open
              /\ t.count = main[n].count /\ t.slot = main[n].slot
  <2>1. CASE Count(n, k)
    <3> DEFINE i == main[n].count + 1
               t == [main[n] EXCEPT !.conn = NoConn, !.count = i]
    <3>9. i \in Nat
      BY <1>5 DEF MainThread
    <3> HIDE DEF i
    <3>1. /\ t \in MainThread /\ t.at = main[n].at /\ t.conn = NoConn /\ t.rest = main[n].rest
          /\ t.count = i /\ t.slot = main[n].slot
      BY <1>5, <3>9 DEF MainThread, NoConn
    <3>2. main[n].at = "count" /\ conns' = Received(c, k) /\ main' = [main EXCEPT ![n] = t]
      BY <2>1 DEF Count, i
    <3> HIDE DEF t
    <3> QED
      BY <1>4, <3>1, <3>2 DEF i
  <2>2. CASE Deal(n, k)
    <3> DEFINE i == main[n].slot + 1
               t == [main[n] EXCEPT !.conn = NoConn, !.slot = i]
               load == Msg("LOAD", Share(main[n].slot, main[n].count))
    <3>9. i \in Nat
      BY <1>5 DEF MainThread
    <3> HIDE DEF i
    <3>1. /\ t \in MainThread /\ t.at = main[n].at /\ t.conn = NoConn /\ t.rest = main[n].rest
          /\ t.slot = i /\ t.count = main[n].count
      BY <1>5, <3>9 DEF MainThread, NoConn
    <3>2. /\ main[n].at = "share" /\ conns' = Sent(Received(c, k), c, load)
          /\ main' = [main EXCEPT ![n] = t] /\ PingAnswered(c, k)
      BY <2>2 DEF Deal, i
    <3>3. conns[c].resp # <<>>
      BY <1>1, <3>2, FailsAtEnd
    <3>4. load \in Message
      <4>1. Share(main[n].slot, main[n].count) \in SUBSET Fragments
        BY DEF Share
      <4> QED
        BY <4>1, MessagesTyped
    <3> HIDE DEF t, load
    <3>5. Read(conns', c)
      BY <1>2, <1>4, <3>2, <3>4, SentRead
    <3> QED
      BY <3>1, <3>2, <3>3, <3>5 DEF i
  <2>3. CASE PassOver(n, k)
    <3> DEFINE t == [main[n] EXCEPT !.conn = NoConn]
    <3>1. /\ t \in MainThread /\ t.at = main[n].at /\ t.conn = NoConn /\ t.rest = main[n].rest
          /\ t.slot = main[n].slot /\ t.count = main[n].count
      BY <1>5 DEF MainThread, NoConn
    <3>2. conns' = Received(c, k) /\ main' = [main EXCEPT ![n] = t] /\ PingFails(c, k)
      BY <2>3 DEF PassOver, PassedOver
    <3>3. conns[c].resp = <<>> /\ "to" \notin conns[c].open
      BY <1>1, <3>2, FailsAtEnd DEF Dead
    <3> HIDE DEF t
    <3> QED
      BY <1>4, <3>1, <3>2, <3>3
  <2> QED
    BY <2>1, <2>2, <2>3
<1>7. MainInPlace(n)' /\ SlotsSufficeAt(n)'
  BY <1>1, <1>6, AnswerCounted
<1> HIDE DEF c, m
<1> QED
  BY <1>1, <1>2, <1>6, <1>7, UsedKeeps DEF Read

\* connect_with_peer pings, and all is well.
LEMMA TimerPingStep ==
  ASSUME IInv, NEW n \in Nodes, NEW m \in Peers(n), TimerPing(n, m)
  PROVE  IInv'
<1> DEFINE c == link[n][m]
           t == Awaiting(n, c)
<1>1. /\ Idle(n) /\ c # NoConn /\ conns' = Sent(conns, c, Ping) /\ main' = [main EXCEPT ![n] = t]
      /\ UNCHANGED <<procVars, loading, link, known, db, clock, crashes>>
  BY DEF TimerPing
<1>2. /\ main \in [Nodes -> MainThread] /\ conns \in [ConnIds -> Connection]
      /\ m \in Nodes /\ c \in ConnIds
  BY <1>1 DEF IInv, FieldsTyped, Peers
<1>3. conns[c].to = m
  BY <1>1, <1>2 DEF IInv, LinksHeld
<1>4. /\ t \in MainThread /\ t.at = "check" /\ t.conn = c /\ t.rest = {}
      /\ t.count = 0 /\ t.slot = 0
  BY <1>2 DEF Awaiting, Loop, MainThread, NoConn
<1>5. \A j \in 1..Len(conns[c].resp) : conns[c].resp[j] = Ping
  BY <1>1, <1>2 DEF IInv, IdsComeFirst, AskingId, IdKnown, Idle
<1>6. /\ conns' \in [ConnIds -> Connection] /\ \A d \in ConnIds : d # c => conns'[d] = conns[d]
      /\ ButReq(conns, conns', c)
  BY <1>1, <1>2, SentOnly, MessagesTyped
<1>7. Read(conns', c)
  BY <1>5, <1>6 DEF Read, ButReq
<1>8. main'[n] = t /\ phase[n] = "up" /\ main[n].at = "loop"
  BY <1>1, <1>2 DEF Idle
<1>9. conns'[c].to = m /\ link'[n][m] = c
  BY <1>1, <1>3, <1>6 DEF ButReq
<1> HIDE DEF c, t
<1>10. Waiting(n)'
  BY <1>1, <1>2, <1>4, <1>8, <1>9 DEF Waiting
<1>11. MainInPlace(n)'
  BY <1>1, <1>4, <1>8, <1>10 DEF MainInPlace, procVars
<1>12. SlotsSufficeAt(n)'
  BY <1>4, <1>8 DEF SlotsSufficeAt
<1>13. c = link[n][m]
  BY DEF c
<1> QED
  BY <1>1, <1>2, <1>4, <1>7, <1>8, <1>11, <1>12, <1>13, UsedKeeps DEF Read

LEMMA ValidStep ==
  ASSUME IInv, NEW n \in Nodes, NEW k \in 0..MaxRead, Valid(n, k)
  PROVE  IInv'
<1> DEFINE c == main[n].conn
           m == conns[c].to
<1>1. /\ main[n].at = "check" /\ conns' = Received(c, k) /\ main' = [main EXCEPT ![n] = Loop]
      /\ UNCHANGED <<procVars, loading, link, known, db, clock, crashes>>
  BY DEF Valid
<1>2. c \in ConnIds /\ m \in Nodes /\ link[n][m] = c /\ phase[n] # "down"
  BY <1>1, WaitsOn DEF Peers
<1>3. Read(conns', c)
  BY <1>1, ReadsOnly, ConnectionAssumption
<1>4. main \in [Nodes -> MainThread]
  BY DEF IInv, FieldsTyped
<1>5. /\ Loop \in MainThread /\ Loop.at = "loop" /\ Loop.conn = NoConn /\ Loop.rest = {}
      /\ Loop.count = 0 /\ Loop.slot = 0
  BY DEF Loop, MainThread, NoConn
<1>6. main'[n] = Loop
  BY <1>1, <1>4
<1>7. MainInPlace(n)'
  BY <1>5, <1>6 DEF MainInPlace
<1>8. SlotsSufficeAt(n)'
  BY <1>5, <1>6 DEF SlotsSufficeAt
<1> HIDE DEF c, m
<1> QED
  BY <1>1, <1>2, <1>3, <1>5, <1>7, <1>8, UsedKeeps DEF Read

-----------------------------------------------------------------------------
\* The steps of the main thread on its own.

\* A process that does nothing stays as it is while others act.
LEMMA OthersKeep ==
  ASSUME IInv, NEW p \in Nodes, main'[p] = main[p], phase'[p] = phase[p], link'[p] = link[p],
         p \in leaders => p \in leaders',
         \A q \in Nodes : LET d == link[p][q] IN d # NoConn =>
           /\ conns'[d].to = conns[d].to
           /\ conns'[d].resp # <<>> \/ "to" \in conns'[d].open =>
                conns[d].resp # <<>> \/ "to" \in conns[d].open
  PROVE  MainInPlace(p)' /\ SlotsSufficeAt(p)'
<1>1. MainInPlace(p)
  BY DEF IInv, MainsInPlace
<1>2. Waiting(p) => Waiting(p)' /\ conns'[main[p].conn].to = conns[main[p].conn].to
  BY DEF Waiting
<1>3. MainInPlace(p)'
  BY <1>1, <1>2 DEF MainInPlace
<1>4. Able(p)' \subseteq Able(p)
  BY DEF Able, Peers
<1>5. main[p].at \in {"count", "share"} /\ main[p].conn # NoConn =>
        conns'[main[p].conn].to = conns[main[p].conn].to
  BY <1>1, <1>2 DEF MainInPlace
<1>6. SlotsSufficeAt(p)'
  BY <1>4, <1>5, SlotsKept
<1> QED
  BY <1>3, <1>6

\* The first round of load_database begins with the leader alone.
LEMMA BeginLoadSlots ==
  ASSUME NEW n \in Nodes,
         main'[n] = [Loop EXCEPT !.at = "count", !.count = 1, !.rest = Peers(n)]
  PROVE  /\ SlotsSufficeAt(n)' /\ main'[n] \in MainThread
         /\ main'[n].at = "count" /\ main'[n].conn = NoConn /\ main'[n].rest = Peers(n)
         /\ main'[n].slot = 0
<1> DEFINE t == [Loop EXCEPT !.at = "count", !.count = 1, !.rest = Peers(n)]
<1>1. /\ t \in MainThread /\ t.at = "count" /\ t.conn = NoConn /\ t.rest = Peers(n)
      /\ t.count = 1 /\ t.slot = 0
  BY DEF Loop, MainThread, NoConn, Peers
<1> HIDE DEF t
<1>2. main'[n] = t
  BY DEF t
<1>3. Left(n)' = Peers(n)
  BY <1>1, <1>2 DEF Left
<1>4. Able(n)' \ Peers(n) = {}
  BY DEF Able
<1>5. Cardinality(Peers(n)) = Cardinality(Nodes) - 1 /\ Cardinality(Nodes) \in Nat
  BY NodesFinite, FS_RemoveElement DEF Peers
<1>6. Cardinality({}) = 0
  BY FS_EmptySet
<1>7. 1 + Cardinality(Able(n)' \ Peers(n)) <= 1
  BY <1>4, <1>6
<1>8. 1 + Cardinality(Peers(n)) <= Cardinality(Nodes)
  BY <1>5
<1> QED
  BY <1>1, <1>2, <1>3, <1>7, <1>8 DEF SlotsSufficeAt

LEMMA MainKeeps ==
  ASSUME IInv, NEW n \in Nodes, main[n].at # "id",
         NEW t \in MainThread, main' = [main EXCEPT ![n] = t], t.at # "id",
         UNCHANGED <<conns, leaders, link, known>>,
         \A p \in Nodes : p # n => phase'[p] = phase[p],
         \A p \in Nodes : phase[p] = "up" => phase'[p] = "up" /\ id'[p] = id[p],
         phase[n] # "down" => phase'[n] # "down",
         phase' \in [Nodes -> {"down", "booting", "up"}], id' \in [Nodes -> Ids],
         db' \in [Nodes -> SUBSET Fragments], clock' \in 0..MaxTime, crashes' \in 0..MaxCrashes,
         loading' \subseteq loading \cup {n}, phase'[n] # "down",
         MainInPlace(n)', SlotsSufficeAt(n)'
  PROVE  IInv'
<1>1. main \in [Nodes -> MainThread]
  BY DEF IInv, FieldsTyped
<1>2. FieldsTyped'
  BY <1>1 DEF IInv, FieldsTyped
<1>3. \A p \in Nodes : phase[p] # "down" => phase'[p] # "down"
  OBVIOUS
<1>4. EndsHeld'
  <2> SUFFICES ASSUME NEW d \in ConnIds
               PROVE  EndHeld(d)'
    BY DEF EndsHeld
  <2>1. EndHeld(d)
    BY DEF IInv, EndsHeld
  <2>2. conns[d].open \in SUBSET {"from", "to"}
    BY DEF IInv, FieldsTyped, Connection
  <2> QED
    BY <1>3, <2>1, <2>2 DEF EndHeld
<1>5. LinksHeld'
  BY <1>3 DEF IInv, LinksHeld
<1>6. IdsComeFirst'
  <2> SUFFICES ASSUME NEW p \in Nodes, NEW q \in Nodes, link[p][q] # NoConn
               PROVE  IF AskingId(p, link[p][q])' THEN IdComing(link[p][q])'
                      ELSE IdKnown(p, link[p][q])'
    BY DEF IdsComeFirst, AskingId
  <2> DEFINE d == link[p][q]
  <2>1. d \in ConnIds /\ conns[d].to = q
    BY DEF IInv, LinksHeld, FieldsTyped
  <2>2. IF AskingId(p, d) THEN IdComing(d) ELSE IdKnown(p, d)
    BY DEF IInv, IdsComeFirst
  <2>3. AskingId(p, d)' <=> AskingId(p, d)
    BY <1>1 DEF AskingId
  <2>4. "to" \in conns[d].open => id'[conns[d].to] = id[conns[d].to]
    BY <2>1 DEF IInv, EndsHeld, EndHeld
  <2> QED
    BY <2>2, <2>3, <2>4 DEF IdComing, IdKnown
<1>7. \A p \in Nodes : MainInPlace(p)' /\ SlotsSufficeAt(p)'
  <2> SUFFICES ASSUME NEW p \in Nodes, p # n
               PROVE  MainInPlace(p)' /\ SlotsSufficeAt(p)'
    OBVIOUS
  <2>1. main'[p] = main[p]
    BY <1>1
  <2> QED
    BY <2>1, OthersKeep
<1>8. MainsInPlace'
  BY <1>3, <1>7 DEF IInv, MainsInPlace
<1> QED
  BY <1>2, <1>4, <1>5, <1>6, <1>7, <1>8 DEF IInv, SlotsSuffice

LEMMA StartDealingStep ==
  ASSUME IInv, NEW n \in Nodes, StartDealing(n)
  PROVE  IInv'
<1> DEFINE t == [main[n] EXCEPT !.at = "share", !.slot = FirstPeerSlot, !.rest = Peers(n)]
<1>1. /\ main \in [Nodes -> MainThread] /\ main[n] \in MainThread
      /\ MainInPlace(n) /\ SlotsSufficeAt(n)
  BY DEF IInv, FieldsTyped, MainsInPlace, SlotsSuffice
<1>2. /\ main[n].at = "count" /\ main[n].conn = NoConn /\ Linked(n, main[n].rest) = {}
      /\ main' = [main EXCEPT ![n] = t]
      /\ UNCHANGED <<conns, procVars, loading, link, known, db, clock, crashes>>
  BY DEF StartDealing, RoundOver
<1>3. /\ t \in MainThread /\ t.at = "share" /\ t.conn = NoConn /\ t.rest = Peers(n)
      /\ t.slot = 1 /\ t.count = main[n].count
  BY <1>1, <1>2 DEF MainThread, FirstPeerSlot, Peers, NoConn
<1> HIDE DEF t
<1>4. main'[n] = t
  BY <1>1, <1>2
<1>5. phase[n] = "up" /\ n \in leaders
  BY <1>1, <1>2 DEF MainInPlace, IInv, MainsInPlace
<1>6. MainInPlace(n)'
  BY <1>2, <1>3, <1>4, <1>5 DEF MainInPlace, procVars
<1>7. SlotsSufficeAt(n)'
  <2>1. Left(n) = main[n].rest /\ Left(n)' = Peers(n)
    BY <1>2, <1>3, <1>4 DEF Left
  <2>2. Able(n)' = Able(n) /\ Able(n) \cap Peers(n) = Able(n) /\ Able(n) \ main[n].rest = Able(n)
    BY <1>2 DEF Able, Linked
  <2>3. 1 + Cardinality(Able(n)) <= main[n].count
    BY <1>1, <1>2, <2>1, <2>2 DEF SlotsSufficeAt
  <2>4. main[n].count + Cardinality(main[n].rest) <= Cardinality(Nodes)
    BY <1>1, <1>2, <2>1 DEF SlotsSufficeAt
  <2>5. /\ Cardinality(Nodes) \in Nat /\ Cardinality(main[n].rest) \in Nat /\ main[n].count \in Nat
    BY <1>1, NodesFinite DEF MainThread
  <2>6. main[n].count <= Cardinality(Nodes)
    BY <2>4, <2>5
  <2>7. 1 + Cardinality(Peers(n)) <= Cardinality(Nodes)
    BY NodesFinite, FS_RemoveElement DEF Peers
  <2> QED
    BY <1>3, <1>4, <2>1, <2>2, <2>3, <2>6, <2>7 DEF SlotsSufficeAt
<1> QED
  BY <1>2, <1>3, <1>6, <1>7, <1>5, MainKeeps DEF IInv, FieldsTyped, procVars

LEMMA LoopTyped ==
  /\ Loop \in MainThread /\ Loop.at = "loop" /\ Loop.conn = NoConn /\ Loop.rest = {}
  /\ Loop.count = 0 /\ Loop.slot = 0
BY DEF Loop, MainThread, NoConn

LEMMA LoadLocalStep ==
  ASSUME IInv, NEW n \in Nodes, LoadLocal(n)
  PROVE  IInv'
<1>1. main \in [Nodes -> MainThread] /\ MainInPlace(n)
  BY DEF IInv, FieldsTyped, MainsInPlace
<1>2. /\ main[n].at = "share" /\ main' = [main EXCEPT ![n] = Loop]
      /\ UNCHANGED <<conns, procVars, link, known, clock, crashes>>
  BY DEF LoadLocal
<1>3. main'[n] = Loop
  BY <1>1, <1>2
<1>4. MainInPlace(n)' /\ SlotsSufficeAt(n)'
  BY <1>3, LoopTyped DEF MainInPlace, SlotsSufficeAt
<1>5. db' \in [Nodes -> SUBSET Fragments]
  <2>1. Share(0, main[n].count) \in SUBSET Fragments
    BY DEF Share
  <2> QED
    BY <2>1 DEF LoadLocal, IInv, FieldsTyped
<1>6. phase[n] = "up"
  BY <1>1, <1>2 DEF MainInPlace, IInv, MainsInPlace
<1>7. loading' \subseteq loading \cup {n}
  BY DEF LoadLocal
<1> QED
  BY <1>2, <1>4, <1>5, <1>6, <1>7, LoopTyped, MainKeeps DEF IInv, FieldsTyped, procVars

LEMMA ListenStep ==
  ASSUME IInv, NEW n \in Nodes, Listen(n)
  PROVE  IInv'
<1>1. main \in [Nodes -> MainThread] /\ phase \in [Nodes -> {"down", "booting", "up"}]
  BY DEF IInv, FieldsTyped
<1>2. /\ main[n].at = "boot" /\ main' = [main EXCEPT ![n] = Loop]
      /\ phase' = [phase EXCEPT ![n] = "up"]
      /\ UNCHANGED <<conns, id, leaders, loading, link, known, db, clock, crashes>>
  BY DEF Listen
<1>3. main'[n] = Loop
  BY <1>1, <1>2
<1>4. MainInPlace(n)' /\ SlotsSufficeAt(n)'
  BY <1>3, LoopTyped DEF MainInPlace, SlotsSufficeAt
<1>5. /\ phase' \in [Nodes -> {"down", "booting", "up"}] /\ phase'[n] = "up"
      /\ \A p \in Nodes : p # n => phase'[p] = phase[p]
      /\ \A p \in Nodes : phase[p] = "up" => phase'[p] = "up"
  BY <1>1, <1>2
<1> QED
  BY <1>2, <1>4, <1>5, LoopTyped, MainKeeps DEF IInv, FieldsTyped

LEMMA StartStep ==
  ASSUME IInv, NEW n \in Nodes, NEW now \in 1..MaxTime, Start(n, now)
  PROVE  IInv'
<1> DEFINE t == [Loop EXCEPT !.at = "boot", !.rest = Peers(n)]
<1>1. /\ main \in [Nodes -> MainThread] /\ phase \in [Nodes -> {"down", "booting", "up"}]
      /\ id \in [Nodes -> Ids] /\ MainInPlace(n) /\ MaxTime \in Nat
  BY PeersAssumption DEF IInv, FieldsTyped, MainsInPlace
<1>2. /\ phase[n] = "down" /\ main' = [main EXCEPT ![n] = t]
      /\ phase' = [phase EXCEPT ![n] = "booting"] /\ id' = [id EXCEPT ![n] = now]
      /\ clock' = now
      /\ UNCHANGED <<conns, leaders, loading, link, known, db, crashes>>
  BY DEF Start
<1>3. /\ t \in MainThread /\ t.at = "boot" /\ t.conn = NoConn /\ t.rest = Peers(n)
      /\ t.count = 0 /\ t.slot = 0
  BY DEF Loop, MainThread, NoConn, Peers
<1> HIDE DEF t
<1>4. main'[n] = t
  BY <1>1, <1>2
<1>5. main[n].at = "loop"
  BY <1>1, <1>2, LoopTyped DEF MainInPlace
<1>6. /\ phase' \in [Nodes -> {"down", "booting", "up"}] /\ phase'[n] = "booting"
      /\ id' \in [Nodes -> Ids] /\ clock' \in 0..MaxTime
  BY <1>1, <1>2 DEF Ids
<1>7. /\ \A p \in Nodes : p # n => phase'[p] = phase[p]
      /\ \A p \in Nodes : phase[p] = "up" => phase'[p] = "up" /\ id'[p] = id[p]
  BY <1>1, <1>2
<1>8. MainInPlace(n)' /\ SlotsSufficeAt(n)'
  BY <1>3, <1>4, <1>6 DEF MainInPlace, SlotsSufficeAt
<1> QED
  BY <1>2, <1>3, <1>5, <1>6, <1>7, <1>8, MainKeeps DEF IInv, FieldsTyped

-----------------------------------------------------------------------------
\* Ends that close.

LEMMA ServerExitStep ==
  ASSUME IInv, NEW c \in ConnIds, ServerExit(c)
  PROVE  IInv'
<1>1. /\ "from" \notin conns[c].open /\ conns' = [conns EXCEPT ![c] = Closed]
      /\ UNCHANGED <<procVars, loading, link, known, main, db, clock, crashes>>
  BY DEF ServerExit
<1>2. conns \in [ConnIds -> Connection]
  BY DEF IInv, FieldsTyped
<1>3. \A d \in ConnIds : d # c => conns'[d] = conns[d]
  BY <1>1, <1>2
<1>4. conns'[c] = Closed
  BY <1>1, <1>2
<1>5. \A p, q \in Nodes : link[p][q] # NoConn => link[p][q] \in ConnIds /\ link[p][q] # c
  BY <1>1 DEF IInv, FieldsTyped, LinksHeld
<1>6. FieldsTyped'
  BY <1>1, ClosedTyped DEF IInv, FieldsTyped, procVars
<1>7. EndsHeld'
  <2> SUFFICES ASSUME NEW d \in ConnIds
               PROVE  EndHeld(d)'
    BY DEF EndsHeld
  <2>1. CASE d = c
    BY <1>4, <2>1 DEF EndHeld, Closed
  <2>2. CASE d # c
    BY <1>1, <1>3, <2>2 DEF IInv, EndsHeld, EndHeld, procVars
  <2> QED
    BY <2>1, <2>2
<1>8. LinksHeld'
  BY <1>1, <1>3, <1>5 DEF IInv, LinksHeld, procVars
<1>9. IdsComeFirst'
  <2> SUFFICES ASSUME NEW p \in Nodes, NEW q \in Nodes, NEW d, d = link'[p][q], d # NoConn
               PROVE  IF AskingId(p, d)' THEN IdComing(d)' ELSE IdKnown(p, d)'
    BY DEF IdsComeFirst
  <2>1. d = link[p][q] /\ conns'[d] = conns[d]
    BY <1>1, <1>3, <1>5
  <2>2. IF AskingId(p, d) THEN IdComing(d) ELSE IdKnown(p, d)
    BY <2>1 DEF IInv, IdsComeFirst
  <2> QED
    BY <1>1, <2>1, <2>2 DEF AskingId, IdComing, IdKnown, procVars
<1>10. \A p \in Nodes : MainInPlace(p)' /\ SlotsSufficeAt(p)'
  BY <1>1, <1>3, <1>5, OthersKeep DEF procVars
<1>11. MainsInPlace'
  BY <1>1, <1>10 DEF IInv, MainsInPlace, procVars
<1> QED
  BY <1>6, <1>7, <1>8, <1>9, <1>10, <1>11 DEF IInv, SlotsSuffice

\* What the death of n makes of connection c.
LEMMA DroppedTyped ==
  ASSUME IInv, NEW n \in Nodes, NEW c \in ConnIds
  PROVE  LET d == Dropped(n)[c]
         IN  /\ d \in Connection
             /\ d.open = {} => d = Closed
             /\ d.open # {} =>
                  /\ d.from = conns[c].from /\ d.to = conns[c].to
                  /\ d.open \subseteq conns[c].open
                  /\ "from" \in d.open => d.from # n
                  /\ "to" \in d.open => d.to # n
                  /\ "from" \in conns[c].open /\ d.from # n => "from" \in d.open
                  /\ "to" \in conns[c].open /\ d.to # n => "to" \in d.open
                  /\ "from" \in d.open => d.resp = conns[c].resp
                  /\ "to" \in d.open => d.server = conns[c].server /\ d.input = conns[c].input
                  /\ "to" \in d.open /\ "from" \in d.open => d = conns[c]
                  /\ "to" \notin d.open => d.server = "exited"
<1> DEFINE k == conns[c]
           open == k.open \ ((IF k.from = n THEN {"from"} ELSE {})
                             \cup (IF k.to = n THEN {"to"} ELSE {}))
<1>1. k \in Connection /\ EndHeld(c) /\ k.open \in SUBSET {"from", "to"}
  BY DEF IInv, FieldsTyped, EndsHeld, Connection
<1>2. k.open = {} => k = Closed
  BY <1>1 DEF EndHeld
<1>3. /\ open \subseteq k.open /\ open \in SUBSET {"from", "to"}
      /\ "from" \in open <=> "from" \in k.open /\ k.from # n
      /\ "to" \in open <=> "to" \in k.open /\ k.to # n
  BY <1>1
<1>4. Dropped(n)[c] =
        IF open = {} THEN Closed
        ELSE IF open = k.open THEN k
        ELSE IF "to" \in open THEN [k EXCEPT !.open = open, !.resp = <<>>]
        ELSE [k EXCEPT !.open = open, !.req = <<>>, !.server = "exited", !.input = NoMsg]
  BY DEF Dropped
<1>5. /\ "to" \notin k.open => k.server = "exited"
  BY <1>1 DEF EndHeld
<1> HIDE DEF open, k
<1>6. CASE open = {}
  BY <1>4, <1>6, ClosedTyped DEF Closed
<1>7. CASE open # {} /\ open = k.open
  BY <1>1, <1>3, <1>4, <1>5, <1>7 DEF k
<1>8. CASE open # {} /\ open # k.open /\ "to" \in open
  <2> DEFINE d == [k EXCEPT !.open = open, !.resp = <<>>]
  <2>1. /\ d \in Connection /\ d.open = open /\ d.from = k.from /\ d.to = k.to
        /\ d.server = k.server /\ d.input = k.input
    <3>1. <<>> \in Seq(Message)
      OBVIOUS
    <3>2. /\ d.open = open /\ d.from = k.from /\ d.to = k.to
          /\ d.server = k.server /\ d.input = k.input
      BY <1>1 DEF Connection
    <3>3. d \in Connection
      BY <1>1, <1>3, <3>1 DEF Connection
    <3> QED
      BY <3>2, <3>3
  <2>2. "from" \notin open
    BY <1>1, <1>3, <1>8
  <2>3. Dropped(n)[c] = d
    BY <1>4, <1>8
  <2> HIDE DEF d
  <2> QED
    BY <1>3, <1>8, <2>1, <2>2, <2>3 DEF k
<1>9. CASE open # {} /\ open # k.open /\ "to" \notin open
  <2> DEFINE d == [k EXCEPT !.open = open, !.req = <<>>, !.server = "exited", !.input = NoMsg]
  <2>1. /\ d \in Connection /\ d.open = open /\ d.from = k.from /\ d.to = k.to
        /\ d.resp = k.resp /\ d.server = "exited"
    <3>1. /\ NoMsg \in Message /\ <<>> \in Seq(Message) /\ "exited" \in ServerStates
      BY MessagesTyped DEF ServerStates
    <3>2. /\ d.open = open /\ d.from = k.from /\ d.to = k.to
          /\ d.resp = k.resp /\ d.server = "exited"
      BY <1>1 DEF Connection
    <3>3. d \in Connection
      BY <1>1, <1>3, <3>1 DEF Connection
    <3> QED
      BY <3>2, <3>3
  <2>2. Dropped(n)[c] = d
    BY <1>4, <1>9
  <2> HIDE DEF d
  <2> QED
    BY <1>3, <1>9, <2>1, <2>2 DEF k
<1> QED
  BY <1>6, <1>7, <1>8, <1>9

LEMMA CrashStep ==
  ASSUME IInv, NEW n \in Nodes, Crash(n)
  PROVE  IInv'
<1>1. /\ conns' = Dropped(n) /\ phase' = [phase EXCEPT ![n] = "down"]
      /\ id' = [id EXCEPT ![n] = 0] /\ leaders' = leaders \ {n} /\ loading' = loading \ {n}
      /\ link' = [link EXCEPT ![n] = [m \in Nodes |-> NoConn]]
      /\ known' = [known EXCEPT ![n] = [m \in Nodes |-> 0]]
      /\ main' = [main EXCEPT ![n] = Loop] /\ db' = [db EXCEPT ![n] = {}]
      /\ clock' = clock /\ crashes < MaxCrashes /\ crashes' = crashes + 1
  BY DEF Crash, Down
<1>2. /\ phase \in [Nodes -> {"down", "booting", "up"}] /\ id \in [Nodes -> Ids]
      /\ link \in [Nodes -> [Nodes -> ConnIds \cup {NoConn}]]
      /\ known \in [Nodes -> [Nodes -> Ids]] /\ main \in [Nodes -> MainThread]
      /\ db \in [Nodes -> SUBSET Fragments] /\ clock \in 0..MaxTime /\ crashes \in 0..MaxCrashes
      /\ conns \in [ConnIds -> Connection]
  BY DEF IInv, FieldsTyped
<1>3. /\ phase'[n] = "down" /\ main'[n] = Loop /\ \A m \in Nodes : link'[n][m] = NoConn
      /\ \A p \in Nodes : p # n =>
           /\ phase'[p] = phase[p] /\ id'[p] = id[p] /\ link'[p] = link[p]
           /\ known'[p] = known[p] /\ main'[p] = main[p]
  BY <1>1, <1>2
<1>4. FieldsTyped'
  <2>1. conns' \in [ConnIds -> Connection]
    <3>1. \A c \in ConnIds : Dropped(n)[c] \in Connection
      BY DroppedTyped
    <3>2. Dropped(n) = [c \in ConnIds |-> Dropped(n)[c]]
      BY DEF Dropped
    <3> QED
      BY <1>1, <3>1, <3>2
  <2>2. 0 \in Ids /\ crashes' \in 0..MaxCrashes
    BY <1>1, <1>2, PeersAssumption DEF Ids
  <2>3. /\ phase' \in [Nodes -> {"down", "booting", "up"}] /\ id' \in [Nodes -> Ids]
        /\ main' \in [Nodes -> MainThread] /\ db' \in [Nodes -> SUBSET Fragments]
    BY <1>1, <1>2, <2>2, LoopTyped
  <2>4. link' \in [Nodes -> [Nodes -> ConnIds \cup {NoConn}]] /\ known' \in [Nodes -> [Nodes -> Ids]]
    BY <1>1, <1>2, <2>2
  <2> QED
    BY <1>1, <1>2, <2>1, <2>2, <2>3, <2>4 DEF FieldsTyped
<1>5. EndsHeld'
  <2> SUFFICES ASSUME NEW d \in ConnIds
               PROVE  EndHeld(d)'
    BY DEF EndsHeld
  <2>1. EndHeld(d) /\ conns'[d] = Dropped(n)[d]
    BY <1>1 DEF IInv, EndsHeld
  <2>2. CASE conns'[d].open = {}
    <3>1. conns'[d] = Closed
      BY <2>1, <2>2, DroppedTyped
    <3> QED
      BY <3>1 DEF EndHeld, Closed
  <2>3. CASE conns'[d].open # {}
    <3>1. /\ conns'[d].from = conns[d].from /\ conns'[d].to = conns[d].to
          /\ conns'[d].open \subseteq conns[d].open
          /\ "from" \in conns'[d].open => conns'[d].from # n
          /\ "to" \in conns'[d].open => conns'[d].to # n
          /\ "to" \in conns'[d].open =>
               conns'[d].server = conns[d].server /\ conns'[d].input = conns[d].input
          /\ "to" \notin conns'[d].open => conns'[d].server = "exited"
      BY <2>1, <2>3, DroppedTyped
    <3> QED
      BY <1>3, <2>1, <2>3, <3>1 DEF EndHeld
  <2> QED
    BY <2>2, <2>3
<1>6. ASSUME NEW p \in Nodes, NEW q \in Nodes, link'[p][q] # NoConn
      PROVE  LET d == link[p][q]
             IN  /\ p # n /\ p # q /\ d \in ConnIds /\ d # NoConn /\ link'[p][q] = d
                 /\ conns'[d].from = p /\ conns'[d].to = q /\ "from" \in conns'[d].open
                 /\ conns'[d].resp = conns[d].resp /\ conns'[d].open \subseteq conns[d].open
                 /\ "to" \in conns'[d].open => conns'[d] = conns[d] /\ q # n
                 /\ "to" \notin conns'[d].open => conns'[d].server = "exited"
                 /\ conns[d].to = q
  <2> DEFINE d == link[p][q]
  <2>1. p # n /\ link'[p][q] = d /\ d # NoConn /\ d \in ConnIds
    BY <1>2, <1>3, <1>6
  <2>2. conns[d].from = p /\ conns[d].to = q /\ "from" \in conns[d].open /\ p # q
    BY <2>1 DEF IInv, LinksHeld
  <2>3. conns'[d] = Dropped(n)[d] /\ EndHeld(d)'
    BY <1>1, <1>5, <2>1 DEF EndsHeld
  <2> HIDE DEF d
  <2>4. conns'[d].open # {}
    <3>1. "from" \in conns[d].open \ ((IF conns[d].from = n THEN {"from"} ELSE {})
                                      \cup (IF conns[d].to = n THEN {"to"} ELSE {}))
      BY <2>1, <2>2
    <3>2. conns'[d].open = conns[d].open \ ((IF conns[d].from = n THEN {"from"} ELSE {})
                                      \cup (IF conns[d].to = n THEN {"to"} ELSE {}))
      BY <1>2, <2>1, <2>3, <3>1 DEF Dropped, Connection
    <3> QED
      BY <3>1, <3>2
  <2> QED
    BY <2>1, <2>2, <2>3, <2>4, DroppedTyped DEF d
<1>7. LinksHeld'
  BY <1>3, <1>6 DEF IInv, LinksHeld
<1>8. IdsComeFirst'
  <2> SUFFICES ASSUME NEW p \in Nodes, NEW q \in Nodes, NEW d, d = link'[p][q], d # NoConn
               PROVE  IF AskingId(p, d)' THEN IdComing(d)' ELSE IdKnown(p, d)'
    BY DEF IdsComeFirst
  <2>1. /\ p # n /\ d \in ConnIds /\ d = link[p][q]
        /\ conns'[d].to = q /\ "from" \in conns'[d].open
        /\ conns'[d].resp = conns[d].resp
        /\ "to" \in conns'[d].open => conns'[d] = conns[d] /\ q # n
        /\ "to" \notin conns'[d].open => conns'[d].server = "exited"
        /\ conns[d].to = q
    BY <1>6
  <2>2. IF AskingId(p, d) THEN IdComing(d) ELSE IdKnown(p, d)
    BY <2>1 DEF IInv, IdsComeFirst
  <2>3. /\ AskingId(p, d)' <=> AskingId(p, d)
        /\ known'[p] = known[p] /\ (q # n => id'[q] = id[q]) /\ id[q] \in Ids
    BY <1>2, <1>3, <2>1 DEF AskingId
  <2>4. CASE AskingId(p, d)
    BY <2>1, <2>2, <2>3, <2>4 DEF IdComing
  <2>5. CASE ~AskingId(p, d)
    BY <2>1, <2>2, <2>3, <2>5 DEF IdKnown
  <2> QED
    BY <2>1, <2>3, <2>4, <2>5
<1>9. \A p \in Nodes : MainInPlace(p)' /\ SlotsSufficeAt(p)'
  <2>1. MainInPlace(n)' /\ SlotsSufficeAt(n)'
    BY <1>3, LoopTyped DEF MainInPlace, SlotsSufficeAt
  <2>2. ASSUME NEW p \in Nodes, p # n
        PROVE  MainInPlace(p)' /\ SlotsSufficeAt(p)'
    <3>1. /\ main'[p] = main[p] /\ phase'[p] = phase[p] /\ link'[p] = link[p]
          /\ p \in leaders => p \in leaders'
      BY <1>1, <1>3, <2>2
    <3>2. ASSUME NEW q \in Nodes, link[p][q] # NoConn
          PROVE  LET d == link[p][q]
                 IN  /\ conns'[d].to = conns[d].to
                     /\ conns'[d].resp # <<>> \/ "to" \in conns'[d].open =>
                          conns[d].resp # <<>> \/ "to" \in conns[d].open
      BY <1>6, <3>1, <3>2
    <3> QED
      BY <3>1, <3>2, OthersKeep
  <2> QED
    BY <2>1, <2>2
<1>10. MainsInPlace'
  BY <1>1, <1>3, <1>9 DEF IInv, MainsInPlace
<1> QED
  BY <1>4, <1>5, <1>7, <1>8, <1>9, <1>10 DEF IInv, SlotsSuffice

-----------------------------------------------------------------------------
\* The exchange of ids.

LEMMA AcceptStep ==
  ASSUME IInv, NEW n \in Nodes, NEW c \in ConnIds, Accept(n, c)
  PROVE  IInv'
<1>0. PICK j \in Reads(conns[c].req) :
        conns' = [Answered(conns, c, Msg("ID", {id[n]})) EXCEPT
                    ![c].req = Rest(@, j), ![c].server = "reading"]
  BY DEF Accept
<1>some. j \in Nat /\ 1 <= j
  BY ConnectionAssumption DEF Reads
<1> DEFINE req == Rest(conns[c].req, j)
           msg == Msg("ID", {id[n]})
<1>1. /\ conns[c].server = "backlog" /\ conns[c].to = n
      /\ UNCHANGED <<procVars, loading, link, known, main, db, clock, crashes>>
      /\ conns' = [Answered(conns, c, msg) EXCEPT ![c].req = req, ![c].server = "reading"]
  <2>1. Answered(conns, c, msg)[c].req = conns[c].req
    BY DEF Answered, Accept, IInv, FieldsTyped, Connection
  <2> QED
    BY <1>0, <2>1 DEF Accept
<1>2. /\ conns \in [ConnIds -> Connection] /\ conns[c] \in Connection /\ EndHeld(c)
      /\ "to" \in conns[c].open /\ id[n] \in Ids
  BY <1>1 DEF IInv, FieldsTyped, EndsHeld, EndHeld
<1>3. msg \in Message
  BY <1>2, MessagesTyped DEF Ids
<1>4. PICK r \in Seq(Message) :
        /\ r = IF "from" \in conns[c].open THEN Append(conns[c].resp, msg) ELSE conns[c].resp
        /\ Answered(conns, c, msg) = [conns EXCEPT ![c] = [@ EXCEPT !.resp = r]]
        /\ [conns[c] EXCEPT !.resp = r] \in Connection
  BY <1>2, <1>3, AnsweredOnly
<1>5. req \in Seq(Message)
  BY <1>some, <1>2, RestOfSeq DEF Connection
<1>6. conns[c].req = <<IdReq>> => req = <<>>
  <2>1. <<IdReq>> \in Seq(Message) /\ Len(<<IdReq>>) = 1
    BY MessagesTyped
  <2>2. Rest(<<IdReq>>, j) = <<>>
    BY <1>some, <2>1, RestOfSeq
  <2> QED
    BY <2>2
<1> HIDE DEF req, msg
<1> DEFINE k == [conns[c] EXCEPT !.resp = r, !.req = req, !.server = "reading"]
<1>7. conns' = [conns EXCEPT ![c] = k]
  BY <1>1, <1>2, <1>4
<1>8. /\ k.resp = r /\ k.req = req /\ k.server = "reading" /\ k.from = conns[c].from
      /\ k.to = conns[c].to /\ k.open = conns[c].open /\ k.input = conns[c].input
  BY <1>2 DEF Connection
<1>9. k \in Connection
  <2>1. "reading" \in ServerStates
    BY DEF ServerStates
  <2> QED
    BY <1>2, <1>5, <2>1 DEF Connection
<1> HIDE DEF k
<1>10. conns'[c] = k /\ \A d \in ConnIds : d # c => conns'[d] = conns[d]
  BY <1>2, <1>7
<1>11. FieldsTyped'
  BY <1>1, <1>7, <1>9 DEF IInv, FieldsTyped, procVars
<1>12. EndsHeld'
  <2> SUFFICES ASSUME NEW d \in ConnIds
               PROVE  EndHeld(d)'
    BY DEF EndsHeld
  <2>1. CASE d = c
    BY <1>1, <1>2, <1>8, <1>10, <2>1 DEF EndHeld, procVars
  <2>2. CASE d # c
    BY <1>1, <1>10, <2>2 DEF IInv, EndsHeld, EndHeld, procVars
  <2> QED
    BY <2>1, <2>2
<1>13. \A d \in ConnIds : /\ conns'[d].to = conns[d].to /\ conns'[d].from = conns[d].from
                          /\ conns'[d].open = conns[d].open
  BY <1>8, <1>10
<1>14. \A p, q \in Nodes : link[p][q] # NoConn => link[p][q] \in ConnIds
  BY DEF IInv, FieldsTyped
<1>15. LinksHeld'
  <2> SUFFICES ASSUME NEW p \in Nodes, NEW q \in Nodes, NEW d, d = link'[p][q], d # NoConn
               PROVE  /\ phase'[p] # "down" /\ p # q
                      /\ conns'[d].from = p /\ conns'[d].to = q /\ "from" \in conns'[d].open
    BY DEF LinksHeld
  <2>1. d = link[p][q] /\ d \in ConnIds /\ phase'[p] = phase[p]
    BY <1>1, <1>14 DEF procVars
  <2> QED
    BY <1>13, <2>1 DEF IInv, LinksHeld
<1>16. IdsComeFirst'
  <2> SUFFICES ASSUME NEW p \in Nodes, NEW q \in Nodes, NEW d, d = link'[p][q], d # NoConn
               PROVE  IF AskingId(p, d)' THEN IdComing(d)' ELSE IdKnown(p, d)'
    BY DEF IdsComeFirst
  <2>1. d = link[p][q] /\ d \in ConnIds
    BY <1>1, <1>14 DEF procVars
  <2>2. IF AskingId(p, d) THEN IdComing(d) ELSE IdKnown(p, d)
    BY <2>1 DEF IInv, IdsComeFirst
  <2>3. CASE d # c
    <3>1. conns'[d] = conns[d]
      BY <1>10, <2>1, <2>3
    <3> QED
      BY <1>1, <2>2, <3>1 DEF AskingId, IdComing, IdKnown, procVars
  <2>4. CASE d = c
    <3>1. AskingId(p, d) /\ conns[d].req = <<IdReq>> /\ conns[d].resp = <<>>
      BY <1>1, <1>2, <2>2, <2>4 DEF IdKnown, IdComing
    <3>2. "from" \in conns[d].open
      BY <2>1 DEF IInv, LinksHeld
    <3>3. conns'[d].resp = <<msg>> /\ conns'[d].req = <<>>
      BY <1>4, <1>6, <1>8, <1>10, <2>4, <3>1, <3>2
    <3>4. id'[conns'[d].to] = id[n]
      BY <1>1, <1>8, <1>10, <2>4 DEF procVars
    <3>5. IdComing(d)'
      BY <1>2, <1>8, <1>10, <2>4, <3>3, <3>4 DEF IdComing, msg
    <3> QED
      BY <1>1, <3>1, <3>5 DEF AskingId
  <2> QED
    BY <2>3, <2>4
<1>17. \A p \in Nodes : MainInPlace(p)' /\ SlotsSufficeAt(p)'
  <2>1. \A d \in ConnIds : conns'[d].resp # <<>> \/ "to" \in conns'[d].open =>
                           conns[d].resp # <<>> \/ "to" \in conns[d].open
    BY <1>2, <1>10
  <2> QED
    BY <1>1, <1>13, <1>14, <2>1, OthersKeep DEF procVars
<1>18. MainsInPlace'
  BY <1>1, <1>17 DEF IInv, MainsInPlace, procVars
<1> QED
  BY <1>11, <1>12, <1>15, <1>16, <1>17, <1>18 DEF IInv, SlotsSuffice

\* The main thread of n has its id, or will not have it.
LEMMA GetIdStep ==
  ASSUME IInv, NEW n \in Nodes, NEW m \in Peers(n), GetId(n, m)
  PROVE  IInv'
<1> DEFINE c == main[n].conn
<1>1. /\ main[n].at = "id" /\ m = conns[c].to /\ LoadIfLeader(n, m)
      /\ UNCHANGED <<procVars, link, db, clock, crashes>>
  BY DEF GetId
<1>2. /\ c \in ConnIds /\ link[n][m] = c /\ conns[c].from = n /\ "from" \in conns[c].open
      /\ phase[n] # "down" /\ m \in Nodes /\ m # n
  BY <1>1, WaitsOn DEF Peers
<1>3. IdComing(c)
  BY <1>1, <1>2 DEF IInv, IdsComeFirst, AskingId, NoConn, ConnIds
<1>4. /\ conns \in [ConnIds -> Connection] /\ conns[c] \in Connection /\ EndHeld(c)
      /\ main \in [Nodes -> MainThread] /\ main[n] \in MainThread /\ MainInPlace(n)
      /\ known \in [Nodes -> [Nodes -> Ids]] /\ id \in [Nodes -> Ids]
      /\ phase \in [Nodes -> {"down", "booting", "up"}]
  BY <1>2 DEF IInv, FieldsTyped, EndsHeld, MainsInPlace
<1>5. PICK i \in Ids, q \in Seq(Message) :
        /\ known' = [known EXCEPT ![n][m] = i]
        /\ conns' = [conns EXCEPT ![c] = [@ EXCEPT !.resp = q]]
        /\ q = <<>>
        /\ "to" \in conns[c].open => i = id[m]
        /\ conns[c].server # "backlog"
  <2>1. CASE /\ conns[c].resp # <<>>
             /\ \E i \in Head(conns[c].resp).body : known' = Recorded(n, m, i)
             /\ conns' = Received(c, 1)
    <3>1. PICK j \in Ids : /\ conns[c].resp = <<Msg("ID", {j})>>
                           /\ "to" \in conns[c].open => j = id[m]
                           /\ conns[c].server # "backlog"
      BY <1>1, <1>2, <1>3, <1>4, <2>1 DEF IdComing, EndHeld
    <3>2. Head(conns[c].resp).body = {j}
      BY <3>1 DEF Msg
    <3>3. known' = [known EXCEPT ![n][m] = j]
      BY <2>1, <3>2 DEF Recorded
    <3>4. /\ conns' = [conns EXCEPT ![c] = [@ EXCEPT !.resp = Rest(conns[c].resp, 1)]]
          /\ Rest(conns[c].resp, 1) \in Seq(Message)
      BY <1>2, <1>4, <2>1, ReceivedOnly
    <3>5. Rest(conns[c].resp, 1) = <<>>
      <4>1. conns[c].resp \in Seq(Message) /\ Len(conns[c].resp) = 1
        BY <1>4, <3>1 DEF Connection
      <4> QED
        BY <4>1, RestOfSeq
    <3> QED
      BY <3>1, <3>3, <3>4, <3>5
  <2>2. CASE /\ Dead(c)
             /\ \E i \in Ids : known' = [known EXCEPT ![n][m] = i]
             /\ UNCHANGED conns
    <3>1. "to" \notin conns[c].open /\ conns[c].resp = <<>> /\ conns[c].server # "backlog"
      BY <1>4, <2>2 DEF Dead, EndHeld
    <3>2. [conns[c] EXCEPT !.resp = <<>>] = conns[c]
      BY <1>4, <3>1 DEF Connection
    <3>3. conns' = [conns EXCEPT ![c] = [@ EXCEPT !.resp = <<>>]]
      BY <1>4, <2>2, <3>2
    <3>4. <<>> \in Seq(Message)
      OBVIOUS
    <3> QED
      BY <2>2, <3>1, <3>3, <3>4
  <2> QED
    BY <2>1, <2>2 DEF GetId
<1> DEFINE k == [conns[c] EXCEPT !.resp = q]
<1>6. /\ k.resp = <<>> /\ k.req = conns[c].req /\ k.server = conns[c].server
      /\ k.from = conns[c].from /\ k.to = conns[c].to /\ k.open = conns[c].open
      /\ k.input = conns[c].input /\ k \in Connection
  BY <1>4, <1>5 DEF Connection
<1>7. conns' = [conns EXCEPT ![c] = k]
  BY <1>5
<1> HIDE DEF k
<1>8. PICK t \in MainThread : main' = [main EXCEPT ![n] = t] /\ t.at # "id" /\ t.conn = NoConn
        /\ loading' \subseteq loading \cup {n}
  <2>1. CASE n \in leaders
    <3>1. main' = [main EXCEPT ![n] = [Loop EXCEPT !.at = "count", !.count = 1, !.rest = Peers(n)]]
          /\ loading' = loading \cup {n}
      BY <1>1, <2>1 DEF LoadIfLeader, BeginLoad
    <3>2. main'[n] = [Loop EXCEPT !.at = "count", !.count = 1, !.rest = Peers(n)]
      BY <1>4, <3>1
    <3>3. main'[n] \in MainThread /\ main'[n].at = "count" /\ main'[n].conn = NoConn
      BY <3>2, BeginLoadSlots
    <3> QED
      BY <3>1, <3>2, <3>3
  <2>2. CASE n \notin leaders
    <3> DEFINE t == [main[n] EXCEPT !.at = Resting(n), !.conn = NoConn, !.rest = main[n].rest \ {m}]
    <3>1. main' = [main EXCEPT ![n] = t] /\ loading' = loading
      BY <1>1, <1>4, <2>2 DEF LoadIfLeader, Resume
    <3>2. Resting(n) \in {"boot", "loop"} /\ main[n].rest \ {m} \in SUBSET Nodes
      BY <1>4 DEF Resting, MainThread
    <3>3. t \in MainThread
      BY <1>4, <3>2 DEF MainThread
    <3>4. t.at = Resting(n) /\ t.conn = NoConn
      BY <1>4 DEF MainThread
    <3> HIDE DEF t
    <3> QED
      BY <3>1, <3>2, <3>3, <3>4
  <2> QED
    BY <2>1, <2>2
<1> HIDE DEF c
<1>9. /\ conns'[c] = k /\ \A d \in ConnIds : d # c => conns'[d] = conns[d]
      /\ main'[n] = t /\ \A p \in Nodes : p # n => main'[p] = main[p]
      /\ known'[n][m] = i /\ \A p, r \in Nodes : p # n \/ r # m => known'[p][r] = known[p][r]
  BY <1>2, <1>4, <1>5, <1>7, <1>8
<1>10. FieldsTyped'
  BY <1>1, <1>4, <1>5, <1>6, <1>7, <1>8 DEF IInv, FieldsTyped, procVars
<1>11. EndsHeld'
  <2> SUFFICES ASSUME NEW d \in ConnIds
               PROVE  EndHeld(d)'
    BY DEF EndsHeld
  <2>1. CASE d = c
    BY <1>1, <1>2, <1>4, <1>6, <1>9, <2>1 DEF EndHeld, procVars
  <2>2. CASE d # c
    BY <1>1, <1>9, <2>2 DEF IInv, EndsHeld, EndHeld, procVars
  <2> QED
    BY <2>1, <2>2
<1>12. \A d \in ConnIds : /\ conns'[d].to = conns[d].to /\ conns'[d].from = conns[d].from
                          /\ conns'[d].open = conns[d].open
  BY <1>6, <1>9
<1>13. \A p, r \in Nodes : link[p][r] # NoConn => link[p][r] \in ConnIds
  BY DEF IInv, FieldsTyped
<1>14. LinksHeld'
  BY <1>1, <1>12, <1>13 DEF IInv, LinksHeld, procVars
<1>15. IdsComeFirst'
  <2> SUFFICES ASSUME NEW p \in Nodes, NEW r \in Nodes, NEW d, d = link'[p][r], d # NoConn
               PROVE  IF AskingId(p, d)' THEN IdComing(d)' ELSE IdKnown(p, d)'
    BY DEF IdsComeFirst
  <2>1. d = link[p][r] /\ d \in ConnIds /\ conns[d].from = p /\ conns[d].to = r
    BY <1>1, <1>13 DEF IInv, LinksHeld
  <2>2. IF AskingId(p, d) THEN IdComing(d) ELSE IdKnown(p, d)
    BY <2>1 DEF IInv, IdsComeFirst
  <2>3. CASE d # c
    <3>1. conns'[d] = conns[d] /\ known'[p][r] = known[p][r]
      BY <1>2, <1>9, <2>1, <2>3
    <3>2. AskingId(p, d)' <=> AskingId(p, d)
      BY <1>1, <1>8, <1>9, <2>3 DEF AskingId, c
    <3> QED
      BY <1>1, <2>1, <2>2, <3>1, <3>2 DEF IdComing, IdKnown, procVars
  <2>4. CASE d = c
    <3>1. p = n /\ r = m
      BY <1>2, <2>1, <2>4, <1>1 DEF c
    <3>2. ~AskingId(p, d)'
      BY <1>8, <1>9, <3>1 DEF AskingId
    <3>3. IdKnown(p, d)'
      <4>1. conns'[d].server # "backlog" /\ conns'[d].resp = <<>>
        BY <1>5, <1>6, <1>9, <2>4 DEF c
      <4>2. "to" \in conns'[d].open => known'[p][conns'[d].to] = id'[conns'[d].to]
        <5>1. conns'[d].to = m /\ conns'[d].open = conns[c].open
          BY <1>6, <1>9, <2>1, <2>4, <3>1
        <5>2. known'[p][m] = i /\ id' = id
          BY <1>1, <1>2, <1>4, <1>5, <3>1 DEF procVars
        <5> QED
          BY <1>5, <5>1, <5>2
      <4> QED
        BY <4>1, <4>2 DEF IdKnown
    <3> QED
      BY <3>2, <3>3
  <2> QED
    BY <2>3, <2>4
<1>16. MainInPlace(n)' /\ SlotsSufficeAt(n)'
  <2>1. CASE n \in leaders
    <3>1. main'[n] = [Loop EXCEPT !.at = "count", !.count = 1, !.rest = Peers(n)]
      BY <1>1, <1>4, <2>1 DEF LoadIfLeader, BeginLoad
    <3>2. SlotsSufficeAt(n)' /\ main'[n].at = "count" /\ main'[n].conn = NoConn
          /\ main'[n].rest = Peers(n) /\ main'[n].slot = 0
      BY <3>1, BeginLoadSlots
    <3> QED
      BY <1>1, <1>2, <2>1, <3>2 DEF MainInPlace, procVars
  <2>2. CASE n \notin leaders
    <3> DEFINE u == [main[n] EXCEPT !.at = Resting(n), !.conn = NoConn, !.rest = main[n].rest \ {m}]
    <3>1. main'[n] = u
      BY <1>1, <1>4, <2>2 DEF LoadIfLeader, Resume
    <3>2. u.at = Resting(n) /\ u.conn = NoConn /\ u.rest = main[n].rest \ {m}
          /\ u.count = main[n].count /\ u.slot = main[n].slot
      BY <1>4 DEF MainThread
    <3> HIDE DEF u
    <3>3. Resting(n) \in {"boot", "loop"} /\ (Resting(n) = "boot" => phase[n] = "booting")
      BY DEF Resting
    <3>4. main[n].count = 0 /\ main[n].slot = 0 /\ main[n].rest \subseteq Peers(n)
      BY <1>1, <1>4 DEF MainInPlace
    <3> QED
      BY <1>1, <1>2, <3>1, <3>2, <3>3, <3>4 DEF MainInPlace, SlotsSufficeAt, procVars
  <2> QED
    BY <2>1, <2>2
<1>17. \A p \in Nodes : MainInPlace(p)' /\ SlotsSufficeAt(p)'
  <2> SUFFICES ASSUME NEW p \in Nodes, p # n
               PROVE  MainInPlace(p)' /\ SlotsSufficeAt(p)'
    BY <1>16
  <2>1. \A d \in ConnIds : conns'[d].resp # <<>> \/ "to" \in conns'[d].open =>
                           conns[d].resp # <<>> \/ "to" \in conns[d].open
    BY <1>6, <1>9
  <2>2. main'[p] = main[p]
    BY <1>9
  <2> QED
    BY <1>1, <1>12, <1>13, <2>1, <2>2, OthersKeep DEF procVars
<1>18. MainsInPlace'
  BY <1>1, <1>2, <1>8, <1>17 DEF IInv, MainsInPlace, procVars
<1> QED
  BY <1>10, <1>11, <1>14, <1>15, <1>17, <1>18 DEF IInv, SlotsSuffice

\* A leader is announced to all it is connected with.
LEMMA SeniorityStep ==
  ASSUME IInv, NEW n \in Nodes, Seniority(n)
  PROVE  IInv'
<1>1. /\ phase[n] = "up" /\ main[n].at = "loop"
      /\ conns' = [c \in ConnIds |->
                     IF \E m \in Peers(n) : link[n][m] = c
                     THEN Sent(conns, c, Coordinator)[c] ELSE conns[c]]
      /\ leaders' = leaders \cup {n} /\ loading' = loading \cup {n}
      /\ main' = [main EXCEPT ![n] = [Loop EXCEPT !.at = "count", !.count = 1, !.rest = Peers(n)]]
      /\ UNCHANGED <<phase, id, link, known, db, clock, crashes>>
  BY DEF Seniority, BeginLoad, Idle
<1>2. /\ conns \in [ConnIds -> Connection] /\ main \in [Nodes -> MainThread]
      /\ \A p, q \in Nodes : link[p][q] # NoConn => link[p][q] \in ConnIds
  BY DEF IInv, FieldsTyped
<1>3. ASSUME NEW c \in ConnIds
      PROVE  /\ conns'[c] \in Connection /\ ButReq(conns, conns', c)
             /\ (\A m \in Peers(n) : link[n][m] # c) => conns'[c] = conns[c]
  <2>1. Sent(conns, c, Coordinator)[c] \in Connection /\ ButReq(conns, Sent(conns, c, Coordinator), c)
    BY <1>2, SentOnly, MessagesTyped
  <2> QED
    BY <1>1, <1>2, <2>1 DEF ButReq
<1>4. main'[n] = [Loop EXCEPT !.at = "count", !.count = 1, !.rest = Peers(n)]
      /\ \A p \in Nodes : p # n => main'[p] = main[p]
  BY <1>1, <1>2
<1>5. /\ SlotsSufficeAt(n)' /\ main'[n] \in MainThread
      /\ main'[n].at = "count" /\ main'[n].conn = NoConn /\ main'[n].rest = Peers(n)
      /\ main'[n].slot = 0
  BY <1>4, BeginLoadSlots
<1>6. FieldsTyped'
  <2>1. conns' \in [ConnIds -> Connection]
    BY <1>1, <1>3
  <2>2. main' \in [Nodes -> MainThread]
    BY <1>1, <1>2, <1>4, <1>5
  <2> QED
    BY <1>1, <2>1, <2>2 DEF IInv, FieldsTyped
<1>7. EndsHeld'
  <2> SUFFICES ASSUME NEW d \in ConnIds
               PROVE  EndHeld(d)'
    BY DEF EndsHeld
  <2>1. EndHeld(d) /\ ButReq(conns, conns', d)
    BY <1>3 DEF IInv, EndsHeld
  <2>2. conns'[d].open = {} => conns'[d] = Closed
    <3>1. ASSUME conns[d].open = {} PROVE Sent(conns, d, Coordinator)[d] = conns[d]
      BY <3>1 DEF Sent
    <3> QED
      BY <1>1, <2>1, <3>1 DEF ButReq, EndHeld
  <2> QED
    BY <1>1, <2>1, <2>2 DEF EndHeld, ButReq
<1>8. \A d \in ConnIds : ButReq(conns, conns', d)
  BY <1>3
<1>9. LinksHeld'
  <2>1. LinksHeld
    BY DEF IInv
  <2> QED
    BY <1>1, <1>2, <1>8, <2>1 DEF LinksHeld, ButReq
<1>10. IdsComeFirst'
  <2> SUFFICES ASSUME NEW p \in Nodes, NEW q \in Nodes, NEW d, d = link'[p][q], d # NoConn
               PROVE  IF AskingId(p, d)' THEN IdComing(d)' ELSE IdKnown(p, d)'
    BY DEF IdsComeFirst
  <2>1. d = link[p][q] /\ d \in ConnIds /\ conns[d].from = p
    BY <1>1, <1>2 DEF IInv, LinksHeld
  <2>2. IF AskingId(p, d) THEN IdComing(d) ELSE IdKnown(p, d)
    BY <2>1 DEF IInv, IdsComeFirst
  <2>3. CASE p = n
    <3>1. ~AskingId(p, d) /\ ~AskingId(p, d)'
      BY <1>1, <1>5, <2>3 DEF AskingId
    <3>2. ButReq(conns, conns', d)
      BY <1>8, <2>1
    <3> QED
      BY <1>1, <2>2, <3>1, <3>2 DEF IdKnown, ButReq
  <2>4. CASE p # n
    <3>1. \A m \in Peers(n) : link[n][m] # d
      <4> SUFFICES ASSUME NEW m \in Peers(n), link[n][m] = d
                   PROVE  FALSE
        OBVIOUS
      <4>1. m \in Nodes /\ d # NoConn
        BY DEF Peers
      <4> QED
        BY <2>1, <2>4, <4>1 DEF IInv, LinksHeld
    <3>2. conns'[d] = conns[d]
      BY <1>3, <2>1, <3>1
    <3>3. AskingId(p, d)' <=> AskingId(p, d)
      BY <1>4, <2>4 DEF AskingId
    <3> QED
      BY <1>1, <2>2, <3>2, <3>3 DEF IdComing, IdKnown
  <2> QED
    BY <2>3, <2>4
<1>11. MainInPlace(n)'
  BY <1>1, <1>5 DEF MainInPlace
<1>12. \A p \in Nodes : MainInPlace(p)' /\ SlotsSufficeAt(p)'
  <2> SUFFICES ASSUME NEW p \in Nodes, p # n
               PROVE  MainInPlace(p)' /\ SlotsSufficeAt(p)'
    BY <1>5, <1>11
  <2> QED
    BY <1>1, <1>2, <1>4, <1>8, OthersKeep DEF ButReq
<1>13. MainsInPlace'
  BY <1>1, <1>12 DEF IInv, MainsInPlace
<1> QED
  BY <1>6, <1>7, <1>9, <1>10, <1>12, <1>13 DEF IInv, SlotsSuffice

\* What connect_with_peer comes to, whichever way it was reached.
Connects(n, m, cs) ==
  \/ /\ phase[m] = "up" /\ UNCHANGED loading
     /\ \E c \in ConnIds :
          /\ cs[c].open = {}
          /\ conns' = [cs EXCEPT ![c] = Opened(n, m)]
          /\ link' = [link EXCEPT ![n][m] = c]
          /\ main' = [main EXCEPT ![n].at = "id", ![n].conn = c]
  \/ /\ conns' = cs /\ link' = [link EXCEPT ![n][m] = NoConn]
     /\ LoadIfLeader(n, m) \/ Resume(n, m)

\* connect_with_peer, when the connection it had is as it was or is closed
\* since the other end is.
LEMMA ConnectStep ==
  ASSUME IInv, NEW n \in Nodes, NEW m \in Peers(n), NEW cs \in [ConnIds -> Connection],
         \A d \in ConnIds : cs[d] = conns[d] \/ (cs[d] = Closed /\ d = link[n][m]),
         phase[n] # "down", main[n].at \in {"boot", "loop", "check"},
         Connects(n, m, cs),
         UNCHANGED <<procVars, known, db, clock, crashes>>
  PROVE  IInv'
<1>1. /\ conns \in [ConnIds -> Connection] /\ main \in [Nodes -> MainThread]
      /\ main[n] \in MainThread /\ MainInPlace(n) /\ m \in Nodes /\ m # n
      /\ link \in [Nodes -> [Nodes -> ConnIds \cup {NoConn}]]
      /\ phase \in [Nodes -> {"down", "booting", "up"}]
  BY DEF IInv, FieldsTyped, MainsInPlace, Peers
<1>2. main[n].count = 0 /\ main[n].slot = 0 /\ main[n].rest \subseteq Peers(n)
  BY <1>1 DEF MainInPlace
<1>3. ASSUME NEW p \in Nodes, NEW q \in Nodes, p # n \/ q # m, link[p][q] # NoConn
      PROVE  LET d == link[p][q]
             IN  d \in ConnIds /\ d # link[n][m] /\ cs[d] = conns[d] /\ cs[d].open # {}
  <2>1. link[p][q] \in ConnIds
    BY <1>1, <1>3
  <2>2. conns[link[p][q]].from = p /\ conns[link[p][q]].to = q /\ "from" \in conns[link[p][q]].open
    BY <1>3 DEF IInv, LinksHeld
  <2>3. link[p][q] # link[n][m]
    <3> SUFFICES ASSUME link[p][q] = link[n][m]
                 PROVE  FALSE
      OBVIOUS
    <3>1. conns[link[p][q]].from = n /\ conns[link[p][q]].to = m
      BY <1>1, <1>3 DEF IInv, LinksHeld
    <3> QED
      BY <1>3, <2>2, <3>1
  <2> QED
    BY <2>1, <2>2, <2>3
<1>4. ASSUME NEW d \in ConnIds
      PROVE  LET k == cs[d] IN
             /\ k.open = {} => k = Closed
             /\ k.open # {} => k.from \in Nodes /\ k.to \in Nodes
             /\ "from" \in k.open => phase[k.from] # "down"
             /\ "to" \in k.open => phase[k.to] = "up"
             /\ k.server # "exited" => "to" \in k.open
             /\ k.server \in {"handling", "loading"} => k.input.type = "LOAD"
  <2>1. CASE cs[d] = conns[d]
    BY <2>1 DEF IInv, EndsHeld, EndHeld
  <2>2. CASE cs[d] = Closed
    BY <2>2 DEF Closed
  <2> QED
    BY <2>1, <2>2
\* A new connection is made.
<1>5. CASE /\ phase[m] = "up" /\ UNCHANGED loading
           /\ \E c \in ConnIds :
                /\ cs[c].open = {}
                /\ conns' = [cs EXCEPT ![c] = Opened(n, m)]
                /\ link' = [link EXCEPT ![n][m] = c]
                /\ main' = [main EXCEPT ![n].at = "id", ![n].conn = c]
  <2>1. PICK c \in ConnIds :
          /\ cs[c].open = {}
          /\ conns' = [cs EXCEPT ![c] = Opened(n, m)]
          /\ link' = [link EXCEPT ![n][m] = c]
          /\ main' = [main EXCEPT ![n].at = "id", ![n].conn = c]
    BY <1>5
  <2> DEFINE t == [main[n] EXCEPT !.at = "id", !.conn = c]
             k == Opened(n, m)
  <2>2. /\ t.at = "id" /\ t.conn = c /\ t.rest = main[n].rest /\ t.count = 0 /\ t.slot = 0
        /\ t \in MainThread
    BY <1>1, <1>2 DEF MainThread
  <2>3. /\ k \in Connection /\ k.from = n /\ k.to = m /\ k.open = {"from", "to"}
        /\ k.server = "backlog" /\ k.req = <<IdReq>> /\ k.resp = <<>>
    BY <1>1, ClosedTyped DEF Opened
  <2>4. /\ main' = [main EXCEPT ![n] = t] /\ conns' = [cs EXCEPT ![c] = k]
    BY <1>1, <2>1
  <2> HIDE DEF t, k
  <2>5. /\ main'[n] = t /\ \A p \in Nodes : p # n => main'[p] = main[p] /\ link'[p] = link[p]
        /\ conns'[c] = k /\ \A d \in ConnIds : d # c => conns'[d] = cs[d]
        /\ link'[n][m] = c /\ \A q \in Nodes : q # m => link'[n][q] = link[n][q]
    BY <1>1, <2>1, <2>4
  <2>6. FieldsTyped'
    <3>1. conns' \in [ConnIds -> Connection]
      BY <2>3, <2>4
    <3>2. link' \in [Nodes -> [Nodes -> ConnIds \cup {NoConn}]]
      BY <1>1, <2>1
    <3>3. main' \in [Nodes -> MainThread]
      BY <1>1, <2>2, <2>4
    <3> QED
      BY <3>1, <3>2, <3>3 DEF IInv, FieldsTyped, procVars
  <2>7. EndsHeld'
    <3> SUFFICES ASSUME NEW d \in ConnIds
                 PROVE  EndHeld(d)'
      BY DEF EndsHeld
    <3>1. CASE d = c
      BY <1>1, <1>5, <2>3, <2>5, <3>1 DEF EndHeld, procVars
    <3>2. CASE d # c
      BY <1>4, <2>5, <3>2 DEF EndHeld, procVars
    <3> QED
      BY <3>1, <3>2
  <2>8. ASSUME NEW p \in Nodes, NEW q \in Nodes, p # n \/ q # m, link[p][q] # NoConn
        PROVE  link'[p][q] = link[p][q] /\ link[p][q] # c /\ conns'[link[p][q]] = conns[link[p][q]]
    BY <1>3, <2>1, <2>5, <2>8
  <2>9. LinksHeld'
    <3> SUFFICES ASSUME NEW p \in Nodes, NEW q \in Nodes, NEW d, d = link'[p][q], d # NoConn
                 PROVE  /\ phase'[p] # "down" /\ p # q
                        /\ conns'[d].from = p /\ conns'[d].to = q /\ "from" \in conns'[d].open
      BY DEF LinksHeld
    <3>1. CASE p = n /\ q = m
      BY <1>1, <2>3, <2>5, <3>1 DEF procVars
    <3>2. CASE p # n \/ q # m
      <4>1. link'[p][q] = link[p][q]
        BY <2>5, <3>2
      <4> QED
        BY <2>8, <3>2, <4>1 DEF IInv, LinksHeld, procVars
    <3> QED
      BY <3>1, <3>2
  <2>10. IdsComeFirst'
    <3> SUFFICES ASSUME NEW p \in Nodes, NEW q \in Nodes, NEW d, d = link'[p][q], d # NoConn
                 PROVE  IF AskingId(p, d)' THEN IdComing(d)' ELSE IdKnown(p, d)'
      BY DEF IdsComeFirst
    <3>1. CASE p = n /\ q = m
      BY <2>2, <2>3, <2>5, <3>1 DEF AskingId, IdComing
    <3>2. CASE p # n \/ q # m
      <4>1. d = link[p][q]
        BY <2>5, <3>2
      <4>2. d # c /\ conns'[d] = conns[d]
        BY <2>8, <3>2, <4>1
      <4>3. IF AskingId(p, d) THEN IdComing(d) ELSE IdKnown(p, d)
        BY <4>1 DEF IInv, IdsComeFirst
      <4>4. AskingId(p, d)' <=> AskingId(p, d)
        BY <2>2, <2>5, <4>2 DEF AskingId
      <4> QED
        BY <4>2, <4>3, <4>4 DEF IdComing, IdKnown, procVars
    <3> QED
      BY <3>1, <3>2
  <2>11. MainInPlace(n)' /\ SlotsSufficeAt(n)'
    <3>1. Waiting(n)'
      BY <1>1, <2>2, <2>3, <2>5 DEF Waiting, NoConn, ConnIds
    <3> QED
      BY <1>2, <2>2, <2>5, <3>1 DEF MainInPlace, SlotsSufficeAt, procVars
  <2>12. \A p \in Nodes : MainInPlace(p)' /\ SlotsSufficeAt(p)'
    <3> SUFFICES ASSUME NEW p \in Nodes, p # n
                 PROVE  MainInPlace(p)' /\ SlotsSufficeAt(p)'
      BY <2>11
    <3>1. \A q \in Nodes : link[p][q] # NoConn => conns'[link[p][q]] = conns[link[p][q]]
      BY <2>8
    <3> QED
      BY <2>5, <3>1, OthersKeep DEF procVars
  <2>13. MainsInPlace'
    BY <1>5, <2>12 DEF IInv, MainsInPlace, procVars
  <2> QED
    BY <2>6, <2>7, <2>9, <2>10, <2>12, <2>13 DEF IInv, SlotsSuffice
\* There is nobody to connect to.
<1>6. CASE /\ conns' = cs /\ link' = [link EXCEPT ![n][m] = NoConn]
           /\ LoadIfLeader(n, m) \/ Resume(n, m)
  <2>1. PICK t \in MainThread :
          /\ main' = [main EXCEPT ![n] = t] /\ t.at # "id" /\ t.conn = NoConn
          /\ loading' \subseteq loading \cup {n}
          /\ MainInPlace(n)' /\ SlotsSufficeAt(n)'
    <3>1. CASE BeginLoad(n) /\ n \in leaders
      <4>1. main'[n] = [Loop EXCEPT !.at = "count", !.count = 1, !.rest = Peers(n)]
        BY <1>1, <3>1 DEF BeginLoad
      <4>2. SlotsSufficeAt(n)' /\ main'[n].at = "count" /\ main'[n].conn = NoConn
            /\ main'[n].rest = Peers(n) /\ main'[n] \in MainThread /\ main'[n].slot = 0
        BY <4>1, BeginLoadSlots
      <4>3. MainInPlace(n)'
        BY <3>1, <4>2 DEF MainInPlace, procVars
      <4> QED
        BY <3>1, <4>1, <4>2, <4>3 DEF BeginLoad
    <3>2. CASE Resume(n, m)
      <4> DEFINE t == [main[n] EXCEPT !.at = Resting(n), !.conn = NoConn, !.rest = main[n].rest \ {m}]
      <4>1. main' = [main EXCEPT ![n] = t] /\ loading' = loading
        BY <1>1, <3>2 DEF Resume
      <4>2. Resting(n) \in {"boot", "loop"} /\ main[n].rest \ {m} \in SUBSET Nodes
            /\ (Resting(n) = "boot" => phase[n] = "booting")
        BY <1>1 DEF Resting, MainThread
      <4>3. t \in MainThread
        BY <1>1, <4>2 DEF MainThread
      <4>4. t.at = Resting(n) /\ t.conn = NoConn /\ t.rest = main[n].rest \ {m}
            /\ t.count = 0 /\ t.slot = 0
        BY <1>1, <1>2 DEF MainThread
      <4> HIDE DEF t
      <4>5. main'[n] = t
        BY <1>1, <4>1
      <4>6. MainInPlace(n)' /\ SlotsSufficeAt(n)'
        BY <1>2, <4>2, <4>4, <4>5 DEF MainInPlace, SlotsSufficeAt, procVars
      <4> QED
        BY <4>1, <4>2, <4>3, <4>4, <4>6
    <3> QED
      BY <1>6, <3>1, <3>2 DEF LoadIfLeader
  <2>2. /\ main'[n] = t /\ \A p \in Nodes : p # n => main'[p] = main[p] /\ link'[p] = link[p]
        /\ link'[n][m] = NoConn /\ \A q \in Nodes : q # m => link'[n][q] = link[n][q]
    BY <1>1, <1>6, <2>1
  <2>3. FieldsTyped'
    BY <1>1, <1>6, <2>1 DEF IInv, FieldsTyped, procVars
  <2>4. EndsHeld'
    BY <1>4, <1>6 DEF EndsHeld, EndHeld, procVars
  <2>5. ASSUME NEW p \in Nodes, NEW q \in Nodes, p # n \/ q # m, link[p][q] # NoConn
        PROVE  link'[p][q] = link[p][q] /\ conns'[link[p][q]] = conns[link[p][q]]
    BY <1>3, <1>6, <2>2, <2>5
  <2>6. ASSUME NEW p \in Nodes, NEW q \in Nodes, link'[p][q] # NoConn
        PROVE  link'[p][q] = link[p][q] /\ conns'[link[p][q]] = conns[link[p][q]]
    <3>1. p # n \/ q # m
      BY <2>2, <2>6
    <3>2. link'[p][q] = link[p][q]
      BY <2>2, <3>1
    <3> QED
      BY <2>5, <2>6, <3>1, <3>2
  <2>7. LinksHeld'
    <3> SUFFICES ASSUME NEW p \in Nodes, NEW q \in Nodes, NEW d, d = link'[p][q], d # NoConn
                 PROVE  /\ phase'[p] # "down" /\ p # q
                        /\ conns'[d].from = p /\ conns'[d].to = q /\ "from" \in conns'[d].open
      BY DEF LinksHeld
    <3> QED
      BY <2>6 DEF IInv, LinksHeld, procVars
  <2>8. IdsComeFirst'
    <3> SUFFICES ASSUME NEW p \in Nodes, NEW q \in Nodes, NEW d, d = link'[p][q], d # NoConn
                 PROVE  IF AskingId(p, d)' THEN IdComing(d)' ELSE IdKnown(p, d)'
      BY DEF IdsComeFirst
    <3>1. d = link[p][q] /\ conns'[d] = conns[d]
      BY <2>6
    <3>2. IF AskingId(p, d) THEN IdComing(d) ELSE IdKnown(p, d)
      BY <3>1 DEF IInv, IdsComeFirst
    <3>3. AskingId(p, d)' <=> AskingId(p, d)
      BY <2>1, <2>2 DEF AskingId
    <3> QED
      BY <3>1, <3>2, <3>3 DEF IdComing, IdKnown, procVars
  <2>9. \A p \in Nodes : MainInPlace(p)' /\ SlotsSufficeAt(p)'
    <3> SUFFICES ASSUME NEW p \in Nodes, p # n
                 PROVE  MainInPlace(p)' /\ SlotsSufficeAt(p)'
      BY <2>1
    <3>1. \A q \in Nodes : link[p][q] # NoConn => conns'[link[p][q]] = conns[link[p][q]]
      BY <2>5
    <3> QED
      BY <2>2, <3>1, OthersKeep DEF procVars
  <2>10. MainsInPlace'
    BY <2>1, <2>9 DEF IInv, MainsInPlace, procVars
  <2> QED
    BY <2>3, <2>4, <2>7, <2>8, <2>9, <2>10 DEF IInv, SlotsSuffice
<1> QED
  BY <1>5, <1>6 DEF Connects

LEMMA BootConnectStep ==
  ASSUME IInv, NEW n \in Nodes, BootConnect(n)
  PROVE  IInv'
<1> DEFINE m == NextOf(main[n].rest)
<1>1. MainInPlace(n) /\ conns \in [ConnIds -> Connection]
  BY DEF IInv, FieldsTyped, MainsInPlace
<1>2. main[n].at = "boot" /\ main[n].rest # {} /\ Connect(n, m, conns, FALSE)
      /\ UNCHANGED <<procVars, known, db, clock, crashes>>
  BY DEF BootConnect
<1>3. m \in main[n].rest
  BY <1>2 DEF NextOf
<1>4. m \in Peers(n) /\ phase[n] # "down"
  BY <1>1, <1>2, <1>3 DEF MainInPlace
<1> HIDE DEF m
<1>5. Connects(n, m, conns)
  BY <1>2 DEF Connect, Connects
<1> QED
  BY <1>1, <1>2, <1>4, <1>5, ConnectStep

LEMMA TimerConnectStep ==
  ASSUME IInv, NEW n \in Nodes, NEW m \in Peers(n), TimerConnect(n, m)
  PROVE  IInv'
<1>1. conns \in [ConnIds -> Connection]
  BY DEF IInv, FieldsTyped
<1>2. /\ main[n].at = "loop" /\ phase[n] = "up" /\ Connect(n, m, conns, FALSE)
      /\ UNCHANGED <<procVars, known, db, clock, crashes>>
  BY DEF TimerConnect, Idle
<1>3. Connects(n, m, conns)
  BY <1>2 DEF Connect, Connects
<1> QED
  BY <1>1, <1>2, <1>3, ConnectStep

LEMMA InvalidStep ==
  ASSUME IInv, NEW n \in Nodes, NEW k \in 0..MaxRead, Invalid(n, k)
  PROVE  IInv'
<1> DEFINE c == main[n].conn
           m == conns[c].to
           cs == GivenUp(c, k)
<1>1. /\ main[n].at = "check" /\ PingFails(c, k) /\ Connect(n, m, cs, TRUE)
      /\ UNCHANGED <<procVars, known, db, clock, crashes>>
  BY DEF Invalid
<1>2. c \in ConnIds /\ m \in Peers(n) /\ link[n][m] = c /\ phase[n] # "down"
  BY <1>1, WaitsOn
<1>3. k = 0
  BY <1>1, FailsAtEnd
<1>4. conns \in [ConnIds -> Connection]
  BY DEF IInv, FieldsTyped
<1>5. cs = [conns EXCEPT ![c] = Closed]
  BY <1>3 DEF GivenUp
<1>6. /\ cs \in [ConnIds -> Connection]
      /\ \A d \in ConnIds : cs[d] = conns[d] \/ (cs[d] = Closed /\ d = link[n][m])
  <2>1. Closed \in Connection
    BY ClosedTyped
  <2> HIDE DEF cs
  <2>2. cs \in [ConnIds -> Connection]
    BY <1>4, <1>5, <2>1
  <2> HIDE DEF c
  <2>3. ASSUME NEW d \in ConnIds
        PROVE  cs[d] = conns[d] \/ (cs[d] = Closed /\ d = c)
    BY <1>2, <1>4, <1>5
  <2> QED
    BY <1>2, <2>2, <2>3
<1> HIDE DEF c, m, cs
<1>7. Connects(n, m, cs)
  BY <1>1 DEF Connect, Connects
<1> QED
  BY <1>1, <1>2, <1>6, <1>7, ConnectStep

-----------------------------------------------------------------------------
\* The invariant.

LEMMA InitHolds == Init => IInv
<1> SUFFICES ASSUME Init PROVE IInv
  OBVIOUS
<1> USE DEF Init
<1>1. FieldsTyped
  BY ClosedTyped, LoopTyped, PeersAssumption DEF FieldsTyped, Ids
<1>2. EndsHeld
  BY DEF EndsHeld, EndHeld, Closed
<1>3. LinksHeld /\ IdsComeFirst
  BY DEF LinksHeld, IdsComeFirst
<1>4. MainsInPlace
  BY LoopTyped DEF MainsInPlace, MainInPlace
<1>5. SlotsSuffice
  BY LoopTyped DEF SlotsSuffice, SlotsSufficeAt
<1> QED
  BY <1>1, <1>2, <1>3, <1>4, <1>5 DEF IInv

LEMMA StutterKeeps == IInv /\ UNCHANGED vars => IInv'
<1> SUFFICES ASSUME IInv, UNCHANGED vars PROVE IInv'
  OBVIOUS
<1>9. UNCHANGED <<conns, procVars, loading, link, known, main, db, clock, crashes>>
  BY DEF vars, procVars
<1>1. FieldsTyped'
  BY <1>9 DEF IInv, FieldsTyped, procVars
<1>2. EndsHeld' /\ LinksHeld'
  BY <1>9 DEF IInv, EndsHeld, EndHeld, LinksHeld, procVars
<1>3. IdsComeFirst'
  <2> SUFFICES ASSUME NEW p \in Nodes, NEW q \in Nodes, NEW d, d = link'[p][q], d # NoConn
               PROVE  IF AskingId(p, d)' THEN IdComing(d)' ELSE IdKnown(p, d)'
    BY DEF IdsComeFirst
  <2>0. d = link[p][q]
    BY <1>9
  <2>1. IF AskingId(p, d) THEN IdComing(d) ELSE IdKnown(p, d)
    BY <2>0 DEF IInv, IdsComeFirst
  <2>2. AskingId(p, d)' <=> AskingId(p, d)
    BY <1>9 DEF AskingId
  <2>3. IdComing(d) => IdComing(d)'
    BY <1>9 DEF IdComing, procVars
  <2>4. IdKnown(p, d) => IdKnown(p, d)'
    BY <1>9 DEF IdKnown, procVars
  <2> QED
    BY <2>1, <2>2, <2>3, <2>4
<1>4. MainsInPlace'
  BY <1>9 DEF IInv, MainsInPlace, MainInPlace, Waiting, procVars
<1>5. SlotsSuffice'
  <2> SUFFICES ASSUME NEW n \in Nodes PROVE SlotsSufficeAt(n)'
    BY DEF SlotsSuffice
  <2>1. Able(n)' = Able(n) /\ Left(n)' = Left(n) /\ main'[n] = main[n]
    BY <1>9 DEF Able, Left
  <2>2. SlotsSufficeAt(n)
    BY DEF IInv, SlotsSuffice
  <2> QED
    BY <2>1, <2>2 DEF SlotsSufficeAt
<1> QED
  BY <1>1, <1>2, <1>3, <1>4, <1>5 DEF IInv

LEMMA NextPreserves == IInv /\ [Next]_vars => IInv'
<1> SUFFICES ASSUME IInv, [Next]_vars PROVE IInv'
  OBVIOUS
<1>1. ASSUME NEW n \in Nodes, (\E now \in 1..MaxTime : Start(n, now)) \/ Crash(n)
      PROVE  IInv'
  BY <1>1, StartStep, CrashStep
<1>2. ASSUME NEW n \in Nodes, Timer(n)
      PROVE  IInv'
  BY <1>2, SeniorityStep, TimerConnectStep, TimerPingStep DEF Timer
<1>3. ASSUME NEW n \in Nodes, Callback(n)
      PROVE  IInv'
  <2>1. ASSUME BootConnect(n) \/ Listen(n) \/ AskNext(n) \/ StartDealing(n) \/ LoadLocal(n)
        PROVE  IInv'
    BY <2>1, BootConnectStep, ListenStep, AskNextStep, StartDealingStep, LoadLocalStep
  <2>2. ASSUME NEW k \in 0..MaxRead,
               Valid(n, k) \/ Invalid(n, k) \/ Count(n, k) \/ Deal(n, k) \/ PassOver(n, k)
        PROVE  IInv'
    BY <2>2, ValidStep, InvalidStep, AnswerStep
  <2>3. ASSUME NEW m \in Peers(n), GetId(n, m)
        PROVE  IInv'
    BY <2>3, GetIdStep
  <2>4. ASSUME NEW c \in ConnIds, Accept(n, c)
        PROVE  IInv'
    BY <2>4, AcceptStep
  <2> QED
    BY <1>3, <2>1, <2>2, <2>3, <2>4 DEF Callback
<1>4. ASSUME NEW c \in ConnIds, ServerStep(c)
      PROVE  IInv'
  BY <1>4, ServerReadStep, ServerReadErrorStep, ServerExitStep, ServerHandleStep, ServerLoadStep
     DEF ServerStep
<1> QED
  BY <1>1, <1>2, <1>3, <1>4, StutterKeeps DEF Next, MainStep

LEMMA IInvHolds == Spec => []IInv
BY InitHolds, NextPreserves, PTL DEF Spec

-----------------------------------------------------------------------------
\* The pings on the connections a process uses.

\* No ping is on its way over c, nor its answer.
Quiet(c) == Pings(conns[c].req) = {} /\ ~PingHandled(c) /\ conns[c].resp = <<>>

\* One ping at most is: sent, or handled, or answered.
OnePing(c) ==
  \/ /\ \E j : Pings(conns[c].req) \subseteq {j}
     /\ ~PingHandled(c) /\ conns[c].resp = <<>>
  \/ Pings(conns[c].req) = {} /\ conns[c].resp = <<>>
  \/ Pings(conns[c].req) = {} /\ ~PingHandled(c) /\ Len(conns[c].resp) <= 1

\* The opener has got the id, and every answer but the one it waits for.
InStep(n, c) ==
  ~AskingId(n, c) /\ Live(c) => OnePing(c) /\ (main[n].conn # c => Quiet(c))
PInv == \A n, m \in Nodes : link[n][m] # NoConn => InStep(n, link[n][m])

LEMMA NoPingsIn ==
  /\ Pings(<<>>) = {}
  /\ \A msg : msg # Ping => Pings(<<msg>>) = {}
<1>1. Pings(<<>>) = {}
  BY DEF Pings
<1>2. ASSUME NEW msg, msg # Ping PROVE Pings(<<msg>>) = {}
  <2>1. \A j \in 1..Len(<<msg>>) : <<msg>>[j] = msg
    OBVIOUS
  <2> QED
    BY <1>2, <2>1 DEF Pings
<1> QED
  BY <1>1, <1>2

LEMMA PingsInRest ==
  ASSUME NEW q \in Seq(Message), NEW k \in Nat
  PROVE  /\ Pings(q) = {} => Pings(Rest(q, k)) = {}
         /\ \A j : Pings(q) \subseteq {j} => \E i : Pings(Rest(q, k)) \subseteq {i}
         /\ k # 0 /\ q # <<>> /\ Head(q) = Ping /\ (\E j : Pings(q) \subseteq {j}) =>
              Pings(Rest(q, k)) = {}
         /\ q # <<>> /\ Head(q) = Ping => Pings(q) # {}
<1>1. \A j \in Pings(Rest(q, k)) : j + k \in Pings(q) /\ j \in Nat \ {0}
  BY RestOfSeq DEF Pings
<1>2. q # <<>> /\ Head(q) = Ping => 1 \in Pings(q)
  BY DEF Pings
<1>3. ASSUME NEW j, Pings(q) \subseteq {j}
      PROVE  \E i : Pings(Rest(q, k)) \subseteq {i}
  <2>1. CASE Pings(Rest(q, k)) = {}
    BY <2>1
  <2>2. CASE Pings(Rest(q, k)) # {}
    <3>1. PICK i \in Pings(Rest(q, k)) : TRUE
      BY <2>2
    <3>2. \A h \in Pings(Rest(q, k)) : h = i
      BY <1>1, <1>3, <3>1
    <3> QED
      BY <3>2
  <2> QED
    BY <2>1, <2>2
<1>4. ASSUME k # 0, q # <<>>, Head(q) = Ping, NEW j, Pings(q) \subseteq {j}
      PROVE  Pings(Rest(q, k)) = {}
  <2> SUFFICES ASSUME NEW h \in Pings(Rest(q, k)) PROVE FALSE
    OBVIOUS
  <2>1. h + k \in Pings(q) /\ 1 \in Pings(q) /\ h \in Nat \ {0}
    BY <1>1, <1>2, <1>4
  <2>2. h + k = 1
    BY <1>4, <2>1
  <2> QED
    BY <1>4, <2>1, <2>2
<1> QED
  BY <1>1, <1>2, <1>3, <1>4

LEMMA PingsInAppend ==
  ASSUME NEW q \in Seq(Message), NEW msg \in Message
  PROVE  /\ msg # Ping => Pings(Append(q, msg)) = Pings(q)
         /\ Pings(q) = {} => Pings(Append(q, msg)) \subseteq {Len(q) + 1}
<1>1. /\ Len(Append(q, msg)) = Len(q) + 1 /\ Len(q) \in Nat
      /\ \A j \in 1..Len(q) : Append(q, msg)[j] = q[j]
      /\ Append(q, msg)[Len(q) + 1] = msg
  BY AppendProperties, LenProperties
<1>2. \A j \in 1..(Len(q) + 1) : j \in 1..Len(q) \/ j = Len(q) + 1
  BY <1>1
<1>3. 1..Len(q) \subseteq 1..(Len(q) + 1)
  BY <1>1
<1> QED
  BY <1>1, <1>2, <1>3 DEF Pings

\* A connection is one process's, for one peer.
LEMMA LinkOnce ==
  ASSUME IInv, NEW n \in Nodes, NEW m \in Nodes, NEW p \in Nodes, NEW q \in Nodes,
         link[n][m] # NoConn, link[n][m] = link[p][q]
  PROVE  n = p /\ m = q /\ link[n][m] \in ConnIds
<1>1. link[n][m] \in ConnIds
  BY DEF IInv, FieldsTyped
<1>2. conns[link[n][m]].from = n /\ conns[link[n][m]].to = m
  BY DEF IInv, LinksHeld
<1>3. conns[link[p][q]].from = p /\ conns[link[p][q]].to = q
  BY DEF IInv, LinksHeld
<1> QED
  BY <1>1, <1>2, <1>3

\* A connection that a step does not touch stays in step, whatever the main
\* thread turns to, unless it was waiting there.
LEMMA Untouched ==
  ASSUME NEW n \in Nodes, NEW c, InStep(n, c), conns'[c] = conns[c],
         main'[n] = main[n] \/ (main[n].conn # c /\ main'[n].conn # c)
  PROVE  InStep(n, c)'
<1>1. (AskingId(n, c)' <=> AskingId(n, c)) /\ (main'[n].conn # c <=> main[n].conn # c)
  BY DEF AskingId
<1> QED
  BY <1>1 DEF InStep, Live, OnePing, Quiet, PingHandled

\* A step of the main thread that uses one connection at most, c.
LEMMA OneUsed ==
  ASSUME IInv, PInv, NEW n \in Nodes, NEW m \in Nodes, NEW c, link[n][m] = c, c # NoConn,
         link' = link, \A p \in Nodes : p # n => main'[p] = main[p],
         main[n].conn \in {c, NoConn}, main'[n].conn \in {c, NoConn},
         \A d \in ConnIds : d # c => conns'[d] = conns[d],
         InStep(n, c)'
  PROVE  PInv'
<1> SUFFICES ASSUME NEW p \in Nodes, NEW q \in Nodes, NEW d, d = link[p][q], d # NoConn
             PROVE  InStep(p, d)'
  BY DEF PInv
<1>1. InStep(p, d) /\ d \in ConnIds
  BY LinkOnce DEF PInv
<1>2. CASE d = c
  <2>1. link[n][m] # NoConn /\ link[n][m] = link[p][q]
    BY <1>2
  <2>2. p = n
    BY <2>1, LinkOnce
  <2> QED
    BY <1>2, <2>2
<1>3. CASE d # c
  BY <1>1, <1>3, Untouched
<1> QED
  BY <1>2, <1>3

\* The steps of peer_main.
LEMMA ServedInStep ==
  ASSUME IInv, PInv, NEW c \in ConnIds, ServerStep(c)
  PROVE  PInv'
<1>1. UNCHANGED <<procVars, link, main>>
  BY DEF ServerStep, ServerRead, ServerReadError, ServerExit, ServerHandle, ServerLoad, ServerLoaded
<1>2. conns \in [ConnIds -> Connection] /\ conns[c] \in Connection
      /\ conns[c].req \in Seq(Message) /\ conns[c].resp \in Seq(Message)
      /\ conns[c].input \in Message
  BY DEF IInv, FieldsTyped, Connection
<1>7. Ping \in Message
  BY MessagesTyped
<1>3. \A d \in ConnIds : d # c => conns'[d] = conns[d]
  <2>1. \E k : conns' = [conns EXCEPT ![c] = k]
    <3>1. CASE \E k \in 1..MaxRead : ServerRead(c, k)
      BY <3>1 DEF ServerRead
    <3>2. CASE ServerReadError(c) \/ ServerExit(c) \/ ServerLoad(c) \/ ServerLoaded(c)
      BY <3>2 DEF ServerReadError, ServerExit, ServerLoad, ServerLoaded
    <3>3. CASE ServerHandle(c)
      <4>1. PICK r \in Seq(Message) : Answered(conns, c, Ping) = [conns EXCEPT ![c] = [@ EXCEPT !.resp = r]]
        BY <1>2, <1>7, AnsweredOnly
      <4> QED
        BY <1>2, <3>3, <4>1 DEF ServerHandle
    <3> QED
      BY <3>1, <3>2, <3>3 DEF ServerStep
  <2> QED
    BY <1>2, <2>1
<1> SUFFICES ASSUME NEW n \in Nodes, NEW m \in Nodes, NEW d, d = link[n][m], d # NoConn
             PROVE  InStep(n, d)'
  BY <1>1 DEF PInv
<1>4. InStep(n, d) /\ d \in ConnIds
  BY LinkOnce DEF PInv
<1>5. CASE d # c
  BY <1>1, <1>3, <1>4, <1>5, Untouched
<1>6. CASE d = c
  <2> SUFFICES ASSUME ~AskingId(n, c), Live(c)', conns[c].open = conns'[c].open => Live(c)
               PROVE  OnePing(c)' /\ (main[n].conn # c => Quiet(c)')
    BY <1>1, <1>6 DEF InStep, AskingId, Live
  <2>1. CASE \E k \in 1..MaxRead : ServerRead(c, k)
    <3>1. PICK k \in 1..MaxRead : ServerRead(c, k)
      BY <2>1
    <3> DEFINE q == conns[c].req
               r == [conns[c] EXCEPT !.req = Rest(q, k), !.server = "spinning", !.input = Head(q)]
    <3>2. conns' = [conns EXCEPT ![c] = r] /\ conns[c].server = "reading" /\ k \in Reads(q)
      BY <3>1 DEF ServerRead
    <3>3. k \in Nat /\ k # 0 /\ q # <<>>
      BY <1>2, <3>2, ConnectionAssumption DEF Reads
    <3>4. /\ r.req = Rest(q, k) /\ r.server = "spinning" /\ r.input = Head(q)
          /\ r.resp = conns[c].resp /\ r.open = conns[c].open
      BY <1>2 DEF Connection
    <3>5. conns'[c] = r
      BY <1>2, <3>2
    <3> HIDE DEF r
    <3>6. OnePing(c) /\ (main[n].conn # c => Quiet(c)) /\ ~PingHandled(c)
      BY <1>4, <1>6, <3>2, <3>4, <3>5 DEF InStep, PingHandled
    <3> HIDE DEF q
    <3>7. /\ Pings(q) = {} => Pings(Rest(q, k)) = {}
          /\ \A j : Pings(q) \subseteq {j} => \E i : Pings(Rest(q, k)) \subseteq {i}
          /\ k # 0 /\ q # <<>> /\ Head(q) = Ping /\ (\E j : Pings(q) \subseteq {j}) =>
               Pings(Rest(q, k)) = {}
          /\ q # <<>> /\ Head(q) = Ping => Pings(q) # {}
      BY <1>2, <3>3, PingsInRest DEF q
    <3>8. PingHandled(c)' <=> Head(q) = Ping
      BY <3>4, <3>5 DEF PingHandled
    <3>9. CASE Pings(q) = {}
      BY <3>3, <3>4, <3>5, <3>6, <3>7, <3>8, <3>9 DEF OnePing, Quiet, q
    <3>10. CASE Pings(q) # {}
      <4>1. conns[c].resp = <<>> /\ main[n].conn = c /\ \E j : Pings(q) \subseteq {j}
        BY <3>6, <3>10 DEF OnePing, Quiet, q
      <4> QED
        BY <3>3, <3>4, <3>5, <3>7, <3>8, <4>1 DEF OnePing
    <3> QED
      BY <3>9, <3>10
  <2>2. CASE ServerHandle(c)
    <3>1. conns[c].server = "spinning"
      BY <2>2 DEF ServerHandle
    <3>2. CASE conns[c].input.type = "PING"
      <4>1. conns[c].input = Ping /\ PingHandled(c)
        BY <1>2, <3>1, <3>2, MessagesTyped DEF PingHandled
      <4>2. PICK r \in Seq(Message) :
              /\ r = IF "from" \in conns[c].open THEN Append(conns[c].resp, Ping) ELSE conns[c].resp
              /\ Answered(conns, c, Ping) = [conns EXCEPT ![c] = [@ EXCEPT !.resp = r]]
        BY <1>2, <1>7, AnsweredOnly
      <4> DEFINE s == [conns[c] EXCEPT !.resp = r, !.server = "reading"]
      <4>3. conns'[c] = s
        BY <1>2, <2>2, <3>2, <4>2 DEF ServerHandle
      <4>4. s.resp = r /\ s.server = "reading" /\ s.req = conns[c].req /\ s.open = conns[c].open
        BY <1>2 DEF Connection
      <4> HIDE DEF s
      <4>5. Live(c)
        BY <4>3, <4>4
      <4>6. OnePing(c) /\ (main[n].conn # c => Quiet(c))
        BY <1>4, <1>6, <4>5 DEF InStep
      <4>7. Pings(conns[c].req) = {} /\ conns[c].resp = <<>> /\ main[n].conn = c
        BY <4>1, <4>6 DEF OnePing, Quiet
      <4>8. r = Append(<<>>, Ping)
        BY <4>2, <4>5, <4>7 DEF Live
      <4>9. Len(r) <= 1
        BY <4>8
      <4>10. ~PingHandled(c)'
        BY <4>3, <4>4 DEF PingHandled
      <4> QED
        BY <4>3, <4>4, <4>7, <4>9, <4>10 DEF OnePing
    <3>3. CASE conns[c].input.type # "PING"
      <4>1. PICK at \in {"handling", "reading"} :
              conns' = [conns EXCEPT ![c] = [conns[c] EXCEPT !.server = at]]
        BY <2>2, <3>3 DEF ServerHandle
      <4> DEFINE s == [conns[c] EXCEPT !.server = at]
      <4>2. conns'[c] = s
        BY <1>2, <4>1
      <4>3. /\ s.resp = conns[c].resp /\ s.req = conns[c].req /\ s.open = conns[c].open
            /\ s.input = conns[c].input
        BY <1>2 DEF Connection
      <4> HIDE DEF s
      <4>4. ~PingHandled(c) /\ ~PingHandled(c)'
        BY <3>3, <4>2, <4>3, MessagesTyped DEF PingHandled
      <4>5. OnePing(c) /\ (main[n].conn # c => Quiet(c))
        BY <1>4, <1>6, <4>2, <4>3 DEF InStep
      <4> QED
        BY <4>2, <4>3, <4>4, <4>5 DEF OnePing, Quiet
    <3> QED
      BY <3>2, <3>3
  <2>3. CASE ServerLoad(c) \/ ServerLoaded(c)
    <3>1. conns[c].server \in {"handling", "loading"}
      BY <2>3 DEF ServerLoad, ServerLoaded
    <3>2. conns[c].input # Ping
      BY <3>1, MessagesTyped DEF IInv, EndsHeld, EndHeld
    <3>3. PICK at \in {"loading", "reading"} :
            conns' = [conns EXCEPT ![c] = [conns[c] EXCEPT !.server = at]]
      BY <2>3 DEF ServerLoad, ServerLoaded
    <3> DEFINE s == [conns[c] EXCEPT !.server = at]
    <3>4. conns'[c] = s
      BY <1>2, <3>3
    <3>5. /\ s.resp = conns[c].resp /\ s.req = conns[c].req /\ s.open = conns[c].open
          /\ s.input = conns[c].input
      BY <1>2 DEF Connection
    <3> HIDE DEF s
    <3>6. ~PingHandled(c) /\ ~PingHandled(c)'
      BY <3>2, <3>4, <3>5 DEF PingHandled
    <3>7. OnePing(c) /\ (main[n].conn # c => Quiet(c))
      BY <1>4, <1>6, <3>4, <3>5 DEF InStep
    <3> QED
      BY <3>4, <3>5, <3>6, <3>7 DEF OnePing, Quiet
  <2>4. CASE ServerReadError(c) \/ ServerExit(c)
    <3>1. "from" \notin conns[c].open
      BY <2>4 DEF ServerReadError, ServerExit
    <3>2. conns'[c] = Closed \/ conns'[c].open = conns[c].open
      BY <1>2, <2>4 DEF ServerReadError, ServerExit, Connection
    <3>3. Closed.open = {}
      BY DEF Closed
    <3>4. "from" \notin conns'[c].open
      BY <3>1, <3>2, <3>3
    <3>5. "from" \in conns'[c].open
      BY DEF Live
    <3> QED
      BY <3>4, <3>5
  <2> QED
    BY <2>1, <2>2, <2>3, <2>4 DEF ServerStep
<1> QED
  BY <1>5, <1>6

\* AskNext and TimerPing: a ping is sent on a quiet connection.
LEMMA PingSent ==
  ASSUME IInv, PInv, NEW n \in Nodes, NEW m \in Nodes, NEW c, link[n][m] = c, c # NoConn,
         main[n].conn = NoConn, conns' = Sent(conns, c, Ping),
         NEW t, main' = [main EXCEPT ![n] = t], t.conn = c,
         link' = link
  PROVE  PInv'
<1>1. c \in ConnIds /\ conns \in [ConnIds -> Connection] /\ conns[c] \in Connection
      /\ conns[c].req \in Seq(Message) /\ main \in [Nodes -> MainThread]
  BY DEF IInv, FieldsTyped, Connection
<1>2. main'[n] = t /\ \A p \in Nodes : p # n => main'[p] = main[p]
  BY <1>1
<1>3. /\ \A d \in ConnIds : d # c => conns'[d] = conns[d]
      /\ conns'[c].open = conns[c].open /\ conns'[c].resp = conns[c].resp
      /\ conns'[c].server = conns[c].server /\ conns'[c].input = conns[c].input
  BY <1>1, SentOnly, MessagesTyped DEF ButReq
<1>4. InStep(n, c)'
  <2> SUFFICES ASSUME Live(c)' PROVE OnePing(c)'
    BY <1>2 DEF InStep
  <2>1. Live(c) /\ ~AskingId(n, c) /\ main[n].conn # c
    BY <1>3 DEF Live, AskingId
  <2>2. Quiet(c)
    BY <2>1 DEF PInv, InStep
  <2>3. conns'[c].req = Append(conns[c].req, Ping)
    <3>1. conns'[c] = [conns[c] EXCEPT !.req = Append(@, Ping)]
      BY <1>1, <2>1 DEF Sent, Live
    <3> QED
      BY <1>1, <3>1 DEF Connection
  <2>4. Pings(conns'[c].req) \subseteq {Len(conns[c].req) + 1}
    BY <1>1, <2>2, <2>3, PingsInAppend, MessagesTyped DEF Quiet
  <2>5. ~PingHandled(c)' /\ conns'[c].resp = <<>>
    BY <1>3, <2>2 DEF Quiet, PingHandled
  <2> QED
    BY <2>4, <2>5 DEF OnePing
<1> QED
  BY <1>2, <1>3, <1>4, OneUsed

LEMMA AsksInStep ==
  ASSUME IInv, PInv, NEW n \in Nodes,
         AskNext(n) \/ \E m \in Peers(n) : TimerPing(n, m)
  PROVE  PInv'
<1>1. main[n] \in MainThread /\ MainInPlace(n)
  BY DEF IInv, FieldsTyped, MainsInPlace
<1>2. CASE AskNext(n)
  <2> DEFINE rest == Linked(n, main[n].rest)
             m == NextOf(rest)
             c == link[n][m]
             t == [main[n] EXCEPT !.conn = c, !.rest = rest \ {m}]
  <2>1. /\ main[n].at \in {"count", "share"} /\ main[n].conn = NoConn /\ rest # {}
        /\ conns' = Sent(conns, c, Ping) /\ main' = [main EXCEPT ![n] = t] /\ link' = link
    BY <1>2 DEF AskNext
  <2>2. m \in main[n].rest /\ c # NoConn
    BY <2>1, NextInRest
  <2>3. m \in Nodes
    BY <1>1, <2>2 DEF MainThread
  <2>4. t.conn = c
    BY <1>1 DEF MainThread
  <2> HIDE DEF rest, m, c, t
  <2> QED
    BY <2>1, <2>2, <2>3, <2>4, PingSent DEF c
<1>3. ASSUME NEW m \in Peers(n), TimerPing(n, m) PROVE PInv'
  <2> DEFINE c == link[n][m]
             t == [Loop EXCEPT !.at = "check", !.conn = c]
  <2>1. /\ main[n].conn = NoConn /\ c # NoConn /\ m \in Nodes
        /\ conns' = Sent(conns, c, Ping) /\ main' = [main EXCEPT ![n] = t] /\ link' = link
    BY <1>1, <1>3 DEF TimerPing, Idle, Awaiting, MainInPlace, Peers
  <2>2. t.conn = c
    BY DEF Loop
  <2> HIDE DEF c, t
  <2> QED
    BY <2>1, <2>2, PingSent DEF c
<1> QED
  BY <1>2, <1>3

\* Valid, Count, Deal and PassOver: the answer is read, or there will be none.
LEMMA AnswersInStep ==
  ASSUME IInv, PInv, NEW n \in Nodes, NEW k \in 0..MaxRead,
         Valid(n, k) \/ Count(n, k) \/ Deal(n, k) \/ PassOver(n, k)
  PROVE  PInv'
<1> SUFFICES ASSUME NEW c, c = main[n].conn, NEW m, m = conns[c].to, NEW q, q = conns[c].resp
             PROVE  PInv'
  OBVIOUS
<1>1. main[n].at \in {"check", "count", "share"} /\ (main[n].at # "check" => c # NoConn)
      /\ link' = link
  BY DEF Valid, Count, Deal, PassOver
<1>2. c \in ConnIds /\ m \in Nodes /\ link[n][m] = c /\ c # NoConn
  BY <1>1, WaitsOn DEF Peers, ConnIds, NoConn
<1>3. conns \in [ConnIds -> Connection] /\ main \in [Nodes -> MainThread] /\ main[n] \in MainThread
      /\ conns[c] \in Connection /\ q \in Seq(Message) /\ k \in Nat
      /\ conns[c].req \in Seq(Message)
  BY <1>2, ConnectionAssumption DEF IInv, FieldsTyped, Connection
<1>4. main'[n].conn = NoConn /\ \A p \in Nodes : p # n => main'[p] = main[p]
  <2>1. \E t : main' = [main EXCEPT ![n] = t] /\ t.conn = NoConn
    <3>1. CASE Valid(n, k)
      BY <3>1, LoopTyped DEF Valid
    <3>2. CASE Count(n, k)
      <4>1. main' = [main EXCEPT ![n] = [main[n] EXCEPT !.conn = NoConn, !.count = @ + 1]]
        BY <3>2 DEF Count
      <4>2. [main[n] EXCEPT !.conn = NoConn, !.count = @ + 1].conn = NoConn
        BY <1>3 DEF MainThread
      <4> QED
        BY <4>1, <4>2
    <3>3. CASE Deal(n, k)
      <4>1. main' = [main EXCEPT ![n] = [main[n] EXCEPT !.conn = NoConn, !.slot = @ + 1]]
        BY <3>3 DEF Deal
      <4>2. [main[n] EXCEPT !.conn = NoConn, !.slot = @ + 1].conn = NoConn
        BY <1>3 DEF MainThread
      <4> QED
        BY <4>1, <4>2
    <3>4. CASE PassOver(n, k)
      <4>1. main' = [main EXCEPT ![n] = [main[n] EXCEPT !.conn = NoConn]]
        BY <3>4 DEF PassOver, PassedOver
      <4>2. [main[n] EXCEPT !.conn = NoConn].conn = NoConn
        BY <1>3 DEF MainThread
      <4> QED
        BY <4>1, <4>2
    <3> QED
      BY <3>1, <3>2, <3>3, <3>4
  <2> QED
    BY <1>3, <2>1
<1>5. /\ Read(Received(c, k), c)
      /\ Received(c, k)[c].req = conns[c].req /\ Received(c, k)[c].resp = Rest(q, k)
  <2>1. Received(c, k) = [conns EXCEPT ![c] = [@ EXCEPT !.resp = Rest(q, k)]]
    BY <1>2, <1>3, ReceivedOnly
  <2>2. Received(c, k)[c] = [conns[c] EXCEPT !.resp = Rest(q, k)]
    BY <1>2, <1>3, <2>1
  <2> QED
    BY <1>1, <1>3, <2>2, ReadsOnly DEF Connection
<1>6. InStep(n, c)
  BY <1>2 DEF PInv
<1>7. \E load \in Message :
        /\ load # Ping
        /\ conns' = Received(c, k) \/ conns' = Sent(Received(c, k), c, load)
  <2> DEFINE load == Msg("LOAD", Share(main[n].slot, main[n].count))
  <2>1. load \in Message /\ load # Ping
    <3>1. Share(main[n].slot, main[n].count) \in SUBSET Fragments
      BY DEF Share
    <3>2. load.type = "LOAD"
      BY DEF Msg
    <3> QED
      BY <3>1, <3>2, MessagesTyped
  <2>2. conns' = Received(c, k) \/ conns' = Sent(Received(c, k), c, load)
    BY DEF Valid, Count, Deal, PassOver
  <2> QED
    BY <2>1, <2>2
<1>8. PICK load \in Message :
        /\ load # Ping
        /\ conns' = Received(c, k) \/ conns' = Sent(Received(c, k), c, load)
  BY <1>7
<1>9. Read(conns', c) /\ conns'[c].resp = Rest(q, k)
      /\ Pings(conns'[c].req) = Pings(conns[c].req)
  <2>1. CASE conns' = Received(c, k)
    BY <1>5, <2>1
  <2>2. CASE conns' = Sent(Received(c, k), c, load)
    <3> DEFINE cs == Received(c, k)
    <3>1. cs \in [ConnIds -> Connection] /\ cs[c] \in Connection
      BY <1>2, <1>5 DEF Read
    <3>2. Read(conns', c) /\ conns'[c].resp = cs[c].resp
      BY <1>2, <1>5, <2>2, <3>1, SentRead, SentOnly DEF ButReq
    <3> HIDE DEF cs
    <3>3. conns'[c].req = cs[c].req \/ conns'[c].req = Append(cs[c].req, load)
      <4>1. conns'[c] = cs[c] \/ conns'[c] = [cs[c] EXCEPT !.req = Append(@, load)]
        BY <1>2, <2>2, <3>1 DEF Sent, cs
      <4> QED
        BY <3>1, <4>1 DEF Connection
    <3>4. Pings(conns'[c].req) = Pings(cs[c].req)
      BY <1>3, <1>5, <1>8, <3>3, PingsInAppend DEF cs
    <3> QED
      BY <1>5, <3>2, <3>4 DEF cs
  <2> QED
    BY <1>8, <2>1, <2>2
<1>10. InStep(n, c)'
  <2> SUFFICES ASSUME Live(c)' PROVE Quiet(c)'
    <3>1. Quiet(c)' => OnePing(c)'
      BY DEF Quiet, OnePing
    <3> QED
      BY <3>1 DEF InStep
  <2>1. Live(c)
    BY <1>9 DEF Live, Read
  <2>2. ~Dead(c)
    BY <2>1 DEF Dead, Live
  <2>3. PingAnswered(c, k)
    <3>1. ~PingFails(c, k)
      BY <1>1, <2>2, FailsAtEnd
    <3> QED
      BY <3>1 DEF Valid, Count, Deal, PassOver
  <2>4. k \in 1..MaxRead /\ k <= Len(q) /\ Len(q) \in Nat /\ q # <<>>
    BY <1>3, <2>3 DEF PingAnswered, Reads
  <2>5. OnePing(c)
    BY <1>1, <1>6, <2>1 DEF InStep, AskingId
  <2>6. Len(q) <= 1 /\ Pings(conns[c].req) = {} /\ ~PingHandled(c)
    BY <2>4, <2>5 DEF OnePing
  <2>7. Rest(q, k) = <<>>
    <3>1. Len(q) <= k
      BY <1>3, <2>4, <2>6
    <3> QED
      BY <1>3, <3>1, RestOfSeq
  <2> QED
    BY <1>9, <2>6, <2>7 DEF Quiet, PingHandled, Read
<1> QED
  BY <1>1, <1>2, <1>4, <1>9, <1>10, OneUsed DEF Read

\* The steps of a process that is neither asking nor reading anything.
LEMMA RestsInStep ==
  ASSUME IInv, PInv, NEW n \in Nodes,
         \/ \E now \in 1..MaxTime : Start(n, now)
         \/ StartDealing(n) \/ LoadLocal(n) \/ Listen(n)
  PROVE  PInv'
<1>1. main \in [Nodes -> MainThread] /\ main[n] \in MainThread /\ MainInPlace(n)
  BY DEF IInv, FieldsTyped, MainsInPlace
<1>2. UNCHANGED <<conns, link>> /\ main[n].conn = NoConn
  BY <1>1, LoopTyped DEF Start, StartDealing, LoadLocal, Listen, RoundOver, MainInPlace
<1>3. \E t : main' = [main EXCEPT ![n] = t] /\ t.conn = NoConn
  <2>1. CASE \E now \in 1..MaxTime : Start(n, now)
    <3>1. main' = [main EXCEPT ![n] = [Loop EXCEPT !.at = "boot", !.rest = Peers(n)]]
      BY <2>1 DEF Start
    <3>2. [Loop EXCEPT !.at = "boot", !.rest = Peers(n)].conn = NoConn
      BY DEF Loop
    <3> QED
      BY <3>1, <3>2
  <2>2. CASE StartDealing(n)
    <3>1. main' = [main EXCEPT ![n] = [main[n] EXCEPT !.at = "share", !.slot = FirstPeerSlot,
                                                      !.rest = Peers(n)]]
      BY <2>2 DEF StartDealing
    <3>2. [main[n] EXCEPT !.at = "share", !.slot = FirstPeerSlot, !.rest = Peers(n)].conn = NoConn
      BY <1>1, <1>2 DEF MainThread
    <3> QED
      BY <3>1, <3>2
  <2>3. CASE LoadLocal(n) \/ Listen(n)
    BY <2>3, LoopTyped DEF LoadLocal, Listen
  <2> QED
    BY <2>1, <2>2, <2>3
<1>4. main'[n].conn = NoConn /\ \A p \in Nodes : p # n => main'[p] = main[p]
  BY <1>1, <1>3
<1> SUFFICES ASSUME NEW p \in Nodes, NEW q \in Nodes, NEW d, d = link[p][q], d # NoConn
             PROVE  InStep(p, d)'
  BY <1>2 DEF PInv
<1>5. InStep(p, d)
  BY DEF PInv
<1> QED
  BY <1>2, <1>4, <1>5, Untouched

LEMMA GetsIdInStep ==
  ASSUME IInv, PInv, NEW n \in Nodes, NEW m \in Peers(n), GetId(n, m)
  PROVE  PInv'
<1> SUFFICES ASSUME NEW c, c = main[n].conn
             PROVE  PInv'
  OBVIOUS
<1>1. /\ main[n].at = "id" /\ m = conns[c].to /\ LoadIfLeader(n, m) /\ link' = link
  BY DEF GetId
<1>2. c \in ConnIds /\ link[n][m] = c /\ c # NoConn /\ m \in Nodes /\ "from" \in conns[c].open
  BY <1>1, WaitsOn DEF Peers, ConnIds, NoConn
<1>3. IdComing(c)
  BY <1>1, <1>2 DEF IInv, IdsComeFirst, AskingId
<1>4. /\ conns \in [ConnIds -> Connection] /\ conns[c] \in Connection
      /\ conns[c].resp \in Seq(Message)
      /\ main \in [Nodes -> MainThread] /\ main[n] \in MainThread
  BY <1>2 DEF IInv, FieldsTyped, Connection
<1>5. main'[n].conn = NoConn /\ \A p \in Nodes : p # n => main'[p] = main[p]
  <2>1. \E t : main' = [main EXCEPT ![n] = t] /\ t.conn = NoConn
    <3>1. CASE BeginLoad(n)
      <4>1. main' = [main EXCEPT ![n] = [Loop EXCEPT !.at = "count", !.count = 1, !.rest = Peers(n)]]
        BY <3>1 DEF BeginLoad
      <4>2. [Loop EXCEPT !.at = "count", !.count = 1, !.rest = Peers(n)].conn = NoConn
        BY DEF Loop
      <4> QED
        BY <4>1, <4>2
    <3>2. CASE Resume(n, m)
      <4>1. main' = [main EXCEPT ![n] = [main[n] EXCEPT !.at = Resting(n), !.conn = NoConn,
                                                        !.rest = @ \ {m}]]
        BY <3>2 DEF Resume
      <4>2. [main[n] EXCEPT !.at = Resting(n), !.conn = NoConn, !.rest = @ \ {m}].conn = NoConn
        BY <1>4 DEF MainThread
      <4> QED
        BY <4>1, <4>2
    <3> QED
      BY <1>1, <3>1, <3>2 DEF LoadIfLeader
  <2> QED
    BY <1>4, <2>1
<1>6. CASE Dead(c) /\ UNCHANGED conns
  <2>1. InStep(n, c)'
    BY <1>6 DEF InStep, Live, Dead
  <2> QED
    BY <1>1, <1>2, <1>5, <1>6, <2>1, OneUsed
<1>7. CASE conns[c].resp # <<>> /\ conns' = Received(c, 1)
  <2> DEFINE r == [conns[c] EXCEPT !.resp = Rest(conns[c].resp, 1)]
  <2>1. conns' = [conns EXCEPT ![c] = r]
    BY <1>2, <1>4, <1>7, ReceivedOnly
  <2>2. /\ r.req = conns[c].req /\ r.resp = Rest(conns[c].resp, 1) /\ r.open = conns[c].open
        /\ r.server = conns[c].server
    BY <1>4 DEF Connection
  <2> HIDE DEF r
  <2>3. conns'[c] = r /\ \A d \in ConnIds : d # c => conns'[d] = conns[d]
    BY <1>2, <1>4, <2>1
  <2>4. InStep(n, c)'
    <3> SUFFICES ASSUME Live(c)' PROVE Quiet(c)'
      <4>1. Quiet(c)' => OnePing(c)'
        BY DEF Quiet, OnePing
      <4> QED
        BY <4>1 DEF InStep
    <3>1. "to" \in conns[c].open
      BY <2>2, <2>3 DEF Live
    <3>2. conns[c].server = "reading" /\ conns[c].req = <<>> /\ Len(conns[c].resp) = 1
      <4>1. /\ conns[c].server = "reading" /\ conns[c].req = <<>>
            /\ conns[c].resp = <<Msg("ID", {id[conns[c].to]})>>
        BY <1>3, <1>7, <3>1 DEF IdComing
      <4> QED
        BY <4>1
    <3>3. Rest(conns[c].resp, 1) = <<>>
      <4>1. conns[c].resp \in Seq(Message) /\ 1 \in Nat /\ Len(conns[c].resp) <= 1
        BY <1>4, <3>2
      <4> QED
        BY ONLY <4>1, RestOfSeq
    <3> QED
      BY <2>2, <2>3, <3>2, <3>3 DEF Quiet, PingHandled, Pings
  <2> QED
    BY <1>1, <1>2, <1>5, <2>3, <2>4, OneUsed
<1> QED
  BY <1>6, <1>7 DEF GetId

LEMMA AcceptsInStep ==
  ASSUME IInv, PInv, NEW n \in Nodes, NEW c \in ConnIds, Accept(n, c)
  PROVE  PInv'
<1>1. conns[c].server = "backlog" /\ main' = main /\ link' = link
  BY DEF Accept
<1>2. \A d \in ConnIds : d # c => conns'[d] = conns[d]
  <2>1. conns \in [ConnIds -> Connection] /\ Msg("ID", {id[n]}) \in Message
    BY MessagesTyped DEF IInv, FieldsTyped, Ids
  <2>2. PICK r \in Seq(Message) :
          Answered(conns, c, Msg("ID", {id[n]})) = [conns EXCEPT ![c] = [@ EXCEPT !.resp = r]]
    BY <2>1, AnsweredOnly
  <2>3. PICK k \in Reads(conns[c].req) :
          conns' = [Answered(conns, c, Msg("ID", {id[n]})) EXCEPT
                      ![c].req = Rest(@, k), ![c].server = "reading"]
    BY DEF Accept
  <2> QED
    BY <2>1, <2>2, <2>3
<1> SUFFICES ASSUME NEW p \in Nodes, NEW q \in Nodes, NEW d, d = link[p][q], d # NoConn
             PROVE  InStep(p, d)'
  BY <1>1 DEF PInv
<1>3. InStep(p, d) /\ d \in ConnIds
  BY LinkOnce DEF PInv
<1>4. CASE d = c
  <2>1. IF AskingId(p, d) THEN IdComing(d) ELSE IdKnown(p, d)
    BY DEF IInv, IdsComeFirst
  <2>2. AskingId(p, d)
    BY <1>1, <1>4, <2>1 DEF IdKnown
  <2> QED
    BY <1>1, <2>2 DEF InStep, AskingId
<1>5. CASE d # c
  BY <1>1, <1>2, <1>3, <1>5, Untouched
<1> QED
  BY <1>4, <1>5

LEMMA LeadsInStep ==
  ASSUME IInv, PInv, NEW n \in Nodes, Seniority(n)
  PROVE  PInv'
<1>1. /\ main[n].at = "loop" /\ link' = link
      /\ conns' = [c \in ConnIds |->
                     IF \E m \in Peers(n) : link[n][m] = c
                     THEN Sent(conns, c, Coordinator)[c] ELSE conns[c]]
      /\ main' = [main EXCEPT ![n] = [Loop EXCEPT !.at = "count", !.count = 1, !.rest = Peers(n)]]
  BY DEF Seniority, BeginLoad, Idle
<1>2. /\ conns \in [ConnIds -> Connection] /\ main \in [Nodes -> MainThread] /\ MainInPlace(n)
  BY DEF IInv, FieldsTyped, MainsInPlace
<1>3. main[n].conn = NoConn
  BY <1>1, <1>2 DEF MainInPlace
<1>4. main'[n].conn = NoConn /\ \A p \in Nodes : p # n => main'[p] = main[p]
  <2>1. [Loop EXCEPT !.at = "count", !.count = 1, !.rest = Peers(n)].conn = NoConn
    BY DEF Loop
  <2> QED
    BY <1>1, <1>2, <2>1
<1> SUFFICES ASSUME NEW p \in Nodes, NEW q \in Nodes, NEW d, d = link[p][q], d # NoConn
             PROVE  InStep(p, d)'
  BY <1>1 DEF PInv
<1>5. InStep(p, d) /\ d \in ConnIds
  BY LinkOnce DEF PInv
<1>6. conns'[d] = conns[d] \/ conns'[d] = Sent(conns, d, Coordinator)[d]
  BY <1>1, <1>5
<1>7. CASE p = n
  <2>1. /\ conns'[d].open = conns[d].open /\ conns'[d].resp = conns[d].resp
        /\ conns'[d].server = conns[d].server /\ conns'[d].input = conns[d].input
    BY <1>2, <1>5, <1>6, SentOnly, MessagesTyped DEF ButReq
  <2>2. Pings(conns'[d].req) = Pings(conns[d].req)
    <3>1. conns[d] \in Connection /\ conns[d].req \in Seq(Message)
      BY <1>2, <1>5 DEF Connection
    <3>2. conns'[d] = conns[d] \/ conns'[d] = [conns[d] EXCEPT !.req = Append(@, Coordinator)]
      BY <1>2, <1>5, <1>6 DEF Sent
    <3>3. conns'[d].req = conns[d].req \/ conns'[d].req = Append(conns[d].req, Coordinator)
      BY <3>1, <3>2 DEF Connection
    <3>4. Coordinator \in Message /\ Coordinator # Ping
      BY MessagesTyped
    <3> QED
      BY <3>1, <3>3, <3>4, PingsInAppend
  <2> SUFFICES ASSUME Live(d)' PROVE Quiet(d)'
    <3>1. Quiet(d)' => OnePing(d)'
      BY DEF Quiet, OnePing
    <3> QED
      BY <3>1 DEF InStep
  <2>3. Live(d) /\ ~AskingId(p, d) /\ main[p].conn # d
    BY <1>3, <1>7, <2>1 DEF Live, AskingId
  <2>4. Quiet(d)
    BY <1>5, <2>3 DEF InStep
  <2> QED
    BY <2>1, <2>2, <2>4 DEF Quiet, PingHandled
<1>8. CASE p # n
  <2>1. ASSUME NEW m \in Peers(n) PROVE link[n][m] # d
    <3> SUFFICES ASSUME link[n][m] = d PROVE FALSE
      OBVIOUS
    <3>1. m \in Nodes /\ link[n][m] # NoConn /\ link[n][m] = link[p][q]
      BY DEF Peers
    <3> QED
      BY <1>8, <3>1, LinkOnce
  <2>2. conns'[d] = conns[d]
    BY <1>1, <1>5, <2>1
  <2> QED
    BY <1>4, <1>5, <1>8, <2>2, Untouched
<1> QED
  BY <1>7, <1>8

LEMMA DiesInStep ==
  ASSUME IInv, PInv, NEW n \in Nodes, Crash(n)
  PROVE  PInv'
<1>1. /\ conns' = Dropped(n) /\ link' = [link EXCEPT ![n] = [m \in Nodes |-> NoConn]]
      /\ main' = [main EXCEPT ![n] = Loop]
  BY DEF Crash, Down
<1>2. link \in [Nodes -> [Nodes -> ConnIds \cup {NoConn}]] /\ main \in [Nodes -> MainThread]
  BY DEF IInv, FieldsTyped
<1> SUFFICES ASSUME NEW p \in Nodes, NEW q \in Nodes, NEW d, d = link'[p][q], d # NoConn
             PROVE  InStep(p, d)'
  BY DEF PInv
<1>3. p # n /\ d = link[p][q] /\ main'[p] = main[p]
  BY <1>1, <1>2
<1>4. InStep(p, d) /\ d \in ConnIds
  BY <1>3, LinkOnce DEF PInv
<1>5. CASE Live(d)'
  <2>1. conns'[d] = Dropped(n)[d] /\ "from" \in conns'[d].open /\ "to" \in conns'[d].open
    BY <1>1, <1>5 DEF Live
  <2>2. conns'[d] = conns[d]
    BY <1>4, <2>1, DroppedTyped
  <2> QED
    BY <1>3, <1>4, <2>2, Untouched
<1>6. CASE ~Live(d)'
  BY <1>6 DEF InStep
<1> QED
  BY <1>5, <1>6

LEMMA ConnectsInStep ==
  ASSUME IInv, PInv, NEW n \in Nodes, NEW m \in Peers(n), NEW cs \in [ConnIds -> Connection],
         \A d \in ConnIds : cs[d] = conns[d] \/ (cs[d] = Closed /\ d = link[n][m]),
         main[n].conn \in {NoConn, link[n][m]},
         Connects(n, m, cs)
  PROVE  PInv'
<1>1. /\ main \in [Nodes -> MainThread] /\ main[n] \in MainThread /\ m \in Nodes
      /\ link \in [Nodes -> [Nodes -> ConnIds \cup {NoConn}]]
  BY DEF IInv, FieldsTyped, Peers
<1>2. PICK c \in ConnIds \cup {NoConn} : \E t :
        /\ link' = [link EXCEPT ![n][m] = c] /\ main' = [main EXCEPT ![n] = t] /\ t.conn = c
        /\ c # NoConn => t.at = "id" /\ cs[c].open = {}
        /\ \A d \in ConnIds : d # c => conns'[d] = cs[d]
  <2>1. CASE \E c \in ConnIds :
               /\ cs[c].open = {} /\ conns' = [cs EXCEPT ![c] = Opened(n, m)]
               /\ link' = [link EXCEPT ![n][m] = c]
               /\ main' = [main EXCEPT ![n].at = "id", ![n].conn = c]
    <3>1. PICK c \in ConnIds :
            /\ cs[c].open = {} /\ conns' = [cs EXCEPT ![c] = Opened(n, m)]
            /\ link' = [link EXCEPT ![n][m] = c]
            /\ main' = [main EXCEPT ![n].at = "id", ![n].conn = c]
      BY <2>1
    <3> DEFINE t == [main[n] EXCEPT !.at = "id", !.conn = c]
    <3>2. main' = [main EXCEPT ![n] = t]
      BY <1>1, <3>1
    <3>3. t.at = "id" /\ t.conn = c
      BY <1>1 DEF MainThread
    <3>4. \A d \in ConnIds : d # c => conns'[d] = cs[d]
      BY <3>1
    <3>5. c \in ConnIds \cup {NoConn} /\ cs[c].open = {} /\ link' = [link EXCEPT ![n][m] = c]
      BY <3>1
    <3> HIDE DEF t
    <3> QED
      BY <3>2, <3>3, <3>4, <3>5
  <2>2. CASE /\ conns' = cs /\ link' = [link EXCEPT ![n][m] = NoConn]
             /\ LoadIfLeader(n, m) \/ Resume(n, m)
    <3>1. \E t : main' = [main EXCEPT ![n] = t] /\ t.conn = NoConn
      <4>1. CASE BeginLoad(n)
        <5>1. main' = [main EXCEPT ![n] = [Loop EXCEPT !.at = "count", !.count = 1, !.rest = Peers(n)]]
          BY <4>1 DEF BeginLoad
        <5>2. [Loop EXCEPT !.at = "count", !.count = 1, !.rest = Peers(n)].conn = NoConn
          BY DEF Loop
        <5> QED
          BY <5>1, <5>2
      <4>2. CASE Resume(n, m)
        <5>1. main' = [main EXCEPT ![n] = [main[n] EXCEPT !.at = Resting(n), !.conn = NoConn,
                                                          !.rest = @ \ {m}]]
          BY <4>2 DEF Resume
        <5>2. [main[n] EXCEPT !.at = Resting(n), !.conn = NoConn, !.rest = @ \ {m}].conn = NoConn
          BY <1>1 DEF MainThread
        <5> QED
          BY <5>1, <5>2
      <4> QED
        BY <2>2, <4>1, <4>2 DEF LoadIfLeader
    <3> QED
      BY <2>2, <3>1
  <2> QED
    BY <2>1, <2>2 DEF Connects
<1>6. PICK t :
        /\ link' = [link EXCEPT ![n][m] = c] /\ main' = [main EXCEPT ![n] = t] /\ t.conn = c
        /\ c # NoConn => t.at = "id" /\ cs[c].open = {}
        /\ \A d \in ConnIds : d # c => conns'[d] = cs[d]
  BY <1>2
<1>3. /\ main'[n] = t /\ \A p \in Nodes : p # n => main'[p] = main[p]
      /\ link'[n][m] = c
      /\ \A p, q \in Nodes : p # n \/ q # m => link'[p][q] = link[p][q]
  BY <1>1, <1>6
<1> SUFFICES ASSUME NEW p \in Nodes, NEW q \in Nodes, NEW d, d = link'[p][q], d # NoConn
             PROVE  InStep(p, d)'
  BY DEF PInv
<1>4. CASE p = n /\ q = m
  BY <1>6, <1>3, <1>4 DEF InStep, AskingId
<1>5. CASE p # n \/ q # m
  <2>1. d = link[p][q] /\ d \in ConnIds
    BY <1>1, <1>3, <1>5
  <2>2. InStep(p, d) /\ conns[d].open # {}
    BY <2>1 DEF PInv, IInv, LinksHeld
  <2>3. d # link[n][m]
    <3> SUFFICES ASSUME d = link[n][m] PROVE FALSE
      OBVIOUS
    <3>1. link[p][q] # NoConn /\ link[p][q] = link[n][m]
      BY <2>1
    <3> QED
      BY <1>1, <1>5, <3>1, LinkOnce
  <2>4. cs[d] = conns[d] /\ d # c /\ conns'[d] = conns[d]
    BY <1>6, <2>1, <2>2, <2>3
  <2>5. main'[p] = main[p] \/ (main[p].conn # d /\ main'[p].conn # d)
    BY <1>6, <1>3, <2>3, <2>4
  <2> QED
    BY <2>2, <2>4, <2>5, Untouched
<1> QED
  BY <1>4, <1>5

LEMMA ConnectingInStep ==
  ASSUME IInv, PInv, NEW n \in Nodes,
         \/ BootConnect(n) \/ \E m \in Peers(n) : TimerConnect(n, m)
         \/ \E k \in 0..MaxRead : Invalid(n, k)
  PROVE  PInv'
<1>1. MainInPlace(n) /\ conns \in [ConnIds -> Connection]
  BY DEF IInv, FieldsTyped, MainsInPlace
<1>2. CASE BootConnect(n)
  <2>1. PICK m : m = NextOf(main[n].rest)
    OBVIOUS
  <2>2. main[n].at = "boot" /\ main[n].rest # {} /\ Connect(n, m, conns, FALSE)
    BY <1>2, <2>1 DEF BootConnect
  <2>3. m \in Peers(n) /\ main[n].conn = NoConn
    BY <1>1, <2>1, <2>2 DEF NextOf, MainInPlace
  <2>4. Connects(n, m, conns)
    BY <2>2 DEF Connect, Connects
  <2> QED
    BY <1>1, <2>3, <2>4, ConnectsInStep
<1>3. ASSUME NEW m \in Peers(n), TimerConnect(n, m) PROVE PInv'
  <2>1. main[n].at = "loop" /\ Connect(n, m, conns, FALSE)
    BY <1>3 DEF TimerConnect, Idle
  <2>2. main[n].conn = NoConn
    BY <1>1, <2>1 DEF MainInPlace
  <2>3. Connects(n, m, conns)
    BY <2>1 DEF Connect, Connects
  <2> QED
    BY <1>1, <2>2, <2>3, ConnectsInStep
<1>4. ASSUME NEW k \in 0..MaxRead, Invalid(n, k) PROVE PInv'
  <2> SUFFICES ASSUME NEW c, c = main[n].conn, NEW m, m = conns[c].to, NEW cs, cs = GivenUp(c, k)
               PROVE  PInv'
    OBVIOUS
  <2>1. main[n].at = "check" /\ PingFails(c, k) /\ Connect(n, m, cs, TRUE)
    BY <1>4 DEF Invalid
  <2>2. c \in ConnIds /\ m \in Peers(n) /\ link[n][m] = c
    BY <2>1, WaitsOn
  <2>3. cs = [conns EXCEPT ![c] = Closed]
    BY <2>1, FailsAtEnd DEF GivenUp
  <2>4. Closed \in Connection
    BY ClosedTyped
  <2>5. cs \in [ConnIds -> Connection]
    BY <1>1, <2>3, <2>4
  <2>6. \A d \in ConnIds : cs[d] = conns[d] \/ (cs[d] = Closed /\ d = link[n][m])
    BY <1>1, <2>2, <2>3
  <2>7. Connects(n, m, cs)
    BY <2>1 DEF Connect, Connects
  <2> QED
    BY <2>2, <2>5, <2>6, <2>7, ConnectsInStep
<1> QED
  BY <1>2, <1>3, <1>4

LEMMA PInvPreserved == IInv /\ PInv /\ [Next]_vars => PInv'
<1> SUFFICES ASSUME IInv, PInv, [Next]_vars PROVE PInv'
  OBVIOUS
<1>1. ASSUME NEW n \in Nodes, (\E now \in 1..MaxTime : Start(n, now)) \/ Crash(n)
      PROVE  PInv'
  BY <1>1, RestsInStep, DiesInStep
<1>2. ASSUME NEW n \in Nodes, Timer(n)
      PROVE  PInv'
  BY <1>2, LeadsInStep, ConnectingInStep, AsksInStep DEF Timer
<1>3. ASSUME NEW n \in Nodes, Callback(n)
      PROVE  PInv'
  <2>1. ASSUME BootConnect(n) \/ Listen(n) \/ AskNext(n) \/ StartDealing(n) \/ LoadLocal(n)
        PROVE  PInv'
    BY <2>1, ConnectingInStep, RestsInStep, AsksInStep
  <2>2. ASSUME NEW k \in 0..MaxRead,
               Valid(n, k) \/ Invalid(n, k) \/ Count(n, k) \/ Deal(n, k) \/ PassOver(n, k)
        PROVE  PInv'
    BY <2>2, AnswersInStep, ConnectingInStep
  <2>3. ASSUME NEW m \in Peers(n), GetId(n, m)
        PROVE  PInv'
    BY <2>3, GetsIdInStep
  <2>4. ASSUME NEW c \in ConnIds, Accept(n, c)
        PROVE  PInv'
    BY <2>4, AcceptsInStep
  <2> QED
    BY <1>3, <2>1, <2>2, <2>3, <2>4 DEF Callback
<1>4. ASSUME NEW c \in ConnIds, ServerStep(c)
      PROVE  PInv'
  BY <1>4, ServedInStep
<1>5. ASSUME UNCHANGED vars PROVE PInv'
  <2> SUFFICES ASSUME NEW p \in Nodes, NEW q \in Nodes, NEW d, d = link[p][q], d # NoConn
               PROVE  InStep(p, d)'
    BY <1>5 DEF PInv, vars
  <2>1. InStep(p, d)
    BY DEF PInv
  <2> QED
    BY <1>5, <2>1, Untouched DEF vars
<1> QED
  BY <1>1, <1>2, <1>3, <1>4, <1>5 DEF Next, MainStep

-----------------------------------------------------------------------------
\* What follows.

(* The peers' state keeps its types: among them, that the counts and slots *)
(* of load_database stay within the number of peers and that only a        *)
(* process that is up leads.                                               *)
THEOREM TypeCorrect == Spec => []TypeOK
<1>1. IInv => TypeOK
  <2> SUFFICES ASSUME IInv PROVE TypeOK
    OBVIOUS
  <2>1. ASSUME NEW c \in ConnIds
        PROVE  /\ conns[c].from \in Nodes \cup {NoConn} /\ conns[c].to \in Nodes \cup {NoConn}
               /\ conns[c].open \subseteq {"from", "to"} /\ conns[c].server \in ServerStates
               /\ conns[c].open = {} => conns[c] = Closed
    <3>1. conns[c] \in Connection /\ EndHeld(c)
      BY DEF IInv, FieldsTyped, EndsHeld
    <3> QED
      BY <3>1 DEF Connection, EndHeld
  <2>2. ASSUME NEW n \in Nodes
        PROVE  /\ main[n].at \in {"boot", "loop", "id", "check", "count", "share"}
               /\ main[n].conn \in ConnIds \cup {NoConn}
               /\ main[n].count \in 0..Cardinality(Nodes)
               /\ main[n].slot \in 0..Cardinality(Nodes)
    <3>1. main[n] \in MainThread /\ MainInPlace(n) /\ SlotsSufficeAt(n)
      BY DEF IInv, FieldsTyped, MainsInPlace, SlotsSuffice
    <3>2. main[n].count \in Nat /\ main[n].slot \in Nat /\ Cardinality(Nodes) \in Nat
      BY <3>1, NodesFinite DEF MainThread
    <3>3. main[n].at \in {"count", "share"} =>
            Cardinality(Left(n)) \in Nat /\ Cardinality(Able(n) \cap Left(n)) \in Nat
      BY NodesFinite, LeftTyped
    <3>4. main[n].count <= Cardinality(Nodes) /\ main[n].slot <= Cardinality(Nodes)
      <4>1. CASE main[n].at = "count"
        <5>1. main[n].slot = 0
          BY <3>1, <4>1 DEF MainInPlace
        <5> QED
          BY <3>1, <3>2, <3>3, <4>1, <5>1 DEF SlotsSufficeAt
      <4>2. CASE main[n].at = "share"
        BY <3>1, <3>2, <3>3, <4>2 DEF SlotsSufficeAt
      <4>3. CASE main[n].at \notin {"count", "share"}
        BY <3>1, <3>2, <4>3 DEF MainInPlace
      <4> QED
        BY <4>1, <4>2, <4>3
    <3> QED
      BY <3>1, <3>2, <3>4 DEF MainThread
  <2> QED
    BY <2>1, <2>2 DEF TypeOK, IInv, FieldsTyped, MainsInPlace
<1> QED
  BY IInvHolds, <1>1, PTL

(* load_database's assertion never fires: only a leader's main thread is   *)
(* ever inside it.                                                         *)
THEOREM LeadersLoad == Spec => []OnlyLeadersLoad
<1>1. IInv => OnlyLeadersLoad
  BY DEF IInv, MainsInPlace, MainInPlace, OnlyLeadersLoad
<1> QED
  BY IInvHolds, <1>1, PTL

(* However many peers die and come back between the two pings that         *)
(* load_database sends each, the slots it deals are those it made.         *)
THEOREM SlotsAreInRange == Spec => []SlotsInRange
<1>1. IInv => SlotsInRange
  <2> SUFFICES ASSUME IInv, NEW n \in Nodes, main[n].at = "share"
               PROVE  main[n].slot <= main[n].count
    BY DEF SlotsInRange
  <2>1. main[n] \in MainThread /\ SlotsSufficeAt(n)
    BY DEF IInv, FieldsTyped, SlotsSuffice
  <2>2. Cardinality(Able(n) \cap Left(n)) \in Nat
    BY NodesFinite, LeftTyped
  <2>3. main[n].slot \in Nat /\ main[n].count \in Nat
    BY <2>1 DEF MainThread
  <2> QED
    BY <2>1, <2>2, <2>3 DEF SlotsSufficeAt
<1> QED
  BY IInvHolds, <1>1, PTL

(* The id on record for a peer with a live connection is that peer's own,  *)
(* whatever died, restarted or connected again.                            *)
THEOREM IdsAreAccurate == Spec => []IdsAccurate
<1>1. IInv => IdsAccurate
  BY DEF IInv, LinksHeld, IdsComeFirst, AskingId, IdKnown, IdsAccurate, Live
<1> QED
  BY IInvHolds, <1>1, PTL

(* A process takes the lead only over processes that started no earlier.   *)
THEOREM SeniorityIsRespected == Spec => SeniorityRespected
<1> DEFINE Step == \A n \in leaders' \ leaders, m \in Nodes :
                     link[n][m] # NoConn /\ Live(link[n][m]) => id[m] >= id[n]
<1>1. ASSUME IInv, Next PROVE Step
  <2> SUFFICES ASSUME NEW n \in leaders' \ leaders, NEW m \in Nodes,
                      link[n][m] # NoConn, Live(link[n][m])
               PROVE  id[m] >= id[n]
    OBVIOUS
  <2>1. \E p \in Nodes : Seniority(p)
    <3>1. ASSUME NEW c \in ConnIds, ServerStep(c)
          PROVE  leaders' = leaders
      BY <3>1 DEF ServerStep, ServerRead, ServerReadError, ServerExit, ServerHandle, ServerLoad,
                  ServerLoaded, procVars
    <3>2. ASSUME NEW p \in Nodes, NEW now \in 1..MaxTime, Start(p, now)
          PROVE  leaders' = leaders
      BY <3>2 DEF Start
    <3>3. ASSUME NEW p \in Nodes, Crash(p)
          PROVE  leaders' \subseteq leaders
      BY <3>3 DEF Crash, Down
    <3>4. ASSUME NEW p \in Nodes, Callback(p)
          PROVE  leaders' = leaders
      BY <3>4 DEF Callback, BootConnect, Listen, AskNext, StartDealing, LoadLocal, Valid, Invalid,
                  Count, Deal, PassOver, GetId, Accept, procVars
    <3>5. ASSUME NEW p \in Nodes, NEW q \in Peers(p), TimerConnect(p, q) \/ TimerPing(p, q)
          PROVE  leaders' = leaders
      BY <3>5 DEF TimerConnect, TimerPing, procVars
    <3> QED
      BY <1>1, <3>1, <3>2, <3>3, <3>4, <3>5 DEF Next, MainStep, Timer
  <2>2. PICK p \in Nodes : Seniority(p)
    BY <2>1
  <2>3. n = p /\ IsOldest(n) /\ main[n].at = "loop"
    BY <2>2 DEF Seniority, Idle
  <2>4. m \in Peers(n) /\ known[n][m] = id[m]
    BY <1>1, <2>2, <2>3 DEF IInv, LinksHeld, IdsComeFirst, AskingId, IdKnown, Live, Peers
  <2> QED
    BY <2>3, <2>4 DEF IsOldest
<1>2. ASSUME UNCHANGED vars PROVE Step
  BY <1>2 DEF vars
<1>3. IInv /\ [Next]_vars => [Step]_vars
  BY <1>1, <1>2
<1> HIDE DEF Step
<1>4. Spec => [][Step]_vars
  BY IInvHolds, <1>3, PTL DEF Spec
<1> QED
  BY <1>4 DEF SeniorityRespected, Step

(* Requests and answers stay in step: on a live connection at most one     *)
(* ping is sent, being handled or answered, and none unless the opener     *)
(* waits for its answer, so no answer is taken for that of an earlier      *)
(* ping, whoever died or connected again meanwhile.                        *)
THEOREM PingsStayInStep == Spec => []PingsInStep
<1>1. Init => PInv
  BY DEF Init, PInv
<1>2. Spec => [](IInv /\ PInv)
  BY <1>1, InitHolds, NextPreserves, PInvPreserved, PTL DEF Spec
<1>3. IInv /\ PInv => PingsInStep
  <2> SUFFICES ASSUME IInv, PInv, NEW n \in Nodes, NEW m \in Nodes, NEW c, c = link[n][m],
                      c # NoConn, Live(c)
               PROVE  PingsUnderWay(c) <= IF main[n].conn = c /\ main[n].at # "id" THEN 1 ELSE 0
    BY DEF PingsInStep
  <2> DEFINE asked == Cardinality(Pings(conns[c].req))
             answered == Cardinality(Pings(conns[c].resp))
             handled == IF PingHandled(c) THEN 1 ELSE 0
  <2>1. conns[c] \in Connection /\ conns[c].resp \in Seq(Message)
    BY LinkOnce DEF IInv, FieldsTyped, Connection
  <2>2. /\ \A q : Pings(q) = {} => Cardinality(Pings(q)) = 0
        /\ \A q, j : Pings(q) \subseteq {j} => Cardinality(Pings(q)) \in {0, 1}
        /\ Pings(<<>>) = {}
    <3>1. Cardinality({}) = 0 /\ \A j : Cardinality({j}) = 1
      BY FS_EmptySet, FS_Singleton
    <3>2. ASSUME NEW S, NEW j, S \subseteq {j} PROVE Cardinality(S) \in {0, 1}
      <4>1. S = {} \/ S = {j}
        BY <3>2
      <4> QED
        BY <3>1, <4>1
    <3> QED
      BY <3>1, <3>2, NoPingsIn
  <2>3. PingsUnderWay(c) = asked + answered + handled
    BY DEF PingsUnderWay
  <2>4. CASE AskingId(n, c)
    <3>1. IdComing(c) /\ "to" \in conns[c].open
      BY <2>4 DEF IInv, IdsComeFirst, Live
    <3>2. Pings(conns[c].req) = {} /\ Pings(conns[c].resp) = {} /\ ~PingHandled(c)
      <4>1. CASE conns[c].server = "backlog" /\ conns[c].req = <<IdReq>> /\ conns[c].resp = <<>>
        <5>1. IdReq # Ping
          BY MessagesTyped
        <5> QED
          BY <4>1, <5>1, NoPingsIn DEF PingHandled
      <4>2. CASE /\ conns[c].server = "reading" /\ conns[c].req = <<>>
                 /\ conns[c].resp = <<Msg("ID", {id[conns[c].to]})>>
        <5>1. PICK msg : msg = Msg("ID", {id[conns[c].to]})
          OBVIOUS
        <5>2. msg.type = "ID"
          BY <5>1 DEF Msg
        <5>4. msg # Ping
          BY <5>2, MessagesTyped
        <5> QED
          BY <4>2, <5>1, <5>4, NoPingsIn DEF PingHandled
      <4> QED
        BY <3>1, <4>1, <4>2 DEF IdComing
    <3>3. asked = 0 /\ answered = 0 /\ handled = 0
      BY <2>2, <3>2
    <3> HIDE DEF asked, answered, handled
    <3> QED
      BY <2>3, <3>3
  <2>5. CASE ~AskingId(n, c)
    <3>1. OnePing(c) /\ (main[n].conn # c => Quiet(c)) /\ (main[n].conn = c => main[n].at # "id")
      BY <2>5 DEF PInv, InStep, AskingId
    <3>2. CASE Quiet(c)
      <4>1. asked = 0 /\ answered = 0 /\ handled = 0
        BY <2>2, <3>2 DEF Quiet
      <4> HIDE DEF asked, answered, handled
      <4> QED
        BY <2>3, <4>1
    <3>3. CASE main[n].conn = c
      <4>1. CASE conns[c].resp = <<>>
        <5>1. asked \in {0, 1} /\ answered = 0 /\ (PingHandled(c) => asked = 0)
          BY <2>2, <3>1, <4>1 DEF OnePing
        <5>2. handled \in {0, 1} /\ (handled = 1 => asked = 0)
          BY <5>1
        <5> HIDE DEF asked, answered, handled
        <5> QED
          BY <2>3, <3>1, <3>3, <5>1, <5>2
      <4>2. CASE conns[c].resp # <<>>
        <5>1. Pings(conns[c].req) = {} /\ ~PingHandled(c) /\ Len(conns[c].resp) <= 1
          BY <3>1, <4>2 DEF OnePing
        <5>2. Pings(conns[c].resp) \subseteq {1}
          BY <2>1, <5>1 DEF Pings
        <5>3. asked = 0 /\ answered \in {0, 1} /\ handled = 0
          BY <2>2, <5>1, <5>2
        <5> HIDE DEF asked, answered, handled
        <5> QED
          BY <2>3, <3>1, <3>3, <5>3
      <4> QED
        BY <4>1, <4>2
    <3> QED
      BY <3>1, <3>2, <3>3
  <2> QED
    BY <2>4, <2>5
<1> QED
  BY <1>2, <1>3, PTL
=============================================================================
