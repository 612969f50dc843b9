------------------------------ MODULE Sessions ------------------------------
(***************************************************************************)
(* Clients and their queries, over the peers: client_connection,           *)
(* client_main and the QUERY branch of peer_main in src/net/main.c, and    *)
(* the client program, src/gtk-client/main.c.                              *)
(*                                                                         *)
(* A client connects with every process and keeps the one that says it     *)
(* leads.  The leader has a thread for each client it accepted.  It hands  *)
(* a query to its peers on the connections the main thread pings them on,  *)
(* runs it on its own share of the database, reads one answer from each    *)
(* peer, and sends the client all of them.  db_querying keeps the timers   *)
(* of a process from using those connections meanwhile.                    *)
(*                                                                         *)
(* The peers begin as they serve: one leads, connections are live and the  *)
(* fragments are dealt (Serving of Peers).  A result is the set of its     *)
(* rows <<query, fragment>>: what a query returns on a fragment is the     *)
(* business of SQL.                                                        *)
(***************************************************************************)
EXTENDS Peers

CONSTANTS
  Clients,     \* client programs
  Leader,      \* the process that leads at first
  Connected,   \* the clients that have found it by then
  Queries,     \* the texts of queries
  Long,        \* those whose results do not fit a read's 255 bytes
  Overlap,     \* "no": a query begins only between the main thread's callbacks
               \* and other clients' queries, "yes": at any time
  Pinging,     \* bound: the processes whose timers run
  MaxSessions, \* bound: client connections open at once
  MaxQueries,  \* bound: queries a client sends
  MaxTroubles  \* bound: deaths and queries with long results together

ASSUME SessionsAssumption ==
  /\ Leader \in Nodes /\ Connected \subseteq Clients /\ IsFiniteSet(Clients)
  /\ Cardinality(Connected) <= MaxSessions /\ Long \subseteq Queries
  /\ Overlap \in {"yes", "no"} /\ Pinging \subseteq Nodes
  /\ MaxSessions \in Nat /\ MaxQueries \in Nat /\ MaxTroubles \in Nat
  /\ MaxConns >= Cardinality(Nodes) * (Cardinality(Nodes) - 1)
  /\ MaxTime >= Cardinality(Nodes)

VARIABLES
  session,  \* a client's connection and the thread client_main that serves it
  gui,      \* the client programs
  querying, \* the processes whose db_querying is set
  longs,    \* how many queries with long results were sent
  sound     \* history: the sessions whose query began with all the leader's
            \* connections in order and during which no process has died

peerVars == vars
sessionVars == <<session, gui, querying, longs, sound>>
allVars == <<peerVars, sessionVars>>

SessionIds == 1..MaxSessions
NoSession == 0

Syn == Msg("LEADER_SYN", {})
Ack == Msg("LEADER_ACK", {})
Query(q) == Msg("QUERY", {q})
Answer(q) == Msg("ANSWER", {q})
TryAgain == Msg("TRY_AGAIN", {})
\* What a buffer holds that nothing was read into.
Unwritten == Msg("UNWRITTEN", {})
\* What is left of a string after 255 bytes.
Remainder == Msg("REMAINDER", {})

Only(S) == CHOOSE e \in S : TRUE

\* A string as the messages the reads of its receiver return.
Split(q, msg) == IF q \in Long THEN <<msg, Remainder>> ELSE <<msg>>

\* records_list_to_string (database_query (db, q)), and as it is written.
Rows(q, n) == {q} \X db[n]
Result(q, n) == Msg(IF q \in Long THEN "PART" ELSE "RESULT", Rows(q, n))

FreeSession == [client |-> NoConn, node |-> NoConn, open |-> {}, req |-> <<>>,
                resp |-> <<>>, at |-> "none", input |-> NoMsg, rest |-> {},
                conn |-> NoConn, peer |-> NoConn, count |-> 0, slot |-> 0, answer |-> <<>>,
                owing |-> {}, failed |-> "no"]
\* poll_server has connected and written LEADER_SYN.
NewSession(k, n) == [FreeSession EXCEPT !.client = k, !.node = n, !.req = <<Syn>>,
                                        !.open = {"client", "server"}, !.at = "backlog"]

ThreadStates == {"none", "backlog", "reading", "spinning", "asking", "executing",
                 "collecting", "count", "share", "ended"}

NewClient == [at |-> "idle", leader |-> NoSession, rest |-> <<>>,
              polled |-> <<>>, sent |-> 0, query |-> NoConn, shown |-> NoMsg]

SessionsTypeOK ==
  /\ TypeOK
  /\ \A i \in SessionIds :
       /\ session[i].client \in Clients \cup {NoConn}
       /\ session[i].node \in Nodes \cup {NoConn}
       /\ session[i].open \subseteq {"client", "server"}
       /\ session[i].at \in ThreadStates
       /\ session[i].conn \in ConnIds \cup {NoConn}
       /\ session[i].open = {} => session[i] = FreeSession
  /\ \A k \in Clients :
       /\ gui[k].at \in {"idle", "polling", "connect", "send", "waiting", "gone"}
       /\ gui[k].leader # NoSession => session[gui[k].leader].client = k
       /\ gui[k].sent \in 0..MaxQueries
  /\ querying \subseteq {n \in Nodes : phase[n] = "up"}
  /\ sound \subseteq SessionIds

-----------------------------------------------------------------------------
\* The processes, in the order they started.
Servers == <<Leader>> \o SetToSeq(Peers(Leader))
Members == Len(Servers)
Position(n) == CHOOSE i \in 1..Members : Servers[i] = n
\* The connection that n opened to m.
FirstConn(n, m) ==
  (Position(n) - 1) * (Members - 1)
  + Position(m) - (IF Position(m) > Position(n) THEN 1 ELSE 0)

\* n has connected with m: as it started, if m was there, or by its timer,
\* which has run at the leader and where Pinging lets it.
HasConnected(n, m) ==
  \/ Position(m) < Position(n)
  \/ n # m /\ n \in Pinging \cup {Leader}

ServingInit ==
  LET pairs == {p \in Nodes \X Nodes : HasConnected(p[1], p[2])} IN
  /\ conns = [c \in ConnIds |->
       IF \E p \in pairs : FirstConn(p[1], p[2]) = c
       THEN LET p == CHOOSE p \in pairs : FirstConn(p[1], p[2]) = c
            IN  [Opened(p[1], p[2]) EXCEPT !.req = <<>>, !.server = "reading"]
       ELSE Closed]
  /\ phase = [n \in Nodes |-> "up"] /\ id = [n \in Nodes |-> Position(n)]
  /\ leaders = {Leader} /\ loading = {}
  /\ link = [n \in Nodes |-> [m \in Nodes |->
               IF HasConnected(n, m) THEN FirstConn(n, m) ELSE NoConn]]
  /\ known = [n \in Nodes |-> [m \in Nodes |->
                IF HasConnected(n, m) THEN Position(m) ELSE 0]]
  /\ main = [n \in Nodes |-> Loop]
  /\ db = [n \in Nodes |-> Share(Position(n) - 1, Members)]
  /\ clock = Members /\ crashes = 0

SessionsInit ==
  LET first == SetToSeq(Connected) IN
  /\ ServingInit
  /\ session = [i \in SessionIds |->
       IF i \in DOMAIN first
       THEN [NewSession(first[i], Leader) EXCEPT !.req = <<>>, !.at = "reading"]
       ELSE FreeSession]
  /\ gui = [k \in Clients |-> [NewClient EXCEPT !.leader =
       IF k \in Connected THEN CHOOSE i \in DOMAIN first : first[i] = k ELSE NoSession]]
  /\ querying = {} /\ longs = 0 /\ sound = {}

-----------------------------------------------------------------------------
\* One end of a client's connection is closed.
Shut(i, end) ==
  LET open == session[i].open \ {end} IN
  IF open = {} THEN FreeSession
  ELSE IF end = "client" THEN [session[i] EXCEPT !.open = open, !.resp = <<>>]
  ELSE [FreeSession EXCEPT !.client = session[i].client, !.node = session[i].node,
                           !.open = open, !.resp = session[i].resp]

\* The process n has ended, with the threads of its clients.
Ended(n) ==
  /\ session' = [i \in SessionIds |->
       IF session[i].node = n THEN Shut(i, "server") ELSE session[i]]
  /\ querying' = querying \ {n} /\ sound' = {}
  /\ UNCHANGED <<gui, longs>>

Die(n) == crashes + longs < MaxTroubles /\ Crash(n) /\ Ended(n)

(* The client program.  A button's callback runs to its end, blocking on   *)
(* reads; nothing else happens in the program meanwhile.                   *)

\* What a read of the client returns: a message, nothing (end of file), or
\* an error.
ClientReads(i) ==
  IF session[i].resp # <<>> THEN {Head(session[i].resp)}
  ELSE IF "server" \in session[i].open THEN {} ELSE {Unwritten, NoMsg}
Consumed(i) == [session EXCEPT ![i].resp = IF @ = <<>> THEN @ ELSE Tail(@)]

\* What a client writes is kept if the other end is open.
Requested(ss, i, msg) ==
  IF "server" \in ss[i].open THEN [ss EXCEPT ![i].req = Append(@, msg)] ELSE ss

Polling(g) == [g EXCEPT !.at = "polling", !.rest = Servers]

\* A button is clicked.  has_valid_leader pings the leader if there is one;
\* without one, connect goes on to look for it and send does nothing.
Click(k, button) ==
  LET leader == gui[k].leader IN
  /\ gui[k].at = "idle" /\ gui[k].sent < MaxQueries
  /\ IF leader = NoSession
     THEN /\ button = "connect"
          /\ gui' = [gui EXCEPT ![k] = Polling(@)]
          /\ UNCHANGED session
     ELSE /\ session' = Requested(session, leader, Ping)
          /\ gui' = [gui EXCEPT ![k].at = button]
  /\ UNCHANGED <<peerVars, querying, longs, sound>>

\* poll_server, for the next address: whoever listens is connected with.
PollServer(k) ==
  LET n == Head(gui[k].rest) IN
  /\ gui[k].at = "polling" /\ gui[k].rest # <<>>
  /\ IF phase[n] = "up"
     THEN \E i \in SessionIds :
            /\ session[i] = FreeSession
            /\ \A j \in 1..(i - 1) : session[j] # FreeSession
            /\ session' = [session EXCEPT ![i] = NewSession(k, n)]
            /\ gui' = [gui EXCEPT ![k].rest = Tail(@), ![k].polled = <<i>> \o @]
     ELSE /\ gui' = [gui EXCEPT ![k].rest = Tail(@)]
          /\ UNCHANGED session
  /\ UNCHANGED <<peerVars, querying, longs, sound>>

\* A connection the client forgets without closing it; of one that the other
\* end has closed nothing is left.
Forgotten(ss, i) ==
  IF "server" \in ss[i].open THEN ss ELSE [ss EXCEPT ![i] = FreeSession]

\* A slip in connect_to_leader: the leader's connection is closed too.
AllPolled(polled) == Range(polled)

\* The connections still on the list once the first has answered.
OthersPolled(polled) == Range(Tail(polled))

\* connect_to_leader reads from the connections it made, the last one first.
\* Who does not lead closes, which no later try changes.
FindLeader(k) ==
  LET g == gui[k]
      i == Head(g.polled)
      others == OthersPolled(g.polled) IN
  /\ g.at = "polling" /\ g.rest = <<>>
  /\ IF g.polled = <<>>
     THEN /\ gui' = [gui EXCEPT ![k].at = "idle"]
          /\ UNCHANGED session
     ELSE \E msg \in ClientReads(i) :
       IF msg = Ack
       THEN /\ session' = [j \in SessionIds |->
                 IF j \in others THEN Shut(j, "client") ELSE Consumed(i)[j]]
            /\ gui' = [gui EXCEPT ![k].at = "idle", ![k].polled = <<>>, ![k].leader = i]
       ELSE /\ session' = Forgotten(Consumed(i), i)
            /\ gui' = [gui EXCEPT ![k].polled = Tail(@)]
  /\ UNCHANGED <<peerVars, querying, longs, sound>>

\* A slip in ping(): whatever arrives is taken for the answer.
PingBelieved(msg) == msg \notin {Unwritten, NoMsg}

\* strncmp (input, "PING", 4) == 0
PingSucceeds(msg) == msg = Ping

\* The ping of has_valid_leader returns.  send goes on to write the query;
\* when the leader is gone, connect goes on to look for another.
Pinged(k) ==
  LET i == gui[k].leader
      forgotten == [gui EXCEPT ![k].leader = NoSession] IN
  /\ gui[k].at \in {"connect", "send"}
  /\ \E msg \in ClientReads(i), q \in Queries :
       CASE PingSucceeds(msg) /\ gui[k].at = "send" ->
              /\ q \in Long => crashes + longs < MaxTroubles
              /\ longs' = longs + (IF q \in Long THEN 1 ELSE 0)
              /\ session' = Requested(Consumed(i), i, Query(q))
              /\ gui' = [gui EXCEPT ![k].at = "waiting", ![k].sent = @ + 1, ![k].query = q]
         [] PingSucceeds(msg) /\ gui[k].at = "connect" ->
              /\ session' = Consumed(i)
              /\ gui' = [gui EXCEPT ![k].at = "idle"]
              /\ UNCHANGED longs
         [] OTHER ->
              /\ session' = Forgotten(Consumed(i), i)
              /\ gui' = [forgotten EXCEPT ![k] =
                   IF @.at = "send" THEN [@ EXCEPT !.at = "idle"] ELSE Polling(@)]
              /\ UNCHANGED longs
  /\ UNCHANGED <<peerVars, querying, sound>>

\* The answer is shown, or on an error the leader forgotten.
Reply(k) ==
  LET i == gui[k].leader IN
  /\ gui[k].at = "waiting"
  /\ \E msg \in ClientReads(i) :
       IF msg = NoMsg
       THEN /\ session' = Forgotten(Consumed(i), i)
            /\ gui' = [gui EXCEPT ![k].at = "idle", ![k].leader = NoSession]
       ELSE /\ session' = Consumed(i)
            /\ gui' = [gui EXCEPT ![k].at = "idle", ![k].shown = msg]
  /\ UNCHANGED <<peerVars, querying, longs, sound>>

\* The client program ends, at any point.
Quit(k) ==
  /\ gui[k].at # "gone"
  /\ gui' = [gui EXCEPT ![k] = [NewClient EXCEPT !.at = "gone", !.sent = gui[k].sent]]
  /\ session' = [i \in SessionIds |->
       IF session[i].client = k THEN Shut(i, "client") ELSE session[i]]
  /\ UNCHANGED <<peerVars, querying, longs, sound>>

-----------------------------------------------------------------------------
(* The leader: client_connection, and a thread client_main per client.     *)

\* write_to_connection_str to the client.
Told(ss, i, msgs) ==
  IF "client" \in ss[i].open THEN [ss EXCEPT ![i].resp = @ \o msgs] ELSE ss
Thread(i, at) == [session EXCEPT ![i].at = at]
NodeOf(i) == session[i].node

\* The listener's callback, in the main thread: a leader starts a thread,
\* others close the connection.
ClientConnection(i) ==
  /\ session[i].at = "backlog" /\ Idle(NodeOf(i))
  /\ session' = IF NodeOf(i) \in leaders
                THEN [Told(session, i, <<Ack>>) EXCEPT ![i].at = "reading", ![i].req = <<>>]
                ELSE [session EXCEPT ![i] = Shut(i, "server")]
  /\ UNCHANGED <<peerVars, gui, querying, longs, sound>>

ClientRead(i) ==
  /\ session[i].at = "reading" /\ session[i].req # <<>>
  /\ session' = [session EXCEPT ![i].at = "spinning", ![i].req = Tail(@),
                                ![i].input = Head(session[i].req)]
  /\ UNCHANGED <<peerVars, gui, querying, longs, sound>>

\* An error is -1, which as a gsize is positive: the buffer is taken for a
\* message again.  It is returned once.
ClientReadError(i) ==
  /\ session[i].at = "reading" /\ session[i].req = <<>>
  /\ "client" \notin session[i].open /\ session[i].failed = "no"
  /\ session' = [session EXCEPT ![i].at = "spinning", ![i].failed = "yes"]
  /\ UNCHANGED <<peerVars, gui, querying, longs, sound>>

\* End of file: ping() fails too and the thread ends.
ClientExit(i) ==
  /\ session[i].at = "reading" /\ session[i].req = <<>>
  /\ "client" \notin session[i].open
  /\ session' = [session EXCEPT ![i] = Shut(i, "server")]
  /\ UNCHANGED <<peerVars, gui, querying, longs, sound>>

\* while (db_loading == TRUE); and the next message.
ClientHandle(i) ==
  /\ session[i].at = "spinning" /\ NodeOf(i) \notin loading
  /\ session[i].input.type # "QUERY"
  /\ session' = IF session[i].input = Ping
                THEN Told(Thread(i, "reading"), i, <<Ping>>) ELSE Thread(i, "reading")
  /\ UNCHANGED <<peerVars, gui, querying, longs, sound>>

\* A query was written to c that its server has not answered.
QueryUnderWay(c) ==
  \/ \E msg \in Range(conns[c].req) : msg.type = "QUERY"
  \/ conns[c].server = "querying"
  \/ conns[c].server = "spinning" /\ conns[c].input.type = "QUERY"

\* Something is left on c to be read, now or once its server has answered.
Owes(c) == conns[c].resp # <<>> \/ PingsUnderWay(c) > 0 \/ QueryUnderWay(c)

\* All of n's connections are live, and nothing is left on them to be read, now
\* or later, but the answer that the main thread waits for.
InOrder(n) ==
  \A m \in Peers(n) :
    LET c == link[n][m] IN
    c # NoConn =>
      /\ Live(c) /\ conns[c].resp = <<>> /\ ~QueryUnderWay(c)
      /\ PingsUnderWay(c) <= IF main[n].conn = c THEN 1 ELSE 0

Quiet(n) == main[n].at = "loop" /\ n \notin querying

\* db_querying = TRUE
QueryBegin(i) ==
  LET n == NodeOf(i) IN
  /\ session[i].at = "spinning" /\ n \notin loading
  /\ session[i].input.type = "QUERY"
  /\ Overlap = "no" => Quiet(n)
  /\ querying' = querying \cup {n}
  /\ session' = [Thread(i, "asking") EXCEPT ![i].rest = Peers(n)]
  /\ sound' = IF InOrder(n) THEN sound \cup {i} ELSE sound \ {i}
  /\ UNCHANGED <<peerVars, gui, longs>>

\* The peers the thread has still to write to, or to read from.
PeersLeft(i) == Linked(NodeOf(i), session[i].rest)

\* The query is handed to the next peer.
AskPeer(i) ==
  LET m == NextOf(PeersLeft(i)) IN
  /\ session[i].at = "asking" /\ PeersLeft(i) # {}
  /\ conns' = Sent(conns, link[NodeOf(i)][m], session[i].input)
  /\ session' = [session EXCEPT ![i].rest = PeersLeft(i) \ {NextOf(PeersLeft(i))}]
  /\ UNCHANGED <<procVars, loading, link, known, main, db, clock, crashes,
                 gui, querying, longs, sound>>

\* Another thread of the process is at a read of c.  GLib refuses a read of a
\* stream that another read is pending on; only with Overlap does it come to that.
Contended(i, c) ==
  main[NodeOf(i)].conn = c \/ \E j \in SessionIds \ {i} : session[j].conn = c

\* p->connection = NULL, and load_database begins, in this thread; owing keeps,
\* as history, which of the other peers owed it an answer by then.
Disconnected(i, m, c) ==
  LET n == NodeOf(i) IN
  /\ link' = [link EXCEPT ![n][m] = NoConn]
  /\ conns' = IF Contended(i, c) THEN conns ELSE [conns EXCEPT ![c] = Closed]
  /\ loading' = loading \cup {n}
  /\ session' = [session EXCEPT ![i].at = "count", ![i].count = 1, ![i].conn = NoConn,
                                ![i].peer = NoConn, ![i].rest = Peers(n),
                                ![i].owing = {p \in Linked(n, Nodes \ {m}) : Owes(link[n][p])}]
  /\ UNCHANGED <<procVars, known, main, db, clock, crashes, gui, querying, longs, sound>>

\* The write may fail once the peer is dead.
AskFails(i) ==
  LET m == NextOf(PeersLeft(i))
      c == link[NodeOf(i)][m] IN
  /\ session[i].at = "asking" /\ PeersLeft(i) # {} /\ "to" \notin conns[c].open
  /\ Disconnected(i, m, c)

\* database_query is entered.
Execute(i) ==
  /\ session[i].at = "asking" /\ PeersLeft(i) = {}
  /\ session' = Thread(i, "executing")
  /\ UNCHANGED <<peerVars, gui, querying, longs, sound>>

\* The leader's own result is the first part of the answer.
Executed(i) ==
  /\ session[i].at = "executing"
  /\ session' = [Thread(i, "collecting") EXCEPT
       ![i].rest = Peers(NodeOf(i)),
       ![i].answer = << Msg("RESULT", Rows(Only(session[i].input.body), NodeOf(i))) >>]
  /\ UNCHANGED <<peerVars, gui, querying, longs, sound>>

\* The thread reads from the next peer.
Await(i) ==
  LET m == NextOf(PeersLeft(i)) IN
  /\ session[i].at = "collecting" /\ session[i].conn = NoConn /\ PeersLeft(i) # {}
  /\ session' = [session EXCEPT ![i].conn = link[NodeOf(i)][m], ![i].peer = m,
                                ![i].rest = PeersLeft(i) \ {NextOf(PeersLeft(i))}]
  /\ UNCHANGED <<peerVars, gui, querying, longs, sound>>

\* What the read returns is appended; after an end of file that is what the
\* buffer held before.  A main thread at its ping of this peer may have written
\* it and not begun to read.
Collect(i, k) ==
  LET c == session[i].conn
      msg == IF k = 0 THEN Unwritten ELSE Head(conns[c].resp) IN
  /\ session[i].at = "collecting" /\ c # NoConn
  /\ IF k = 0 THEN Dead(c) ELSE k \in Reads(conns[c].resp)
  /\ conns' = Received(c, k)
  /\ session' = [session EXCEPT ![i].conn = NoConn, ![i].peer = NoConn,
                                ![i].answer = Append(@, msg)]
  /\ UNCHANGED <<procVars, loading, link, known, main, db, clock, crashes,
                 gui, querying, longs, sound>>

\* Only an error is taken for a disconnected peer, be it that the stream is
\* being read already.
CollectFails(i) ==
  LET c == session[i].conn IN
  /\ session[i].at = "collecting" /\ c # NoConn /\ (Dead(c) \/ Contended(i, c))
  /\ Disconnected(i, session[i].peer, c)

\* A slip in client_main: the loop over the peers ends with the first result.
FirstCollected(i) ==
  /\ session[i].at = "collecting" /\ session[i].conn = NoConn
  /\ PeersLeft(i) = {} \/ Len(session[i].answer) > 1

Collected(i) ==
  session[i].at = "collecting" /\ session[i].conn = NoConn /\ PeersLeft(i) = {}

\* db_querying = FALSE
DoneQuerying(i) == querying \ {NodeOf(i)}

\* The client is answered with all of it.
Respond(i) ==
  LET q == Only(session[i].input.body) IN
  /\ Collected(i)
  /\ session' = [Told(Thread(i, "reading"), i, Split(q, Answer(q))) EXCEPT ![i].answer = <<>>]
  /\ querying' = DoneQuerying(i) /\ sound' = sound \ {i}
  /\ UNCHANGED <<peerVars, gui, longs>>

-----------------------------------------------------------------------------
(* load_database in a client's thread, as Peers has it in the main thread. *)

Loads(i) == session[i].at \in {"count", "share"}
LoadAnswered(i, k) == session[i].conn # NoConn /\ PingAnswered(session[i].conn, k)

LoadAsk(i) ==
  LET c == link[NodeOf(i)][NextOf(PeersLeft(i))] IN
  /\ Loads(i) /\ session[i].conn = NoConn /\ PeersLeft(i) # {}
  /\ conns' = Sent(conns, c, Ping)
  /\ session' = [session EXCEPT ![i].conn = c, ![i].rest = PeersLeft(i) \ {NextOf(PeersLeft(i))}]
  /\ UNCHANGED <<procVars, loading, link, known, main, db, clock, crashes,
                 gui, querying, longs, sound>>

LoadCount(i, k) ==
  /\ session[i].at = "count" /\ LoadAnswered(i, k)
  /\ conns' = Received(session[i].conn, k)
  /\ session' = [session EXCEPT ![i].conn = NoConn, ![i].count = @ + 1]
  /\ UNCHANGED <<procVars, loading, link, known, main, db, clock, crashes,
                 gui, querying, longs, sound>>

LoadDeal(i, k) ==
  LET c == session[i].conn
      share == Share(session[i].slot, session[i].count) IN
  /\ session[i].at = "share" /\ LoadAnswered(i, k)
  /\ session[i].slot < session[i].count
  /\ conns' = Sent(Received(c, k), c, Msg("LOAD", share))
  /\ session' = [session EXCEPT ![i].conn = NoConn, ![i].slot = @ + 1]
  /\ UNCHANGED <<procVars, loading, link, known, main, db, clock, crashes,
                 gui, querying, longs, sound>>

\* fragments_per_peer has no such element, and the process ends as it follows
\* what lies there.
LoadOverruns(i, k) ==
  /\ session[i].at = "share" /\ LoadAnswered(i, k)
  /\ session[i].slot >= session[i].count
  /\ Down(NodeOf(i)) /\ Ended(NodeOf(i)) /\ UNCHANGED crashes

\* A slip in load_database: i++ is done for a peer that does not answer too.
LoadPassedCounted(i) == [session EXCEPT ![i].conn = NoConn, ![i].slot = @ + 1]

LoadPassed(i) == [session EXCEPT ![i].conn = NoConn]

LoadPassOver(i, k) ==
  /\ Loads(i) /\ session[i].conn # NoConn /\ PingFails(session[i].conn, k)
  /\ conns' = Received(session[i].conn, k)
  /\ session' = LoadPassed(i)
  /\ UNCHANGED <<procVars, loading, link, known, main, db, clock, crashes,
                 gui, querying, longs, sound>>

LoadRoundOver(i) == session[i].conn = NoConn /\ PeersLeft(i) = {}

LoadDealing(i) ==
  /\ session[i].at = "count" /\ LoadRoundOver(i)
  /\ session' = [session EXCEPT ![i].at = "share", ![i].slot = FirstPeerSlot,
                                ![i].rest = Peers(NodeOf(i))]
  /\ UNCHANGED <<peerVars, gui, querying, longs, sound>>

\* A slip in client_main: the client is not told.
ToldNothing(i) == session

\* write_to_connection_str (connection, "Try again!")
ToldToTryAgain(i) == Told(session, i, <<TryAgain>>)

\* The leader has loaded its own share.  The client is told to try again, and
\* the thread ends; it does not close the connection.
LoadOver(i) ==
  LET n == NodeOf(i) IN
  /\ session[i].at = "share" /\ LoadRoundOver(i)
  /\ db' = [db EXCEPT ![n] = Share(0, session[i].count)]
  /\ loading' = loading \ {n}
  /\ session' = [ToldToTryAgain(i) EXCEPT
       ![i].at = "ended", ![i].answer = <<>>, ![i].count = 0, ![i].slot = 0, ![i].owing = {}]
  /\ querying' = DoneQuerying(i) /\ sound' = sound \ {i}
  /\ UNCHANGED <<conns, procVars, link, known, main, clock, crashes, gui, longs>>

-----------------------------------------------------------------------------
(* A peer: the QUERY branch of peer_main. *)

PeerQuery(c) ==
  LET m == conns[c].to IN
  /\ conns[c].server = "spinning" /\ m \notin loading
  /\ conns[c].input.type = "QUERY"
  /\ conns' = [conns EXCEPT ![c].server = "querying"]
  /\ querying' = querying \cup {m}
  /\ UNCHANGED <<procVars, loading, link, known, main, db, clock, crashes,
                 session, gui, longs, sound>>

\* The result is written to the leader.
PeerResult(c) ==
  LET m == conns[c].to
      q == Only(conns[c].input.body)
      result == Split(q, Result(q, m)) IN
  /\ conns[c].server = "querying"
  /\ conns' = [conns EXCEPT ![c].server = "reading",
                            ![c].resp = IF "from" \in conns[c].open THEN @ \o result ELSE @]
  /\ querying' = querying \ {m}
  /\ UNCHANGED <<procVars, loading, link, known, main, db, clock, crashes,
                 session, gui, longs, sound>>

-----------------------------------------------------------------------------
\* A slip in connect_with_peer: db_querying is not looked at.
TimersRun(n) == TRUE

\* if (db_loading == TRUE || db_querying == TRUE) return, of the timers.
TimersMayRun(n) == n \notin querying

PeerStep(n) ==
  /\ (n \in Pinging /\ TimersMayRun(n) /\ Timer(n)) \/ Callback(n)
  /\ UNCHANGED sessionVars

Restart(n, now) == Start(n, now) /\ UNCHANGED sessionVars
PeerServes(c) == ServerStep(c) /\ UNCHANGED sessionVars

ClientStep(k) ==
  PollServer(k) \/ FindLeader(k) \/ Pinged(k) \/ Reply(k)

ThreadStep(i) ==
  \/ ClientConnection(i) \/ ClientRead(i) \/ ClientReadError(i) \/ ClientExit(i)
  \/ ClientHandle(i) \/ QueryBegin(i) \/ AskPeer(i) \/ AskFails(i)
  \/ Execute(i) \/ Executed(i) \/ Await(i) \/ CollectFails(i) \/ Respond(i)
  \/ LoadAsk(i) \/ LoadDealing(i) \/ LoadOver(i)
  \/ \E k \in 0..MaxRead :
       Collect(i, k) \/ LoadCount(i, k) \/ LoadDeal(i, k)
       \/ LoadOverruns(i, k) \/ LoadPassOver(i, k)

SessionsNext ==
  \/ \E n \in Nodes :
       (\E now \in 1..MaxTime : Restart(n, now)) \/ Die(n) \/ PeerStep(n)
  \/ \E c \in ConnIds : PeerServes(c) \/ PeerQuery(c) \/ PeerResult(c)
  \/ \E k \in Clients :
       Click(k, "connect") \/ Click(k, "send") \/ ClientStep(k) \/ Quit(k)
  \/ \E i \in SessionIds : ThreadStep(i)

SessionsSpec == SessionsInit /\ [][SessionsNext]_allVars

(* Every thread keeps running, and so does a button's callback.  What waits  *)
(* for the main thread, a connection to be accepted, has its turn in the     *)
(* end (Fairness of Peers); a query that by Overlap begins between callbacks *)
(* does so in one of the pauses that come again and again.  Nobody has to    *)
(* click, to die or to be started.                                           *)
SessionsFairness ==
  /\ \A n \in Nodes :
       /\ WF_allVars(PeerStep(n) /\ main[n].at # "loop")
       /\ SF_allVars((\E c \in ConnIds : Accept(n, c)) /\ UNCHANGED sessionVars)
  /\ \A c \in ConnIds : WF_allVars(PeerServes(c) \/ PeerQuery(c) \/ PeerResult(c))
  /\ \A k \in Clients : WF_allVars(ClientStep(k))
  /\ \A i \in SessionIds :
       /\ WF_allVars(ThreadStep(i))
       /\ SF_allVars(ClientConnection(i) \/ QueryBegin(i))

FairSessionsSpec == SessionsSpec /\ SessionsFairness

-----------------------------------------------------------------------------
(* Every fragment of the database is in the answer to a query exactly once *)
(* and nothing else is, through deaths, restarts and reloads before it, if *)
(* the query began with the leader's connections in order, no process died *)
(* meanwhile, and its results are short: one read each.  (What a long      *)
(* result or a query given up leaves behind can still make a later reload  *)
(* miss a peer.)                                                           *)
Complete(q, answer) ==
  /\ \A j \in DOMAIN answer : answer[j].type = "RESULT" /\ answer[j].body \subseteq {q} \X Fragments
  /\ \A f \in Fragments :
       Cardinality({j \in DOMAIN answer : <<q, f>> \in answer[j].body}) = 1
AnswerComplete ==
  \A i \in sound :
    LET q == Only(session[i].input.body) IN
    Collected(i) /\ q \notin Long => Complete(q, session[i].answer)

(* A client's thread that deals the database anew stays within the slots   *)
(* it counted, whatever peers die between its two pings of them, if none   *)
(* of the others owed it an answer as it began.  One that did, because it  *)
(* had been handed the query that was given up, has its result taken for   *)
(* the answer to the first ping and is not counted, yet is dealt a share   *)
(* for the answer to that ping, and a later peer then runs past the slots. *)
DealsInRange ==
  \A i \in SessionIds :
    session[i].at = "share" /\ session[i].owing = {} /\ LoadAnswered(i, 1) =>
      session[i].slot < session[i].count

(* What a client comes to show when it has waited for its query is the     *)
(* answer to that query, or the request to try again, or the buffer of a   *)
(* connection that ended: never what is left of an earlier answer, or the  *)
(* answer to a ping.  When the read fails the leader is forgotten, and the *)
(* window keeps what it showed, the answer to an earlier query.            *)
ShowsItsAnswer ==
  [][\A k \in Clients : gui[k].at = "waiting" /\ gui'[k].at = "idle" =>
       \/ gui'[k].shown \in {Unwritten, TryAgain, Answer(gui[k].query)}
       \/ gui'[k].leader = NoSession /\ gui'[k].shown = gui[k].shown]_allVars

(* A client that has sent a query is not left waiting, though peers it is  *)
(* handed to die before, while or after they run it, and the leader deals  *)
(* the database anew in between.                                           *)
QueriesAnswered ==
  \A k \in Clients : gui[k].at = "waiting" ~> gui[k].at # "waiting"

(* The database a thread is in database_query on is not closed or replaced *)
(* under it: not at the leader, whose main thread reloads when a peer      *)
(* comes or goes, and not at a peer, whose other connections may carry a   *)
(* LOAD.                                                                   *)
Executing(n) ==
  {i \in SessionIds : NodeOf(i) = n /\ session[i].at = "executing"}
  \cup {c \in ConnIds : conns[c].to = n /\ conns[c].server = "querying"}
StableWhileQueried ==
  [][\A n \in Nodes : phase[n] = "up" /\ phase'[n] = "up" /\ Executing(n) # {} => db'[n] = db[n]]_allVars
=============================================================================
