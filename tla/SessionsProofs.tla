--------------------------- MODULE SessionsProofs ---------------------------
(***************************************************************************)
(* Proofs about queries.  What a client shows is its answer, for any       *)
(* number of processes, clients, sessions, queries, deaths and restarts.   *)
(* What the peers put together is the answer: the dealing of fragments     *)
(* leaves none out and none twice, and joins on the customer stay within   *)
(* a fragment, for any number of fragments and peers and whatever records  *)
(* were drawn.                                                             *)
(***************************************************************************)
EXTENDS Sessions, Generator, FiniteSetTheorems, SequenceTheorems, TLAPS

-----------------------------------------------------------------------------
\* What a client's connection can carry, whatever the peers do.

SessionFields == {"client", "node", "open", "req", "resp", "at", "input", "rest", "conn",
                  "peer", "count", "slot", "answer", "owing", "failed"}
GuiFields == {"at", "leader", "rest", "polled", "sent", "query", "shown"}

\* A session has a thread, or a place in the backlog, while the process at its
\* other end holds it.
Kept(s) ==
  /\ DOMAIN s = SessionFields
  /\ s.open \subseteq {"client", "server"}
  /\ s.at \in ThreadStates
  /\ s.at = "none" <=> "server" \notin s.open
  /\ "server" \notin s.open => s.req = <<>>

\* The thread has nothing to do for the client.
Unasked(s) == s.req = <<>> /\ s.at \in {"none", "reading", "ended"}

\* The thread has still to read msg, or is at work on it.
AtWork == {"spinning", "asking", "executing", "collecting", "count", "share"}
Asked(s, msg) ==
  \/ s.req = <<msg>> /\ s.at \in {"reading", "ended"}
  \/ /\ s.req = <<>> /\ s.input = msg
     /\ s.at \in (IF msg = Ping THEN {"spinning"} ELSE AtWork)

\* Of an answer that has been shown a remainder may be left.
LeftOver(s) == s.resp \in {<<>>, <<Remainder>>}

\* A connection that connect_to_leader has yet to read from.
Listed(s) ==
  \/ s.at = "backlog" /\ s.resp = <<>>
  \/ Unasked(s) /\ s.resp \in {<<>>, <<Ack>>}

\* At most one request of the client is under way on the leader's connection,
\* and what its read returns is the answer to that one, or left over.
PingInStep(s) ==
  \/ LeftOver(s) /\ (Asked(s, Ping) \/ s.at = "none")
  \/ Unasked(s) /\ s.resp \in {<<Ping>>, <<Remainder, Ping>>}
QueryInStep(s, q) ==
  \/ s.resp = <<>> /\ (Asked(s, Query(q)) \/ s.at = "none")
  \/ Unasked(s) /\ s.resp \in {<<Answer(q)>>, <<Answer(q), Remainder>>, <<TryAgain>>}
InStep(g, s) ==
  /\ g.at = "idle" => Unasked(s) /\ LeftOver(s)
  /\ g.at \in {"connect", "send"} => PingInStep(s)
  /\ g.at = "waiting" => QueryInStep(s, g.query)

\* s is an end that the client k holds.
Holds(k, s) == s.client = k /\ "client" \in s.open

\* What the client program k knows of its connections.
LeaderHeld(k, g, ss) ==
  g.leader # NoSession =>
    /\ g.leader \in SessionIds
    /\ Holds(k, ss[g.leader])
    /\ InStep(g, ss[g.leader])
PolledHeld(k, g, ss) ==
  \A a \in 1..Len(g.polled) :
    /\ Holds(k, ss[g.polled[a]])
    /\ Listed(ss[g.polled[a]])
    /\ \A b \in 1..Len(g.polled) : a # b => g.polled[a] # g.polled[b]
GuiKept(g) ==
  /\ DOMAIN g = GuiFields
  /\ g.at \in {"idle", "polling", "connect", "send", "waiting", "gone"}
  /\ g.polled \in Seq(SessionIds)
  /\ g.at # "polling" => g.polled = <<>>
  /\ g.at \in {"polling", "gone"} => g.leader = NoSession
  /\ g.at \in {"connect", "send", "waiting"} => g.leader # NoSession
ClientHeld(k, g, ss) == GuiKept(g) /\ LeaderHeld(k, g, ss) /\ PolledHeld(k, g, ss)

ClientInv ==
  /\ session = [i \in SessionIds |-> session[i]]
  /\ gui = [k \in Clients |-> gui[k]]
  /\ \A i \in SessionIds : Kept(session[i])
  /\ \A k \in Clients : ClientHeld(k, gui[k], session)

-----------------------------------------------------------------------------
\* Sequences and messages.

LEMMA OneAppended ==
  ASSUME NEW x, NEW y
  PROVE  /\ Append(<<>>, x) = <<x>>
         /\ <<>> \o <<x>> = <<x>> /\ <<>> \o <<x, y>> = <<x, y>>
         /\ Append(<<y>>, x) = <<y, x>> /\ <<y>> \o <<x>> = <<y, x>>
         /\ Head(<<x>>) = x /\ Tail(<<x>>) = <<>>
         /\ Head(<<x, y>>) = x /\ Tail(<<x, y>>) = <<y>>
         /\ <<x>> # <<>> /\ <<x, y>> # <<>>
<1>. DEFINE S == {x, y}
<1>1. <<>> \in Seq(S) /\ <<x>> \in Seq(S) /\ <<y>> \in Seq(S) /\ <<x, y>> \in Seq(S)
  OBVIOUS
<1>2. Append(<<>>, x) = <<x>> /\ Append(<<y>>, x) = <<y, x>>
  <2>1. Append(<<>>, x) = <<x>>
    OBVIOUS
  <2>2. /\ Append(<<y>>, x) \in Seq(S) /\ Len(Append(<<y>>, x)) = 2
        /\ Append(<<y>>, x)[1] = y /\ Append(<<y>>, x)[2] = x
    BY <1>1, AppendProperties
  <2>3. Len(<<y, x>>) = 2 /\ <<y, x>>[1] = y /\ <<y, x>>[2] = x /\ <<y, x>> \in Seq(S)
    OBVIOUS
  <2>4. \A j \in 1..2 : Append(<<y>>, x)[j] = <<y, x>>[j]
    BY <2>2, <2>3
  <2>5. Append(<<y>>, x) = <<y, x>>
    BY <2>2, <2>3, <2>4, SeqEqual
  <2>. QED  BY <2>1, <2>5
<1>3. <<>> \o <<x>> = <<x>> /\ <<>> \o <<x, y>> = <<x, y>>
  BY <1>1, ConcatEmptySeq
<1>4. <<y>> \o <<x>> = <<y, x>>
  BY <1>1, <1>2, AppendIsConcat
<1>5. Head(<<x>>) = x /\ Tail(<<x>>) = <<>>
  OBVIOUS
<1>6. Head(<<x, y>>) = x /\ Tail(<<x, y>>) = <<y>>
  OBVIOUS
<1>. QED  BY <1>2, <1>3, <1>4, <1>5, <1>6

LEMMA OnlyOne ==
  ASSUME NEW q
  PROVE  Only({q}) = q
BY DEF Only

LEMMA MessagesDiffer ==
  ASSUME NEW q
  PROVE  /\ Ping # Remainder /\ Ping # Query(q) /\ Remainder # Ack /\ Ping # Ack
         /\ Query(q).type = "QUERY" /\ Query(q).body = {q}
         /\ Ping.type # "QUERY" /\ Unwritten \notin {Ping, Ack, NoMsg} /\ NoMsg \notin {Ping, Ack}
         /\ NoMsg \notin {Remainder, Answer(q), TryAgain}
BY DEF Ping, Remainder, Query, Ack, Unwritten, NoMsg, Answer, TryAgain, Msg

-----------------------------------------------------------------------------
\* What a step of a process may do to a session: the client's end stays, and
\* what is under way on it stays in step.

Follows(s, r) ==
  "client" \in s.open =>
    /\ r.client = s.client /\ "client" \in r.open
    /\ Listed(s) => Listed(r)
    /\ \A k \in Clients : InStep(gui[k], s) => InStep(gui[k], r)

LEMMA SessionsMove ==
  ASSUME ClientInv, gui' = gui,
         session' = [j \in SessionIds |-> session'[j]],
         \A j \in SessionIds : Kept(session'[j]) /\ Follows(session[j], session'[j])
  PROVE  ClientInv'
<1>1. ASSUME NEW k \in Clients
      PROVE  ClientHeld(k, gui[k], session')
  <2>1. GuiKept(gui[k]) /\ LeaderHeld(k, gui[k], session) /\ PolledHeld(k, gui[k], session)
    BY DEF ClientInv, ClientHeld
  <2>2. LeaderHeld(k, gui[k], session')
    BY <2>1 DEF LeaderHeld, Follows, Holds
  <2>3. \A a \in 1..Len(gui[k].polled) : gui[k].polled[a] \in SessionIds
    BY <2>1, ElementOfSeq DEF GuiKept
  <2>4. PolledHeld(k, gui[k], session')
    BY <2>1, <2>3 DEF PolledHeld, Follows, Holds
  <2>. QED  BY <2>1, <2>2, <2>4 DEF ClientHeld
<1>. QED  BY <1>1 DEF ClientInv

LEMMA SessionMoves ==
  ASSUME ClientInv, NEW i \in SessionIds, NEW r, gui' = gui,
         session' = [session EXCEPT ![i] = r], Kept(r), Follows(session[i], r)
  PROVE  ClientInv'
<1>1. /\ session' = [j \in SessionIds |-> session'[j]]
      /\ \A j \in SessionIds : session'[j] = IF j = i THEN r ELSE session[j]
  BY DEF ClientInv
<1>2. \A j \in SessionIds : Kept(session[j]) /\ Follows(session[j], session[j])
  BY DEF ClientInv, Follows
<1>3. \A j \in SessionIds : Kept(session'[j]) /\ Follows(session[j], session'[j])
  BY <1>1, <1>2
<1>. QED  BY <1>1, <1>3, SessionsMove

LEMMA ServerShut ==
  ASSUME NEW i \in SessionIds, Kept(session[i])
  PROVE  Kept(Shut(i, "server")) /\ Follows(session[i], Shut(i, "server"))
<1>. DEFINE s == session[i]
            r == Shut(i, "server")
<1>1. CASE s.open \ {"server"} = {}
  <2>1. r = FreeSession
    BY <1>1 DEF Shut
  <2>. QED  BY <1>1, <2>1 DEF Kept, Follows, FreeSession, SessionFields, ThreadStates
<1>2. CASE s.open \ {"server"} # {}
  <2>1. s.open \ {"server"} = {"client"}
    BY <1>2 DEF Kept
  <2>2. r = [FreeSession EXCEPT !.client = s.client, !.node = s.node,
                                !.open = {"client"}, !.resp = s.resp]
    BY <2>1 DEF Shut
  <2>3. /\ DOMAIN r = SessionFields /\ r.client = s.client /\ r.open = {"client"}
        /\ r.resp = s.resp /\ r.at = "none" /\ r.req = <<>>
    BY <2>2 DEF FreeSession, SessionFields
  <2>4. Kept(r)
    BY <2>3 DEF Kept, ThreadStates
  <2>5. Unasked(r) /\ (Listed(s) => Listed(r))
    BY <2>3 DEF Unasked, Listed
  <2>6. ASSUME NEW k \in Clients, InStep(gui[k], s)
        PROVE  InStep(gui[k], r)
    BY <2>3, <2>5, <2>6 DEF InStep, LeftOver, PingInStep, QueryInStep
  <2>. QED  BY <2>3, <2>4, <2>5, <2>6 DEF Follows
<1>. QED  BY <1>1, <1>2

LEMMA EndedKeeps ==
  ASSUME ClientInv, NEW n, Ended(n)
  PROVE  ClientInv'
<1>1. /\ session' = [j \in SessionIds |-> session'[j]] /\ gui' = gui
      /\ \A j \in SessionIds : session'[j] \in {session[j], Shut(j, "server")}
  BY DEF Ended
<1>2. \A j \in SessionIds : Kept(session[j]) /\ Follows(session[j], session[j])
  BY DEF ClientInv, Follows
<1>3. \A j \in SessionIds : Kept(session'[j]) /\ Follows(session[j], session'[j])
  BY <1>1, <1>2, ServerShut
<1>. QED  BY <1>1, <1>3, SessionsMove

-----------------------------------------------------------------------------
\* The steps of a client's thread.

\* Fields that a thread keeps to itself do not matter to the client.
SameForClient(s, r) ==
  /\ DOMAIN r = DOMAIN s /\ r.client = s.client /\ r.open = s.open
  /\ r.req = s.req /\ r.resp = s.resp

LEMMA AtWorkMoves ==
  ASSUME NEW s, NEW r, Kept(s), SameForClient(s, r), r.input = s.input,
         s.at \in AtWork, r.at \in AtWork,
         r.at = "spinning" \/ s.at # "spinning" \/ s.input # Ping
  PROVE  Kept(r) /\ Follows(s, r)
<1>1. Kept(r)
  BY DEF Kept, SameForClient, AtWork, ThreadStates
<1>2. ~Listed(s) /\ ~Unasked(s)
  BY DEF Listed, Unasked, AtWork
<1>3. ASSUME NEW msg, Asked(s, msg)
      PROVE  Asked(r, msg)
  BY <1>3 DEF Asked, SameForClient, AtWork
<1>4. ASSUME NEW k \in Clients, InStep(gui[k], s)
      PROVE  InStep(gui[k], r)
  BY <1>2, <1>3, <1>4 DEF InStep, PingInStep, QueryInStep, LeftOver, SameForClient, AtWork
<1>. QED  BY <1>1, <1>2, <1>4 DEF Follows, SameForClient

LEMMA ReadingKeeps ==
  ASSUME ClientInv, NEW i \in SessionIds,
         ClientConnection(i) \/ ClientRead(i) \/ ClientReadError(i) \/ ClientExit(i)
  PROVE  ClientInv'
<1>. DEFINE s == session[i]
<1>0. Kept(s) /\ gui' = gui /\ session = [j \in SessionIds |-> session[j]]
  BY DEF ClientInv, ClientConnection, ClientRead, ClientReadError, ClientExit
<1>1. CASE ClientConnection(i)
  <2>1. CASE NodeOf(i) \notin leaders
    <3>1. session' = [session EXCEPT ![i] = Shut(i, "server")]
      BY <1>1, <2>1 DEF ClientConnection
    <3>. QED  BY <1>0, <3>1, ServerShut, SessionMoves
  <2>2. CASE NodeOf(i) \in leaders
    <3>. DEFINE resp == IF "client" \in s.open THEN s.resp \o <<Ack>> ELSE s.resp
                r == [s EXCEPT !.resp = resp, !.at = "reading", !.req = <<>>]
    <3>1. session' = [session EXCEPT ![i] = r]
      BY <1>0, <1>1, <2>2 DEF ClientConnection, Told, Kept, SessionFields
    <3>2. /\ DOMAIN r = SessionFields /\ r.client = s.client /\ r.open = s.open
          /\ r.resp = resp /\ r.at = "reading" /\ r.req = <<>> /\ s.at = "backlog"
      BY <1>0, <1>1 DEF Kept, SessionFields, ClientConnection
    <3>3. Kept(r)
      BY <1>0, <3>2 DEF Kept, ThreadStates
    <3>4. ~Unasked(s) /\ \A msg : ~Asked(s, msg)
      BY <3>2 DEF Unasked, Asked, AtWork
    <3>5. \A k \in Clients : InStep(gui[k], s) => InStep(gui[k], r)
      BY <3>2, <3>4 DEF InStep, PingInStep, QueryInStep
    <3>6. "client" \in s.open /\ Listed(s) => Listed(r)
      BY <3>2, <3>4, OneAppended DEF Listed, Unasked
    <3>7. Follows(s, r)
      BY <3>2, <3>5, <3>6 DEF Follows
    <3>. QED  BY <1>0, <3>1, <3>3, <3>7, SessionMoves
  <2>. QED  BY <2>1, <2>2
<1>2. CASE ClientRead(i)
  <2>. DEFINE r == [s EXCEPT !.at = "spinning", !.req = Tail(s.req), !.input = Head(s.req)]
  <2>1. session' = [session EXCEPT ![i] = r]
    BY <1>0, <1>2 DEF ClientRead, Kept, SessionFields
  <2>2. /\ DOMAIN r = SessionFields /\ r.client = s.client /\ r.open = s.open
        /\ r.resp = s.resp /\ r.at = "spinning" /\ r.req = Tail(s.req)
        /\ r.input = Head(s.req) /\ s.at = "reading" /\ s.req # <<>>
    BY <1>0, <1>2 DEF Kept, SessionFields, ClientRead
  <2>3. Kept(r)
    BY <1>0, <2>2 DEF Kept, ThreadStates
  <2>4. ~Unasked(s) /\ ~Listed(s)
    BY <2>2 DEF Unasked, Listed
  <2>5. ASSUME NEW msg, Asked(s, msg)
        PROVE  Asked(r, msg)
    <3>1. s.req = <<msg>>
      BY <2>2, <2>5 DEF Asked, AtWork
    <3>2. r.req = <<>> /\ r.input = msg
      BY <2>2, <3>1, OneAppended
    <3>. QED  BY <2>2, <3>2 DEF Asked, AtWork
  <2>6. \A k \in Clients : InStep(gui[k], s) => InStep(gui[k], r)
    BY <2>2, <2>4, <2>5 DEF InStep, PingInStep, QueryInStep, LeftOver
  <2>7. Follows(s, r)
    BY <2>2, <2>4, <2>6 DEF Follows
  <2>. QED  BY <1>0, <2>1, <2>3, <2>7, SessionMoves
<1>3. CASE ClientReadError(i)
  <2>. DEFINE r == [s EXCEPT !.at = "spinning", !.failed = "yes"]
  <2>1. session' = [session EXCEPT ![i] = r]
    BY <1>0, <1>3 DEF ClientReadError, Kept, SessionFields
  <2>2. Kept(r) /\ Follows(s, r)
    BY <1>0, <1>3 DEF ClientReadError, Kept, SessionFields, Follows, ThreadStates
  <2>. QED  BY <1>0, <2>1, <2>2, SessionMoves
<1>4. CASE ClientExit(i)
  BY <1>0, <1>4, ServerShut, SessionMoves DEF ClientExit
<1>. QED  BY <1>1, <1>2, <1>3, <1>4

LEMMA HandlingKeeps ==
  ASSUME ClientInv, NEW i \in SessionIds, ClientHandle(i)
  PROVE  ClientInv'
<1>. DEFINE s == session[i]
<1>0. Kept(s) /\ gui' = gui /\ session = [j \in SessionIds |-> session[j]]
  BY DEF ClientInv, ClientHandle
<1>1. DEFINE resp == IF s.input = Ping /\ "client" \in s.open THEN s.resp \o <<Ping>>
                     ELSE s.resp
             r == [s EXCEPT !.resp = resp, !.at = "reading"]
<1>2. session' = [session EXCEPT ![i] = r]
  BY <1>0 DEF ClientHandle, Told, Thread, Kept, SessionFields
<1>3. /\ DOMAIN r = SessionFields /\ r.client = s.client /\ r.open = s.open
      /\ r.resp = resp /\ r.at = "reading" /\ r.req = s.req
      /\ s.at = "spinning" /\ s.input.type # "QUERY"
  BY <1>0 DEF Kept, SessionFields, ClientHandle
<1>4. Kept(r)
  BY <1>0, <1>3 DEF Kept, ThreadStates
<1>5. ~Unasked(s) /\ ~Listed(s) /\ \A q : ~Asked(s, Query(q))
  BY <1>3, MessagesDiffer DEF Unasked, Listed, Asked
<1>6. ASSUME NEW k \in Clients, InStep(gui[k], s), "client" \in s.open
      PROVE  InStep(gui[k], r)
  <2>1. gui[k].at \notin {"idle", "waiting"}
    BY <1>3, <1>5, <1>6 DEF InStep, QueryInStep
  <2>2. ASSUME gui[k].at \in {"connect", "send"}
        PROVE  PingInStep(r)
    <3>1. s.resp \in {<<>>, <<Remainder>>} /\ s.req = <<>> /\ s.input = Ping
      BY <1>3, <1>5, <1>6, <2>2 DEF InStep, PingInStep, LeftOver, Asked
    <3>2. r.resp = s.resp \o <<Ping>> /\ r.req = <<>>
      BY <1>3, <1>6, <3>1
    <3>3. <<>> \o <<Ping>> = <<Ping>> /\ <<Remainder>> \o <<Ping>> = <<Remainder, Ping>>
      BY OneAppended
    <3>4. r.resp \in {<<Ping>>, <<Remainder, Ping>>}
      BY <3>1, <3>2, <3>3
    <3>. QED  BY <1>3, <3>2, <3>4 DEF PingInStep, Unasked
  <2>. QED  BY <2>1, <2>2 DEF InStep
<1>7. Follows(s, r)
  BY <1>3, <1>5, <1>6 DEF Follows
<1>. QED  BY <1>0, <1>2, <1>4, <1>7, SessionMoves

LEMMA WorkMoves ==
  ASSUME ClientInv, NEW i \in SessionIds, NEW r, gui' = gui,
         session' = [session EXCEPT ![i] = r],
         SameForClient(session[i], r), r.input = session[i].input,
         session[i].at \in AtWork, r.at \in AtWork,
         r.at = "spinning" \/ session[i].at # "spinning" \/ session[i].input # Ping
  PROVE  ClientInv'
<1>1. Kept(session[i])
  BY DEF ClientInv
<1>2. Kept(r) /\ Follows(session[i], r)
  BY <1>1, AtWorkMoves
<1>. QED  BY <1>2, SessionMoves

LEMMA WorkKeeps ==
  ASSUME ClientInv, NEW i \in SessionIds,
         \/ QueryBegin(i) \/ AskPeer(i) \/ AskFails(i) \/ Execute(i) \/ Executed(i)
         \/ Await(i) \/ CollectFails(i) \/ LoadAsk(i) \/ LoadDealing(i)
         \/ \E k \in 0..MaxRead :
              Collect(i, k) \/ LoadCount(i, k) \/ LoadDeal(i, k) \/ LoadPassOver(i, k)
  PROVE  ClientInv'
<1>. DEFINE s == session[i]
<1>0. Kept(s) /\ session = [j \in SessionIds |-> session[j]]
  BY DEF ClientInv
<1>1. CASE QueryBegin(i)
  <2>. DEFINE r == [s EXCEPT !.at = "asking", !.rest = Peers(NodeOf(i))]
  <2>1. session' = [session EXCEPT ![i] = r] /\ gui' = gui
    BY <1>0, <1>1 DEF QueryBegin, Thread, Kept, SessionFields
  <2>2. SameForClient(s, r) /\ r.input = s.input /\ s.at \in AtWork /\ r.at \in AtWork
    BY <1>0, <1>1 DEF QueryBegin, Thread, Kept, SessionFields, SameForClient, AtWork
  <2>3. r.at = "spinning" \/ s.at # "spinning" \/ s.input # Ping
    BY <1>1, MessagesDiffer DEF QueryBegin, Thread
  <2>. QED  BY <2>1, <2>2, <2>3, WorkMoves
<1>2. CASE AskPeer(i)
  <2>. DEFINE r == [s EXCEPT !.rest = PeersLeft(i) \ {NextOf(PeersLeft(i))}]
  <2>1. session' = [session EXCEPT ![i] = r] /\ gui' = gui
    BY <1>0, <1>2 DEF AskPeer, Kept, SessionFields
  <2>2. SameForClient(s, r) /\ r.input = s.input /\ s.at \in AtWork /\ r.at \in AtWork
    BY <1>0, <1>2 DEF AskPeer, Kept, SessionFields, SameForClient, AtWork
  <2>3. r.at = "spinning" \/ s.at # "spinning" \/ s.input # Ping
    BY <1>2, MessagesDiffer DEF AskPeer
  <2>. QED  BY <2>1, <2>2, <2>3, WorkMoves
<1>3. CASE AskFails(i)
  <2>. DEFINE m == NextOf(PeersLeft(i))
              r == [s EXCEPT !.at = "count", !.count = 1, !.conn = NoConn, !.peer = NoConn,
                          !.rest = Peers(NodeOf(i)),
                          !.owing = {p \in Linked(NodeOf(i), Nodes \ {m}) : Owes(link[NodeOf(i)][p])}]
  <2>1. session' = [session EXCEPT ![i] = r] /\ gui' = gui
    BY <1>0, <1>3 DEF AskFails, Disconnected, Kept, SessionFields
  <2>2. SameForClient(s, r) /\ r.input = s.input /\ s.at \in AtWork /\ r.at \in AtWork
    BY <1>0, <1>3 DEF AskFails, Disconnected, Kept, SessionFields, SameForClient, AtWork
  <2>3. r.at = "spinning" \/ s.at # "spinning" \/ s.input # Ping
    BY <1>3, MessagesDiffer DEF AskFails, Disconnected
  <2>. QED  BY <2>1, <2>2, <2>3, WorkMoves
<1>4. CASE Execute(i)
  <2>. DEFINE r == [s EXCEPT !.at = "executing"]
  <2>1. session' = [session EXCEPT ![i] = r] /\ gui' = gui
    BY <1>0, <1>4 DEF Execute, Thread, Kept, SessionFields
  <2>2. SameForClient(s, r) /\ r.input = s.input /\ s.at \in AtWork /\ r.at \in AtWork
    BY <1>0, <1>4 DEF Execute, Thread, Kept, SessionFields, SameForClient, AtWork
  <2>3. r.at = "spinning" \/ s.at # "spinning" \/ s.input # Ping
    BY <1>4, MessagesDiffer DEF Execute, Thread
  <2>. QED  BY <2>1, <2>2, <2>3, WorkMoves
<1>5. CASE Executed(i)
  <2>. DEFINE r == [s EXCEPT !.at = "collecting", !.rest = Peers(NodeOf(i)),
                          !.answer = << Msg("RESULT", Rows(Only(s.input.body), NodeOf(i))) >>]
  <2>1. session' = [session EXCEPT ![i] = r] /\ gui' = gui
    BY <1>0, <1>5 DEF Executed, Thread, Kept, SessionFields
  <2>2. SameForClient(s, r) /\ r.input = s.input /\ s.at \in AtWork /\ r.at \in AtWork
    BY <1>0, <1>5 DEF Executed, Thread, Kept, SessionFields, SameForClient, AtWork
  <2>3. r.at = "spinning" \/ s.at # "spinning" \/ s.input # Ping
    BY <1>5, MessagesDiffer DEF Executed, Thread
  <2>. QED  BY <2>1, <2>2, <2>3, WorkMoves
<1>6. CASE Await(i)
  <2>. DEFINE r == [s EXCEPT !.conn = link[NodeOf(i)][NextOf(PeersLeft(i))], !.peer = NextOf(PeersLeft(i)),
                          !.rest = PeersLeft(i) \ {NextOf(PeersLeft(i))}]
  <2>1. session' = [session EXCEPT ![i] = r] /\ gui' = gui
    BY <1>0, <1>6 DEF Await, Kept, SessionFields
  <2>2. SameForClient(s, r) /\ r.input = s.input /\ s.at \in AtWork /\ r.at \in AtWork
    BY <1>0, <1>6 DEF Await, Kept, SessionFields, SameForClient, AtWork
  <2>3. r.at = "spinning" \/ s.at # "spinning" \/ s.input # Ping
    BY <1>6, MessagesDiffer DEF Await
  <2>. QED  BY <2>1, <2>2, <2>3, WorkMoves
<1>7. CASE CollectFails(i)
  <2>. DEFINE m == s.peer
              r == [s EXCEPT !.at = "count", !.count = 1, !.conn = NoConn, !.peer = NoConn,
                          !.rest = Peers(NodeOf(i)),
                          !.owing = {p \in Linked(NodeOf(i), Nodes \ {m}) : Owes(link[NodeOf(i)][p])}]
  <2>1. session' = [session EXCEPT ![i] = r] /\ gui' = gui
    BY <1>0, <1>7 DEF CollectFails, Disconnected, Kept, SessionFields
  <2>2. SameForClient(s, r) /\ r.input = s.input /\ s.at \in AtWork /\ r.at \in AtWork
    BY <1>0, <1>7 DEF CollectFails, Disconnected, Kept, SessionFields, SameForClient, AtWork
  <2>3. r.at = "spinning" \/ s.at # "spinning" \/ s.input # Ping
    BY <1>7, MessagesDiffer DEF CollectFails, Disconnected
  <2>. QED  BY <2>1, <2>2, <2>3, WorkMoves
<1>8. CASE LoadAsk(i)
  <2>. DEFINE r == [s EXCEPT !.conn = link[NodeOf(i)][NextOf(PeersLeft(i))],
                          !.rest = PeersLeft(i) \ {NextOf(PeersLeft(i))}]
  <2>1. session' = [session EXCEPT ![i] = r] /\ gui' = gui
    BY <1>0, <1>8 DEF LoadAsk, Loads, Kept, SessionFields
  <2>2. SameForClient(s, r) /\ r.input = s.input /\ s.at \in AtWork /\ r.at \in AtWork
    BY <1>0, <1>8 DEF LoadAsk, Loads, Kept, SessionFields, SameForClient, AtWork
  <2>3. r.at = "spinning" \/ s.at # "spinning" \/ s.input # Ping
    BY <1>8, MessagesDiffer DEF LoadAsk, Loads
  <2>. QED  BY <2>1, <2>2, <2>3, WorkMoves
<1>9. CASE LoadDealing(i)
  <2>. DEFINE r == [s EXCEPT !.at = "share", !.slot = FirstPeerSlot, !.rest = Peers(NodeOf(i))]
  <2>1. session' = [session EXCEPT ![i] = r] /\ gui' = gui
    BY <1>0, <1>9 DEF LoadDealing, Kept, SessionFields
  <2>2. SameForClient(s, r) /\ r.input = s.input /\ s.at \in AtWork /\ r.at \in AtWork
    BY <1>0, <1>9 DEF LoadDealing, Kept, SessionFields, SameForClient, AtWork
  <2>3. r.at = "spinning" \/ s.at # "spinning" \/ s.input # Ping
    BY <1>9, MessagesDiffer DEF LoadDealing
  <2>. QED  BY <2>1, <2>2, <2>3, WorkMoves
<1>10. ASSUME NEW k \in 0..MaxRead,
             Collect(i, k) \/ LoadCount(i, k) \/ LoadDeal(i, k) \/ LoadPassOver(i, k)
      PROVE  ClientInv'
  <2>1. CASE Collect(i, k)
    <3>. DEFINE r == [s EXCEPT !.conn = NoConn, !.peer = NoConn, !.answer = Append(s.answer,
                              IF k = 0 THEN Unwritten ELSE Head(conns[s.conn].resp))]
    <3>1. session' = [session EXCEPT ![i] = r] /\ gui' = gui
      BY <1>0, <2>1 DEF Collect, Kept, SessionFields
    <3>2. SameForClient(s, r) /\ r.input = s.input /\ s.at \in AtWork /\ r.at \in AtWork
      BY <1>0, <2>1 DEF Collect, Kept, SessionFields, SameForClient, AtWork
    <3>3. r.at = "spinning" \/ s.at # "spinning" \/ s.input # Ping
      BY <2>1, MessagesDiffer DEF Collect
    <3>. QED  BY <3>1, <3>2, <3>3, WorkMoves
  <2>2. CASE LoadCount(i, k)
    <3>. DEFINE r == [s EXCEPT !.conn = NoConn, !.count = s.count + 1]
    <3>1. session' = [session EXCEPT ![i] = r] /\ gui' = gui
      BY <1>0, <2>2 DEF LoadCount, Kept, SessionFields
    <3>2. SameForClient(s, r) /\ r.input = s.input /\ s.at \in AtWork /\ r.at \in AtWork
      BY <1>0, <2>2 DEF LoadCount, Kept, SessionFields, SameForClient, AtWork
    <3>3. r.at = "spinning" \/ s.at # "spinning" \/ s.input # Ping
      BY <2>2, MessagesDiffer DEF LoadCount
    <3>. QED  BY <3>1, <3>2, <3>3, WorkMoves
  <2>3. CASE LoadDeal(i, k)
    <3>. DEFINE r == [s EXCEPT !.conn = NoConn, !.slot = s.slot + 1]
    <3>1. session' = [session EXCEPT ![i] = r] /\ gui' = gui
      BY <1>0, <2>3 DEF LoadDeal, Kept, SessionFields
    <3>2. SameForClient(s, r) /\ r.input = s.input /\ s.at \in AtWork /\ r.at \in AtWork
      BY <1>0, <2>3 DEF LoadDeal, Kept, SessionFields, SameForClient, AtWork
    <3>3. r.at = "spinning" \/ s.at # "spinning" \/ s.input # Ping
      BY <2>3, MessagesDiffer DEF LoadDeal
    <3>. QED  BY <3>1, <3>2, <3>3, WorkMoves
  <2>4. CASE LoadPassOver(i, k)
    <3>. DEFINE r == [s EXCEPT !.conn = NoConn]
    <3>1. session' = [session EXCEPT ![i] = r] /\ gui' = gui
      BY <1>0, <2>4 DEF LoadPassOver, LoadPassed, Loads, Kept, SessionFields
    <3>2. SameForClient(s, r) /\ r.input = s.input /\ s.at \in AtWork /\ r.at \in AtWork
      BY <1>0, <2>4 DEF LoadPassOver, LoadPassed, Loads, Kept, SessionFields, SameForClient, AtWork
    <3>3. r.at = "spinning" \/ s.at # "spinning" \/ s.input # Ping
      BY <2>4, MessagesDiffer DEF LoadPassOver, Loads
    <3>. QED  BY <3>1, <3>2, <3>3, WorkMoves
  <2>. QED  BY <1>10, <2>1, <2>2, <2>3, <2>4
<1>. QED  BY <1>1, <1>2, <1>3, <1>4, <1>5, <1>6, <1>7, <1>8, <1>9, <1>10

LEMMA RespondKeeps ==
  ASSUME ClientInv, NEW i \in SessionIds, Respond(i) \/ LoadOver(i)
  PROVE  ClientInv'
<1>. DEFINE s == session[i]
            q == Only(s.input.body)
            msgs == IF Respond(i) THEN Split(q, Answer(q)) ELSE <<TryAgain>>
            resp == IF "client" \in s.open THEN s.resp \o msgs ELSE s.resp
<1>0. Kept(s) /\ gui' = gui /\ session = [j \in SessionIds |-> session[j]]
  BY DEF ClientInv, Respond, LoadOver
<1>1. PICK r :
        /\ session' = [session EXCEPT ![i] = r]
        /\ DOMAIN r = SessionFields /\ r.client = s.client /\ r.open = s.open
        /\ r.resp = resp /\ r.at \in {"reading", "ended"} /\ r.req = s.req
  <2>1. CASE Respond(i)
    <3>. DEFINE r == [s EXCEPT !.at = "reading", !.resp = resp, !.answer = <<>>]
    <3>1. session' = [session EXCEPT ![i] = r]
      <4>1. /\ Thread(i, "reading")[i] = [s EXCEPT !.at = "reading"]
            /\ session' = [Told(Thread(i, "reading"), i, msgs) EXCEPT ![i].answer = <<>>]
        BY <1>0, <2>1 DEF Respond, Thread
      <4>2. Thread(i, "reading")[i].open = s.open /\ Thread(i, "reading")[i].resp = s.resp
        BY <1>0, <4>1 DEF Kept, SessionFields
      <4>. HIDE DEF msgs
      <4>. QED  BY <1>0, <4>1, <4>2 DEF Told, Thread, Kept, SessionFields
    <3>2. /\ DOMAIN r = SessionFields /\ r.client = s.client /\ r.open = s.open
          /\ r.resp = resp /\ r.at = "reading" /\ r.req = s.req
      BY <1>0 DEF Kept, SessionFields
    <3>. QED  BY <3>1, <3>2
  <2>2. CASE ~Respond(i)
    <3>. DEFINE told == IF "client" \in s.open THEN [s EXCEPT !.resp = resp] ELSE s
                r == [told EXCEPT !.at = "ended", !.answer = <<>>, !.count = 0, !.slot = 0,
                                  !.owing = {}]
    <3>1. ToldToTryAgain(i) = IF "client" \in s.open THEN [session EXCEPT ![i] = told] ELSE session
      BY <1>0, <2>2 DEF ToldToTryAgain, Told, Kept, SessionFields
    <3>2. session' = [ToldToTryAgain(i) EXCEPT ![i] = r]
      BY <1>0, <2>2, <3>1 DEF LoadOver
    <3>3. session' = [session EXCEPT ![i] = r]
      BY <1>0, <3>1, <3>2
    <3>4. DOMAIN told = SessionFields /\ told.client = s.client /\ told.open = s.open
          /\ told.resp = resp /\ told.req = s.req
      BY <1>0 DEF Kept, SessionFields
    <3>5. /\ DOMAIN r = SessionFields /\ r.client = s.client /\ r.open = s.open
          /\ r.resp = resp /\ r.at = "ended" /\ r.req = s.req
      BY <3>4 DEF SessionFields
    <3>. QED  BY <3>3, <3>5
  <2>. QED  BY <2>1, <2>2
<1>2. s.at \in {"collecting", "share"}
  BY DEF Respond, Collected, LoadOver
<1>3. Kept(r)
  BY <1>0, <1>1, <1>2 DEF Kept, ThreadStates
<1>4. ~Unasked(s) /\ ~Listed(s) /\ ~Asked(s, Ping)
  BY <1>2 DEF Unasked, Listed, Asked
<1>5. ASSUME NEW k \in Clients, InStep(gui[k], s), "client" \in s.open
      PROVE  InStep(gui[k], r)
  <2>1. gui[k].at \notin {"idle", "connect", "send"}
    BY <1>2, <1>4, <1>5 DEF InStep, PingInStep
  <2>2. ASSUME gui[k].at = "waiting"
        PROVE  QueryInStep(r, gui[k].query)
    <3>1. s.resp = <<>> /\ s.req = <<>> /\ s.input = Query(gui[k].query)
      BY <1>2, <1>4, <1>5, <2>2 DEF InStep, QueryInStep, Asked
    <3>2. q = gui[k].query
      BY <3>1, MessagesDiffer, OnlyOne
    <3>3. /\ <<>> \o <<TryAgain>> = <<TryAgain>> /\ <<>> \o <<Answer(q)>> = <<Answer(q)>>
          /\ <<>> \o <<Answer(q), Remainder>> = <<Answer(q), Remainder>>
      BY OneAppended
    <3>4. msgs \in {<<TryAgain>>, <<Answer(q)>>, <<Answer(q), Remainder>>}
      BY DEF Split
    <3>5. r.resp = <<>> \o msgs
      BY <1>1, <1>5, <3>1
    <3>6. r.resp \in {<<TryAgain>>, <<Answer(q)>>, <<Answer(q), Remainder>>}
      BY <3>3, <3>4, <3>5
    <3>. QED  BY <1>1, <3>1, <3>2, <3>6 DEF QueryInStep, Unasked
  <2>. QED  BY <2>1, <2>2 DEF InStep
<1>6. Follows(s, r)
  BY <1>1, <1>4, <1>5 DEF Follows
<1>. QED  BY <1>0, <1>1, <1>3, <1>6, SessionMoves

LEMMA ThreadKeeps ==
  ASSUME ClientInv, NEW i \in SessionIds, ThreadStep(i)
  PROVE  ClientInv'
<1>1. CASE \E k \in 0..MaxRead : LoadOverruns(i, k)
  BY <1>1, EndedKeeps DEF LoadOverruns
<1>. QED
  BY <1>1, ReadingKeeps, HandlingKeeps, WorkKeeps, RespondKeeps DEF ThreadStep

-----------------------------------------------------------------------------
\* The steps of a client program.

LEMMA ClientMoves ==
  ASSUME ClientInv, NEW k \in Clients, NEW g,
         gui' = [gui EXCEPT ![k] = g],
         session' = [j \in SessionIds |-> session'[j]],
         \A j \in SessionIds : Kept(session'[j]),
         \A j \in SessionIds :
           "client" \in session[j].open /\ session[j].client # k => session'[j] = session[j],
         ClientHeld(k, g, session')
  PROVE  ClientInv'
<1>1. /\ gui' = [l \in Clients |-> gui'[l]]
      /\ \A l \in Clients : gui'[l] = IF l = k THEN g ELSE gui[l]
  BY DEF ClientInv
<1>2. ASSUME NEW l \in Clients, l # k
      PROVE  ClientHeld(l, gui[l], session')
  <2>1. GuiKept(gui[l]) /\ LeaderHeld(l, gui[l], session) /\ PolledHeld(l, gui[l], session)
    BY DEF ClientInv, ClientHeld
  <2>2. \A j \in SessionIds : Holds(l, session[j]) => session'[j] = session[j]
    BY <1>2 DEF Holds
  <2>3. LeaderHeld(l, gui[l], session')
    BY <2>1, <2>2 DEF LeaderHeld
  <2>4. \A a \in 1..Len(gui[l].polled) : gui[l].polled[a] \in SessionIds
    BY <2>1, ElementOfSeq DEF GuiKept
  <2>5. PolledHeld(l, gui[l], session')
    BY <2>1, <2>2, <2>4 DEF PolledHeld
  <2>. QED  BY <2>1, <2>3, <2>5 DEF ClientHeld
<1>3. \A l \in Clients : ClientHeld(l, gui'[l], session')
  BY <1>1, <1>2
<1>. QED  BY <1>1, <1>3 DEF ClientInv

\* The same for a step that changes one session.
LEMMA ClientMovesOne ==
  ASSUME ClientInv, NEW k \in Clients, NEW g, NEW i \in SessionIds, NEW r,
         gui' = [gui EXCEPT ![k] = g], session' = [session EXCEPT ![i] = r],
         Kept(r), "client" \in session[i].open => session[i].client = k,
         ClientHeld(k, g, session')
  PROVE  ClientInv'
<1>1. /\ session' = [j \in SessionIds |-> session'[j]]
      /\ \A j \in SessionIds : session'[j] = IF j = i THEN r ELSE session[j]
  BY DEF ClientInv
<1>2. \A j \in SessionIds : Kept(session'[j])
  BY <1>1 DEF ClientInv
<1>. QED  BY <1>1, <1>2, ClientMoves

\* A program that forgets everything, or polls nobody yet, holds nothing.
LEMMA HoldsNothing ==
  ASSUME NEW k, NEW g, NEW ss, GuiKept(g), g.leader = NoSession, g.polled = <<>>
  PROVE  ClientHeld(k, g, ss)
BY DEF ClientHeld, LeaderHeld, PolledHeld

\* Nor does one with a leader poll any other.
LEMMA HoldsLeader ==
  ASSUME NEW k, NEW g, NEW ss, GuiKept(g), g.polled = <<>>, g.leader \in SessionIds,
         Holds(k, ss[g.leader]), InStep(g, ss[g.leader])
  PROVE  ClientHeld(k, g, ss)
BY DEF ClientHeld, LeaderHeld, PolledHeld

LEMMA ClickKeeps ==
  ASSUME ClientInv, NEW k \in Clients, NEW button \in {"connect", "send"}, Click(k, button)
  PROVE  ClientInv'
<1>. DEFINE L == gui[k].leader
            s == session[L]
<1>0. /\ GuiKept(gui[k]) /\ gui[k].at = "idle" /\ gui[k].polled = <<>>
      /\ LeaderHeld(k, gui[k], session)
      /\ session = [j \in SessionIds |-> session[j]] /\ gui = [l \in Clients |-> gui[l]]
      /\ \A j \in SessionIds : Kept(session[j])
  BY DEF ClientInv, Click, ClientHeld, GuiKept
<1>1. CASE L = NoSession
  <2>. DEFINE g == Polling(gui[k])
  <2>1. gui' = [gui EXCEPT ![k] = g] /\ session' = session
    BY <1>0, <1>1 DEF Click
  <2>2. GuiKept(g) /\ g.leader = NoSession /\ g.polled = <<>>
    BY <1>0, <1>1 DEF GuiKept, Polling, GuiFields
  <2>. QED  BY <1>0, <2>1, <2>2, HoldsNothing, ClientMoves
<1>2. CASE L # NoSession
  <2>. DEFINE g == [gui[k] EXCEPT !.at = button]
              r == [s EXCEPT !.req = Append(s.req, Ping)]
  <2>1. L \in SessionIds /\ Holds(k, s) /\ Unasked(s) /\ LeftOver(s) /\ Kept(s)
    BY <1>0, <1>2 DEF LeaderHeld, InStep
  <2>2. gui' = [gui EXCEPT ![k] = g]
    BY <1>0, <1>2 DEF Click, GuiKept, GuiFields
  <2>3. /\ GuiKept(g) /\ g.leader = L /\ g.at \in {"connect", "send"} /\ g.polled = <<>>
    BY <1>0, <1>2 DEF GuiKept, GuiFields
  <2>4. CASE "server" \in s.open
    <3>1. session' = [session EXCEPT ![L] = r]
      BY <1>0, <1>2, <2>1, <2>4 DEF Click, Requested, Kept, SessionFields
    <3>2. /\ DOMAIN r = SessionFields /\ r.client = s.client /\ r.open = s.open
          /\ r.resp = s.resp /\ r.at = s.at /\ r.req = <<Ping>>
      BY <2>1, OneAppended DEF Kept, SessionFields, Unasked
    <3>3. Kept(r) /\ Holds(k, r)
      BY <2>1, <2>4, <3>2 DEF Kept, Holds
    <3>4. Asked(r, Ping)
      BY <2>1, <2>4, <3>2 DEF Asked, Unasked, Kept
    <3>5. InStep(g, r)
      BY <2>1, <2>3, <3>2, <3>4 DEF InStep, PingInStep, LeftOver
    <3>6. session'[L] = r
      BY <1>0, <2>1, <3>1
    <3>. QED  BY <2>1, <2>2, <2>3, <3>1, <3>3, <3>5, <3>6, HoldsLeader, ClientMovesOne DEF Holds
  <2>5. CASE "server" \notin s.open
    <3>1. session' = session
      BY <1>0, <1>2, <2>5 DEF Click, Requested
    <3>2. InStep(g, s)
      BY <2>1, <2>3, <2>5 DEF InStep, PingInStep, LeftOver, Kept
    <3>. QED  BY <1>0, <2>1, <2>2, <2>3, <3>1, <3>2, HoldsLeader, ClientMoves
  <2>. QED  BY <2>4, <2>5
<1>. QED  BY <1>1, <1>2

LEMMA ClientShut ==
  ASSUME NEW i \in SessionIds, Kept(session[i])
  PROVE  Kept(Shut(i, "client"))
BY DEF Kept, Shut, FreeSession, SessionFields, ThreadStates

LEMMA QuitKeeps ==
  ASSUME ClientInv, NEW k \in Clients, Quit(k)
  PROVE  ClientInv'
<1>. DEFINE g == [NewClient EXCEPT !.at = "gone", !.sent = gui[k].sent]
<1>1. /\ gui' = [gui EXCEPT ![k] = g]
      /\ session' = [j \in SessionIds |-> session'[j]]
      /\ \A j \in SessionIds :
           session'[j] = IF session[j].client = k THEN Shut(j, "client") ELSE session[j]
  BY DEF Quit
<1>2. \A j \in SessionIds : Kept(session'[j])
  BY <1>1, ClientShut DEF ClientInv
<1>3. GuiKept(g) /\ g.leader = NoSession /\ g.polled = <<>>
  BY DEF GuiKept, GuiFields, NewClient, NoSession
<1>. QED  BY <1>1, <1>2, <1>3, HoldsNothing, ClientMoves

LEMMA PollKeeps ==
  ASSUME ClientInv, NEW k \in Clients, PollServer(k)
  PROVE  ClientInv'
<1>. DEFINE n == Head(gui[k].rest)
            p == gui[k].polled
<1>0. /\ GuiKept(gui[k]) /\ gui[k].at = "polling" /\ gui[k].leader = NoSession
      /\ PolledHeld(k, gui[k], session) /\ p \in Seq(SessionIds)
      /\ session = [j \in SessionIds |-> session[j]] /\ gui = [l \in Clients |-> gui[l]]
      /\ \A j \in SessionIds : Kept(session[j])
  BY DEF ClientInv, PollServer, ClientHeld, GuiKept
<1>1. CASE phase[n] # "up"
  <2>. DEFINE g == [gui[k] EXCEPT !.rest = Tail(gui[k].rest)]
  <2>1. gui' = [gui EXCEPT ![k] = g] /\ session' = session
    BY <1>0, <1>1 DEF PollServer, GuiKept, GuiFields
  <2>2. GuiKept(g) /\ g.leader = NoSession /\ g.polled = p
    BY <1>0 DEF GuiKept, GuiFields
  <2>3. ClientHeld(k, g, session)
    BY <1>0, <2>2 DEF ClientHeld, LeaderHeld, PolledHeld
  <2>. QED  BY <1>0, <2>1, <2>3, ClientMoves
<1>2. CASE phase[n] = "up"
  <2>1. PICK i \in SessionIds :
          /\ session[i] = FreeSession
          /\ session' = [session EXCEPT ![i] = NewSession(k, n)]
          /\ gui' = [gui EXCEPT ![k].rest = Tail(@), ![k].polled = <<i>> \o @]
    BY <1>2 DEF PollServer
  <2>. DEFINE g == [gui[k] EXCEPT !.rest = Tail(gui[k].rest), !.polled = <<i>> \o p]
              r == NewSession(k, n)
  <2>2. gui' = [gui EXCEPT ![k] = g]
    BY <1>0, <2>1 DEF GuiKept, GuiFields
  <2>3. /\ <<i>> \o p \in Seq(SessionIds) /\ Len(<<i>> \o p) = 1 + Len(p) /\ Len(p) \in Nat
        /\ (<<i>> \o p)[1] = i
        /\ \A a \in 2..(1 + Len(p)) : (<<i>> \o p)[a] = p[a - 1]
    <3>1. <<i>> \in Seq(SessionIds) /\ Len(<<i>>) = 1 /\ <<i>>[1] = i
      OBVIOUS
    <3>. QED  BY <1>0, <3>1, ConcatProperties, LenProperties
  <2>4. GuiKept(g) /\ g.leader = NoSession /\ g.polled = <<i>> \o p
    BY <1>0, <2>3 DEF GuiKept, GuiFields
  <2>5. Kept(r) /\ Holds(k, r) /\ Listed(r)
    BY DEF Kept, Holds, Listed, NewSession, FreeSession, SessionFields, ThreadStates
  <2>6. \A a \in 1..Len(p) : p[a] \in SessionIds /\ p[a] # i
    BY <1>0, <2>1, ElementOfSeq DEF PolledHeld, Holds, FreeSession
  <2>7. session'[i] = r /\ \A j \in SessionIds : j # i => session'[j] = session[j]
    BY <1>0, <2>1
  <2>8. ASSUME NEW a \in 1..Len(g.polled)
        PROVE  /\ Holds(k, session'[g.polled[a]]) /\ Listed(session'[g.polled[a]])
               /\ \A b \in 1..Len(g.polled) : a # b => g.polled[a] # g.polled[b]
    <3>1. a = 1 \/ (a \in 2..(1 + Len(p)) /\ a - 1 \in 1..Len(p))
      BY <2>3, <2>4
    <3>2. \A b \in 1..Len(g.polled) : b = 1 \/ (b \in 2..(1 + Len(p)) /\ b - 1 \in 1..Len(p))
      BY <2>3, <2>4
    <3>3. CASE a = 1
      BY <2>3, <2>4, <2>5, <2>6, <2>7, <3>2, <3>3
    <3>4. CASE a \in 2..(1 + Len(p)) /\ a - 1 \in 1..Len(p)
      <4>1. g.polled[a] = p[a - 1]
        BY <2>3, <2>4, <3>4
      <4>2. Holds(k, session'[p[a - 1]]) /\ Listed(session'[p[a - 1]])
        BY <1>0, <2>6, <2>7, <3>4 DEF PolledHeld
      <4>3. ASSUME NEW b \in 1..Len(g.polled), a # b
            PROVE  g.polled[b] # p[a - 1]
        BY <1>0, <2>3, <2>4, <2>6, <3>2, <3>4, <4>3 DEF PolledHeld
      <4>. QED  BY <4>1, <4>2, <4>3
    <3>. QED  BY <3>1, <3>3, <3>4
  <2>9. ClientHeld(k, g, session')
    BY <2>4, <2>8 DEF ClientHeld, LeaderHeld, PolledHeld
  <2>10. "client" \notin session[i].open
    BY <2>1 DEF FreeSession
  <2>. QED  BY <2>1, <2>2, <2>5, <2>9, <2>10, ClientMovesOne
<1>. QED  BY <1>1, <1>2

\* What a read of the client returns and leaves.
Taken(s) == [s EXCEPT !.resp = IF @ = <<>> THEN @ ELSE Tail(@)]

LEMMA ReadTaken ==
  ASSUME NEW i \in SessionIds, Kept(session[i]), session = [j \in SessionIds |-> session[j]]
  PROVE  LET s == session[i]
             r == Taken(s) IN
         /\ Consumed(i) = [session EXCEPT ![i] = r]
         /\ Kept(r)
         /\ r.client = s.client /\ r.open = s.open /\ r.req = s.req
         /\ r.at = s.at /\ r.input = s.input
         /\ s.resp = <<>> => r.resp = <<>> /\ ClientReads(i) \subseteq {Unwritten, NoMsg}
         /\ s.resp # <<>> => r.resp = Tail(s.resp) /\ ClientReads(i) = {Head(s.resp)}
         /\ ClientReads(i) # {} /\ s.resp = <<>> => s.at = "none"
BY DEF Kept, SessionFields, Consumed, Taken, ClientReads

LEMMA ForgottenAfter ==
  ASSUME NEW i \in SessionIds, NEW r, Kept(r), ClientInv
  PROVE  \E t : /\ Forgotten([session EXCEPT ![i] = r], i) = [session EXCEPT ![i] = t]
                /\ Kept(t)
<1>1. [session EXCEPT ![i] = r][i] = r
  BY DEF ClientInv
<1>2. Kept(FreeSession)
  BY DEF Kept, FreeSession, SessionFields, ThreadStates
<1>3. Forgotten([session EXCEPT ![i] = r], i)
        = [session EXCEPT ![i] = IF "server" \in r.open THEN r ELSE FreeSession]
  BY <1>1 DEF Forgotten, ClientInv
<1>. QED  BY <1>2, <1>3

LEMMA FindKeeps ==
  ASSUME ClientInv, NEW k \in Clients, FindLeader(k)
  PROVE  ClientInv'
<1>. DEFINE p == gui[k].polled
            i == Head(p)
            s == session[i]
            r == Taken(s)
<1>0. /\ GuiKept(gui[k]) /\ gui[k].at = "polling" /\ gui[k].leader = NoSession
      /\ PolledHeld(k, gui[k], session) /\ p \in Seq(SessionIds)
      /\ session = [j \in SessionIds |-> session[j]] /\ gui = [l \in Clients |-> gui[l]]
      /\ \A j \in SessionIds : Kept(session[j])
  BY DEF ClientInv, FindLeader, ClientHeld, GuiKept
<1>1. CASE p = <<>>
  <2>. DEFINE g == [gui[k] EXCEPT !.at = "idle"]
  <2>1. gui' = [gui EXCEPT ![k] = g] /\ session' = session
    BY <1>0, <1>1 DEF FindLeader, GuiKept, GuiFields
  <2>2. GuiKept(g) /\ g.leader = NoSession /\ g.polled = <<>>
    BY <1>0, <1>1 DEF GuiKept, GuiFields
  <2>. QED  BY <1>0, <2>1, <2>2, HoldsNothing, ClientMoves
<1>2. CASE p # <<>>
  <2>0. /\ Tail(p) \in Seq(SessionIds) /\ Len(p) \in Nat \ {0} /\ Len(Tail(p)) = Len(p) - 1
        /\ Head(p) = p[1] /\ \A a \in 1..Len(Tail(p)) : Tail(p)[a] = p[a + 1]
    BY <1>0, <1>2, HeadTailProperties, EmptySeq, LenProperties
  <2>1. /\ i \in SessionIds /\ Holds(k, s) /\ Listed(s)
        /\ \A a \in 1..Len(Tail(p)) : /\ Tail(p)[a] # i /\ Tail(p)[a] \in SessionIds
                                      /\ Holds(k, session[Tail(p)[a]])
                                      /\ Listed(session[Tail(p)[a]])
                                      /\ \A b \in 1..Len(Tail(p)) : a # b => Tail(p)[a] # Tail(p)[b]
    <3>1. 1 \in 1..Len(p) /\ \A a \in 1..Len(Tail(p)) : a + 1 \in 1..Len(p) /\ a + 1 # 1
      BY <2>0
    <3>2. i \in SessionIds
      BY <1>0, <2>0, <3>1, ElementOfSeq
    <3>3. ASSUME NEW a \in 1..Len(Tail(p))
          PROVE  /\ Tail(p)[a] # i /\ Tail(p)[a] \in SessionIds
                 /\ Holds(k, session[Tail(p)[a]]) /\ Listed(session[Tail(p)[a]])
      <4>1. Tail(p)[a] = p[a + 1] /\ a + 1 \in 1..Len(p) /\ a + 1 # 1
        BY <2>0, <3>1
      <4>2. p[a + 1] \in SessionIds
        BY <1>0, <4>1, ElementOfSeq
      <4>. QED  BY <1>0, <2>0, <3>1, <4>1, <4>2 DEF PolledHeld
    <3>4. ASSUME NEW a \in 1..Len(Tail(p)), NEW b \in 1..Len(Tail(p)), a # b
          PROVE  Tail(p)[a] # Tail(p)[b]
      <4>1. /\ Tail(p)[a] = p[a + 1] /\ a + 1 \in 1..Len(p)
            /\ Tail(p)[b] = p[b + 1] /\ b + 1 \in 1..Len(p) /\ a + 1 # b + 1
        BY <2>0, <3>1, <3>4
      <4>. QED  BY <1>0, <4>1 DEF PolledHeld
    <3>5. Holds(k, s) /\ Listed(s)
      BY <1>0, <2>0, <3>1 DEF PolledHeld
    <3>. QED  BY <3>2, <3>3, <3>4, <3>5
  <2>2. /\ Consumed(i) = [session EXCEPT ![i] = r] /\ Kept(r) /\ Holds(k, r)
        /\ r.at = s.at /\ r.req = s.req
        /\ s.resp = <<>> => r.resp = <<>> /\ ClientReads(i) \subseteq {Unwritten, NoMsg}
        /\ s.resp # <<>> => r.resp = Tail(s.resp) /\ ClientReads(i) = {Head(s.resp)}
    BY <1>0, <2>1, ReadTaken DEF Holds
  <2>3. CASE ClientReads(i) # {} /\ \E msg \in ClientReads(i) : msg = Ack /\
               /\ session' = [j \in SessionIds |->
                    IF j \in OthersPolled(p) THEN Shut(j, "client") ELSE Consumed(i)[j]]
               /\ gui' = [gui EXCEPT ![k].at = "idle", ![k].polled = <<>>, ![k].leader = i]
    <3>. DEFINE g == [gui[k] EXCEPT !.at = "idle", !.polled = <<>>, !.leader = i]
    <3>1. gui' = [gui EXCEPT ![k] = g]
      BY <1>0, <2>3 DEF GuiKept, GuiFields
    <3>2. GuiKept(g) /\ g.leader = i /\ g.at = "idle" /\ g.polled = <<>>
      BY <1>0, <2>1 DEF GuiKept, GuiFields
    <3>3. s.resp = <<Ack>> /\ Unasked(s)
      <4>1. s.resp # <<>>
        BY <2>2, <2>3, MessagesDiffer
      <4>. QED  BY <2>1, <4>1 DEF Listed
    <3>4. r.resp = <<>> /\ Unasked(r)
      BY <2>2, <3>3, OneAppended DEF Unasked
    <3>5. \A j \in OthersPolled(p) : j \in SessionIds /\ j # i /\ Holds(k, session[j])
      BY <2>0, <2>1, LenProperties DEF OthersPolled, Range
    <3>6. session' = [j \in SessionIds |->
            IF j \in OthersPolled(p) THEN Shut(j, "client") ELSE [session EXCEPT ![i] = r][j]]
      BY <2>2, <2>3
    <3>7. /\ session' = [j \in SessionIds |-> session'[j]]
          /\ session'[i] = r
          /\ \A j \in SessionIds : j # i =>
               session'[j] = IF j \in OthersPolled(p) THEN Shut(j, "client") ELSE session[j]
      BY <1>0, <2>1, <3>5, <3>6
    <3>8. \A j \in SessionIds : Kept(session'[j])
      BY <1>0, <2>2, <3>7, ClientShut
    <3>9. \A j \in SessionIds :
            "client" \in session[j].open /\ session[j].client # k => session'[j] = session[j]
      BY <2>1, <3>5, <3>7 DEF Holds
    <3>10. ClientHeld(k, g, session')
      <4>1. InStep(g, r)
        BY <3>2, <3>4 DEF InStep, LeftOver
      <4>2. Holds(k, session'[i]) /\ session'[i] = r /\ i \in SessionIds
        BY <2>1, <2>2, <3>7
      <4>. HIDE DEF g
      <4>. QED  BY <3>2, <4>1, <4>2, HoldsLeader
    <3>. QED  BY <3>1, <3>7, <3>8, <3>9, <3>10, ClientMoves
  <2>4. CASE /\ session' = Forgotten(Consumed(i), i)
             /\ gui' = [gui EXCEPT ![k].polled = Tail(@)]
    <3>. DEFINE g == [gui[k] EXCEPT !.polled = Tail(p)]
    <3>1. gui' = [gui EXCEPT ![k] = g]
      BY <1>0, <2>4 DEF GuiKept, GuiFields
    <3>2. GuiKept(g) /\ g.leader = NoSession /\ g.polled = Tail(p)
      BY <1>0, <2>0 DEF GuiKept, GuiFields
    <3>3. PICK t : session' = [session EXCEPT ![i] = t] /\ Kept(t)
      <4>1. \E t : /\ Forgotten([session EXCEPT ![i] = r], i) = [session EXCEPT ![i] = t]
                   /\ Kept(t)
        BY <2>1, <2>2, ForgottenAfter
      <4>. QED  BY <2>2, <2>4, <4>1
    <3>4. \A j \in SessionIds : j # i => session'[j] = session[j]
      BY <1>0, <3>3
    <3>5. ClientHeld(k, g, session')
      BY <2>0, <2>1, <3>2, <3>4 DEF ClientHeld, LeaderHeld, PolledHeld
    <3>. QED  BY <2>1, <3>1, <3>3, <3>5, ClientMovesOne DEF Holds
  <2>. QED  BY <1>2, <2>3, <2>4 DEF FindLeader
<1>. QED  BY <1>1, <1>2

\* What the leader's connection holds when a read of the client returns.
LEMMA LeaderRead ==
  ASSUME ClientInv, NEW k \in Clients, gui[k].at \in {"connect", "send", "waiting"}
  PROVE  LET i == gui[k].leader
             s == session[i]
             r == Taken(s)
             q == gui[k].query IN
         /\ i \in SessionIds /\ Holds(k, s) /\ Kept(r) /\ Holds(k, r)
         /\ r.client = s.client /\ r.open = s.open /\ r.req = s.req
         /\ r.at = s.at /\ r.input = s.input
         /\ Consumed(i) = [session EXCEPT ![i] = r]
         /\ \A msg \in ClientReads(i) :
              /\ msg = Ping /\ gui[k].at # "waiting" => Unasked(r) /\ r.resp = <<>>
              /\ gui[k].at = "waiting" =>
                   /\ msg \in {Unwritten, NoMsg, TryAgain, Answer(q)}
                   /\ Unasked(r) /\ LeftOver(r)
<1>. DEFINE i == gui[k].leader
            s == session[i]
            r == Taken(s)
            q == gui[k].query
<1>1. i \in SessionIds /\ Holds(k, s) /\ InStep(gui[k], s)
  BY DEF ClientInv, ClientHeld, GuiKept, LeaderHeld
<1>2. Kept(s) /\ session = [j \in SessionIds |-> session[j]]
  BY <1>1 DEF ClientInv
<1>3. /\ Consumed(i) = [session EXCEPT ![i] = r] /\ Kept(r)
      /\ r.client = s.client /\ r.open = s.open /\ r.req = s.req
      /\ r.at = s.at /\ r.input = s.input
      /\ s.resp = <<>> => r.resp = <<>> /\ ClientReads(i) \subseteq {Unwritten, NoMsg}
      /\ s.resp # <<>> => r.resp = Tail(s.resp) /\ ClientReads(i) = {Head(s.resp)}
      /\ ClientReads(i) # {} /\ s.resp = <<>> => s.at = "none"
  BY <1>1, <1>2, ReadTaken
<1>4. ASSUME NEW msg \in ClientReads(i), msg = Ping, gui[k].at # "waiting"
      PROVE  Unasked(r) /\ r.resp = <<>>
  <2>1. s.resp # <<>> /\ Head(s.resp) = Ping
    BY <1>3, <1>4, MessagesDiffer
  <2>2. PingInStep(s)
    BY <1>1, <1>4 DEF InStep
  <2>3. Head(<<Remainder>>) = Remainder /\ Head(<<Remainder, Ping>>) = Remainder
    BY OneAppended
  <2>4. Unasked(s) /\ s.resp = <<Ping>>
    BY <2>1, <2>2, <2>3, MessagesDiffer DEF PingInStep, LeftOver
  <2>. QED  BY <1>3, <2>4, OneAppended DEF Unasked
<1>5. ASSUME NEW msg \in ClientReads(i), gui[k].at = "waiting"
      PROVE  /\ msg \in {Unwritten, NoMsg, TryAgain, Answer(q)}
             /\ Unasked(r) /\ LeftOver(r)
  <2>1. QueryInStep(s, q)
    BY <1>1, <1>5 DEF InStep
  <2>2. CASE s.resp = <<>>
    BY <1>2, <1>3, <1>5, <2>2 DEF Kept, Unasked, LeftOver
  <2>3. CASE s.resp # <<>>
    <3>1. Unasked(s) /\ s.resp \in {<<Answer(q)>>, <<Answer(q), Remainder>>, <<TryAgain>>}
      BY <2>1, <2>3 DEF QueryInStep
    <3>2. /\ Head(<<Answer(q)>>) = Answer(q) /\ Head(<<Answer(q), Remainder>>) = Answer(q)
          /\ Head(<<TryAgain>>) = TryAgain
          /\ Tail(<<Answer(q)>>) = <<>> /\ Tail(<<Answer(q), Remainder>>) = <<Remainder>>
          /\ Tail(<<TryAgain>>) = <<>>
      BY OneAppended
    <3>3. Head(s.resp) \in {Answer(q), TryAgain} /\ Tail(s.resp) \in {<<>>, <<Remainder>>}
      BY <3>1, <3>2
    <3>. QED  BY <1>3, <1>5, <2>3, <3>1, <3>3 DEF Unasked, LeftOver
  <2>. QED  BY <2>2, <2>3
<1>. QED  BY <1>1, <1>3, <1>4, <1>5 DEF Holds

LEMMA PingedKeeps ==
  ASSUME ClientInv, NEW k \in Clients, Pinged(k)
  PROVE  ClientInv'
<1>. DEFINE i == gui[k].leader
            s == session[i]
            r == Taken(s)
<1>0. /\ GuiKept(gui[k]) /\ gui[k].polled = <<>> /\ gui[k].at \in {"connect", "send"}
      /\ session = [j \in SessionIds |-> session[j]] /\ gui = [l \in Clients |-> gui[l]]
  BY DEF ClientInv, Pinged, ClientHeld, GuiKept
<1>1. /\ i \in SessionIds /\ Holds(k, s) /\ Kept(r) /\ Holds(k, r)
      /\ Consumed(i) = [session EXCEPT ![i] = r]
      /\ Ping \in ClientReads(i) => Unasked(r) /\ r.resp = <<>>
  BY <1>0, LeaderRead
<1>2. CASE /\ Ping \in ClientReads(i) /\ gui[k].at = "send"
           /\ \E q \in Queries :
                /\ session' = Requested(Consumed(i), i, Query(q))
                /\ gui' = [gui EXCEPT ![k].at = "waiting", ![k].sent = @ + 1, ![k].query = q]
  <2>1. PICK q \in Queries :
          /\ session' = Requested(Consumed(i), i, Query(q))
          /\ gui' = [gui EXCEPT ![k].at = "waiting", ![k].sent = @ + 1, ![k].query = q]
    BY <1>2
  <2>. DEFINE g == [gui[k] EXCEPT !.at = "waiting", !.sent = gui[k].sent + 1, !.query = q]
              t == IF "server" \in r.open THEN [r EXCEPT !.req = Append(r.req, Query(q))] ELSE r
  <2>2. gui' = [gui EXCEPT ![k] = g]
    BY <1>0, <2>1 DEF GuiKept, GuiFields
  <2>3. GuiKept(g) /\ g.leader = i /\ g.at = "waiting" /\ g.query = q /\ g.polled = <<>>
    BY <1>0 DEF GuiKept, GuiFields
  <2>4. [session EXCEPT ![i] = r][i] = r
    BY <1>0, <1>1
  <2>5. session' = [session EXCEPT ![i] = t]
    BY <1>0, <1>1, <2>1, <2>4 DEF Requested, Kept, SessionFields
  <2>6. Unasked(r) /\ r.resp = <<>>
    BY <1>1, <1>2
  <2>7. /\ DOMAIN t = SessionFields /\ t.client = r.client /\ t.open = r.open
        /\ t.resp = <<>> /\ t.at = r.at
        /\ t.req = IF "server" \in r.open THEN <<Query(q)>> ELSE <<>>
    BY <1>1, <2>6, OneAppended DEF Kept, SessionFields, Unasked
  <2>. HIDE DEF g, t
  <2>8. Kept(t) /\ Holds(k, t)
    <3>1. DOMAIN r = SessionFields /\ r.client = k /\ "client" \in r.open
      BY <1>1 DEF Kept, Holds
    <3>. QED  BY <1>1, <2>7, <3>1 DEF Kept, Holds
  <2>9. QueryInStep(t, q)
    BY <1>1, <2>6, <2>7 DEF QueryInStep, Asked, Unasked, Kept
  <2>10. InStep(g, t)
    BY <2>3, <2>9 DEF InStep
  <2>11. session'[i] = t
    BY <1>0, <1>1, <2>5
  <2>12. ClientHeld(k, g, session')
    BY <1>1, <2>3, <2>8, <2>10, <2>11, HoldsLeader
  <2>13. session[i].client = k
    BY <1>1 DEF Holds
  <2>. QED  BY <1>1, <2>2, <2>5, <2>8, <2>12, <2>13, ClientMovesOne
<1>3. CASE /\ Ping \in ClientReads(i) /\ session' = Consumed(i)
           /\ gui' = [gui EXCEPT ![k].at = "idle"]
  <2>. DEFINE g == [gui[k] EXCEPT !.at = "idle"]
  <2>1. gui' = [gui EXCEPT ![k] = g]
    BY <1>0, <1>3 DEF GuiKept, GuiFields
  <2>2. GuiKept(g) /\ g.leader = i /\ g.at = "idle" /\ g.polled = <<>>
    BY <1>0 DEF GuiKept, GuiFields
  <2>3. InStep(g, r)
    BY <1>1, <1>3, <2>2 DEF InStep, LeftOver
  <2>4. session' = [session EXCEPT ![i] = r] /\ session'[i] = r
    BY <1>0, <1>1, <1>3
  <2>. HIDE DEF g
  <2>5. ClientHeld(k, g, session')
    BY <1>1, <2>2, <2>3, <2>4, HoldsLeader
  <2>6. session[i].client = k
    BY <1>1 DEF Holds
  <2>. QED  BY <1>1, <2>1, <2>4, <2>5, <2>6, ClientMovesOne
<1>4. CASE /\ session' = Forgotten(Consumed(i), i)
           /\ gui' = [[gui EXCEPT ![k].leader = NoSession] EXCEPT ![k] =
                   IF @.at = "send" THEN [@ EXCEPT !.at = "idle"] ELSE Polling(@)]
  <2>. DEFINE f == [gui[k] EXCEPT !.leader = NoSession]
              g == IF f.at = "send" THEN [f EXCEPT !.at = "idle"] ELSE Polling(f)
  <2>1. gui' = [gui EXCEPT ![k] = g]
    BY <1>0, <1>4 DEF GuiKept, GuiFields
  <2>2. GuiKept(g) /\ g.leader = NoSession /\ g.polled = <<>>
    BY <1>0 DEF GuiKept, GuiFields, Polling
  <2>3. PICK t : session' = [session EXCEPT ![i] = t] /\ Kept(t)
    <3>1. \E t : /\ Forgotten([session EXCEPT ![i] = r], i) = [session EXCEPT ![i] = t]
                 /\ Kept(t)
      BY <1>1, ForgottenAfter
    <3>. QED  BY <1>1, <1>4, <3>1
  <2>. QED  BY <1>1, <2>1, <2>2, <2>3, HoldsNothing, ClientMovesOne DEF Holds
<1>5. PICK msg \in ClientReads(i), q \in Queries :
        CASE PingSucceeds(msg) /\ gui[k].at = "send" ->
              /\ session' = Requested(Consumed(i), i, Query(q))
              /\ gui' = [gui EXCEPT ![k].at = "waiting", ![k].sent = @ + 1, ![k].query = q]
         [] PingSucceeds(msg) /\ gui[k].at = "connect" ->
              /\ session' = Consumed(i)
              /\ gui' = [gui EXCEPT ![k].at = "idle"]
         [] OTHER ->
              /\ session' = Forgotten(Consumed(i), i)
              /\ gui' = [[gui EXCEPT ![k].leader = NoSession] EXCEPT ![k] =
                   IF @.at = "send" THEN [@ EXCEPT !.at = "idle"] ELSE Polling(@)]
  BY DEF Pinged
<1>. QED  BY <1>2, <1>3, <1>4, <1>5 DEF PingSucceeds

LEMMA ReplyKeeps ==
  ASSUME ClientInv, NEW k \in Clients, Reply(k)
  PROVE  /\ ClientInv'
         /\ gui' = [l \in Clients |-> gui'[l]]
         /\ \A l \in Clients : l # k => gui'[l] = gui[l]
         /\ \/ gui'[k].shown \in {Unwritten, TryAgain, Answer(gui[k].query)}
            \/ gui'[k].leader = NoSession /\ gui'[k].shown = gui[k].shown
<1>. DEFINE i == gui[k].leader
            s == session[i]
            r == Taken(s)
<1>0. /\ GuiKept(gui[k]) /\ gui[k].polled = <<>> /\ gui[k].at = "waiting"
      /\ session = [j \in SessionIds |-> session[j]] /\ gui = [l \in Clients |-> gui[l]]
  BY DEF ClientInv, Reply, ClientHeld, GuiKept
<1>1. /\ i \in SessionIds /\ Holds(k, s) /\ Kept(r) /\ Holds(k, r)
      /\ Consumed(i) = [session EXCEPT ![i] = r]
      /\ \A msg \in ClientReads(i) :
           /\ msg \in {Unwritten, NoMsg, TryAgain, Answer(gui[k].query)}
           /\ Unasked(r) /\ LeftOver(r)
  BY <1>0, LeaderRead
<1>2. CASE /\ session' = Forgotten(Consumed(i), i)
           /\ gui' = [gui EXCEPT ![k].at = "idle", ![k].leader = NoSession]
  <2>. DEFINE g == [gui[k] EXCEPT !.at = "idle", !.leader = NoSession]
  <2>1. gui' = [gui EXCEPT ![k] = g]
    BY <1>0, <1>2 DEF GuiKept, GuiFields
  <2>2. GuiKept(g) /\ g.leader = NoSession /\ g.polled = <<>> /\ g.shown = gui[k].shown
    BY <1>0 DEF GuiKept, GuiFields
  <2>3. PICK t : session' = [session EXCEPT ![i] = t] /\ Kept(t)
    <3>1. \E t : /\ Forgotten([session EXCEPT ![i] = r], i) = [session EXCEPT ![i] = t]
                 /\ Kept(t)
      BY <1>1, ForgottenAfter
    <3>. QED  BY <1>1, <1>2, <3>1
  <2>4. ClientInv'
    BY <1>1, <2>1, <2>2, <2>3, HoldsNothing, ClientMovesOne DEF Holds
  <2>. QED  BY <1>0, <2>1, <2>2, <2>4
<1>3. ASSUME NEW msg \in ClientReads(i), msg # NoMsg, session' = Consumed(i),
             gui' = [gui EXCEPT ![k].at = "idle", ![k].shown = msg]
      PROVE  /\ ClientInv'
             /\ gui' = [l \in Clients |-> gui'[l]]
             /\ \A l \in Clients : l # k => gui'[l] = gui[l]
             /\ gui'[k].shown \in {Unwritten, TryAgain, Answer(gui[k].query)}
  <2>. DEFINE g == [gui[k] EXCEPT !.at = "idle", !.shown = msg]
  <2>1. gui' = [gui EXCEPT ![k] = g]
    BY <1>0, <1>3 DEF GuiKept, GuiFields
  <2>2. GuiKept(g) /\ g.leader = i /\ g.at = "idle" /\ g.polled = <<>> /\ g.shown = msg
    BY <1>0 DEF GuiKept, GuiFields
  <2>3. InStep(g, r)
    BY <1>1, <2>2 DEF InStep
  <2>4. session' = [session EXCEPT ![i] = r] /\ session'[i] = r
    BY <1>0, <1>1, <1>3
  <2>5. ClientHeld(k, g, session')
    BY <1>1, <2>2, <2>3, <2>4, HoldsLeader
  <2>6. session[i].client = k
    BY <1>1 DEF Holds
  <2>7. ClientInv'
    BY <1>1, <2>1, <2>4, <2>5, <2>6, ClientMovesOne
  <2>. QED  BY <1>0, <1>1, <1>3, <2>1, <2>2, <2>7
<1>. QED  BY <1>2, <1>3 DEF Reply

-----------------------------------------------------------------------------
\* The beginning.

LEMMA SetToSeqProperties ==
  ASSUME NEW S, IsFiniteSet(S)
  PROVE  /\ SetToSeq(S) \in [1..Cardinality(S) -> S] /\ Cardinality(S) \in Nat
         /\ \A i, j \in 1..Cardinality(S) : SetToSeq(S)[i] = SetToSeq(S)[j] => i = j
         /\ \A e \in S : \E i \in 1..Cardinality(S) : SetToSeq(S)[i] = e
<1>. DEFINE N == Cardinality(S)
            f == SetToSeq(S)
<1>1. N \in Nat /\ ExistsBijection(1..N, S)
  BY FS_CardinalityType
<1>2. PICK g \in Bijection(1..N, S) : TRUE
  BY <1>1 DEF ExistsBijection
<1>3. g \in [1..N -> S] /\ IsInjective(g)
  BY <1>2 DEF Bijection, Injection
<1>4. f \in [1..N -> S] /\ IsInjective(f)
  BY <1>3 DEF SetToSeq
<1>5. f \in Injection(1..N, S) /\ IsFiniteSet(1..N) /\ Cardinality(1..N) = N
  BY <1>1, <1>4, FS_Interval DEF Injection
<1>6. f \in Surjection(1..N, S)
  BY <1>5, FS_Injection
<1>. QED  BY <1>1, <1>4, <1>6 DEF IsInjective, Surjection

LEMMA ClientInit ==
  ASSUME SessionsInit
  PROVE  ClientInv
<1>. DEFINE first == SetToSeq(Connected)
            N == Cardinality(Connected)
<1>1. IsFiniteSet(Connected) /\ N <= MaxSessions /\ MaxSessions \in Nat
  BY SessionsAssumption, FS_Subset
<1>2. /\ first \in [1..N -> Connected] /\ N \in Nat /\ DOMAIN first = 1..N
      /\ \A k \in Connected : \E i \in 1..N : first[i] = k
  BY <1>1, SetToSeqProperties
<1>3. 1..N \subseteq SessionIds
  BY <1>1, <1>2 DEF SessionIds
<1>4. /\ session = [j \in SessionIds |-> session[j]]
      /\ \A i \in SessionIds :
           session[i] = IF i \in 1..N
                        THEN [NewSession(first[i], Leader) EXCEPT !.req = <<>>, !.at = "reading"]
                        ELSE FreeSession
  BY <1>2 DEF SessionsInit
<1>5. /\ gui = [l \in Clients |-> gui[l]]
      /\ \A k \in Clients : gui[k] = [NewClient EXCEPT !.leader =
           IF k \in Connected THEN CHOOSE i \in 1..N : first[i] = k ELSE NoSession]
  BY <1>2 DEF SessionsInit
<1>6. ASSUME NEW i \in SessionIds
      PROVE  /\ Kept(session[i])
             /\ i \in 1..N => Holds(first[i], session[i]) /\ Unasked(session[i])
                              /\ LeftOver(session[i])
  <2>1. Kept(FreeSession)
    BY DEF Kept, FreeSession, SessionFields, ThreadStates
  <2>2. ASSUME NEW r, r = [NewSession(first[i], Leader) EXCEPT !.req = <<>>, !.at = "reading"]
        PROVE  Kept(r) /\ Holds(first[i], r) /\ Unasked(r) /\ LeftOver(r)
    BY <2>2 DEF Kept, NewSession, FreeSession, SessionFields, ThreadStates, Holds, Unasked, LeftOver
  <2>. QED  BY <1>4, <2>1, <2>2
<1>7. ASSUME NEW k \in Clients
      PROVE  ClientHeld(k, gui[k], session)
  <2>1. GuiKept(gui[k]) /\ gui[k].polled = <<>> /\ gui[k].at = "idle"
    <3>1. ASSUME NEW L
          PROVE  LET g == [NewClient EXCEPT !.leader = L] IN
                 GuiKept(g) /\ g.polled = <<>> /\ g.at = "idle"
      BY DEF GuiKept, GuiFields, NewClient
    <3>2. gui[k] = [NewClient EXCEPT !.leader =
            IF k \in Connected THEN CHOOSE i \in 1..N : first[i] = k ELSE NoSession]
      BY <1>5
    <3>. QED  BY <3>1, <3>2
  <2>2. CASE k \in Connected
    <3>1. gui[k].leader = CHOOSE i \in 1..N : first[i] = k
      BY <1>5, <2>2 DEF NewClient
    <3>2. gui[k].leader \in 1..N /\ first[gui[k].leader] = k
      BY <1>2, <2>2, <3>1
    <3>. QED  BY <1>3, <1>6, <2>1, <3>2, HoldsLeader DEF InStep
  <2>3. CASE k \notin Connected
    <3>1. gui[k].leader = NoSession
      BY <1>5, <2>3 DEF NewClient
    <3>. QED  BY <2>1, <3>1, HoldsNothing
  <2>. QED  BY <2>2, <2>3
<1>. QED  BY <1>4, <1>5, <1>6, <1>7 DEF ClientInv

-----------------------------------------------------------------------------
LEMMA PeersKeep ==
  ASSUME ClientInv, UNCHANGED <<session, gui>>
  PROVE  ClientInv'
BY DEF ClientInv

LEMMA ClientNext ==
  ASSUME ClientInv, [SessionsNext]_allVars
  PROVE  ClientInv'
<1>1. CASE UNCHANGED allVars
  BY <1>1, PeersKeep DEF allVars, sessionVars
<1>2. ASSUME NEW n \in Nodes, (\E now \in 1..MaxTime : Restart(n, now)) \/ Die(n) \/ PeerStep(n)
      PROVE  ClientInv'
  BY <1>2, PeersKeep, EndedKeeps DEF Restart, Die, PeerStep, sessionVars
<1>3. ASSUME NEW c \in ConnIds, PeerServes(c) \/ PeerQuery(c) \/ PeerResult(c)
      PROVE  ClientInv'
  BY <1>3, PeersKeep DEF PeerServes, PeerQuery, PeerResult, sessionVars
<1>4. ASSUME NEW k \in Clients,
             Click(k, "connect") \/ Click(k, "send") \/ ClientStep(k) \/ Quit(k)
      PROVE  ClientInv'
  BY <1>4, ClickKeeps, PollKeeps, FindKeeps, PingedKeeps, ReplyKeeps, QuitKeeps DEF ClientStep
<1>5. ASSUME NEW i \in SessionIds, ThreadStep(i)
      PROVE  ClientInv'
  BY <1>5, ThreadKeeps
<1>. QED  BY <1>1, <1>2, <1>3, <1>4, <1>5 DEF SessionsNext

\* A client comes back from waiting for its query only by reading the reply.
LEMMA OnlyReplies ==
  ASSUME ClientInv, [SessionsNext]_allVars, NEW k \in Clients,
         gui[k].at = "waiting", gui'[k].at = "idle"
  PROVE  Reply(k)
<1>1. gui' # gui
  OBVIOUS
<1>2. \A n \in Nodes : ~(\E now \in 1..MaxTime : Restart(n, now)) /\ ~Die(n) /\ ~PeerStep(n)
  BY <1>1 DEF Restart, Die, PeerStep, Ended, sessionVars
<1>3. \A c \in ConnIds : ~PeerServes(c) /\ ~PeerQuery(c) /\ ~PeerResult(c)
  BY <1>1 DEF PeerServes, PeerQuery, PeerResult, sessionVars
<1>4. \A i \in SessionIds : ~ThreadStep(i)
  <2>. TAKE i \in SessionIds
  <2>1. ~(ClientConnection(i) \/ ClientRead(i) \/ ClientReadError(i) \/ ClientExit(i)
          \/ ClientHandle(i) \/ QueryBegin(i) \/ AskPeer(i) \/ AskFails(i))
    BY <1>1 DEF ClientConnection, ClientRead, ClientReadError, ClientExit, ClientHandle,
       QueryBegin, AskPeer, AskFails, Disconnected
  <2>2. ~(Execute(i) \/ Executed(i) \/ Await(i) \/ CollectFails(i) \/ Respond(i)
          \/ LoadAsk(i) \/ LoadDealing(i) \/ LoadOver(i))
    BY <1>1 DEF Execute, Executed, Await, CollectFails, Disconnected, Respond,
       LoadAsk, LoadDealing, LoadOver
  <2>3. ~\E m \in 0..MaxRead : Collect(i, m) \/ LoadCount(i, m) \/ LoadDeal(i, m)
          \/ LoadOverruns(i, m) \/ LoadPassOver(i, m)
    BY <1>1 DEF Collect, LoadCount, LoadDeal, LoadOverruns, Ended, LoadPassOver
  <2>. QED  BY <2>1, <2>2, <2>3 DEF ThreadStep
<1>5. PICK l \in Clients :
        Click(l, "connect") \/ Click(l, "send") \/ ClientStep(l) \/ Quit(l)
  BY <1>1, <1>2, <1>3, <1>4 DEF SessionsNext, allVars, sessionVars
<1>6. gui = [j \in Clients |-> gui[j]] /\ DOMAIN gui[k] = GuiFields /\ DOMAIN gui[l] = GuiFields
  BY DEF ClientInv, ClientHeld, GuiKept
<1>7. l = k
  BY <1>5, <1>6 DEF Click, ClientStep, PollServer, FindLeader, Pinged, Reply, Quit
<1>8. ~Click(k, "connect") /\ ~Click(k, "send") /\ ~PollServer(k) /\ ~FindLeader(k) /\ ~Pinged(k)
  BY DEF Click, PollServer, FindLeader, Pinged
<1>9. ~Quit(k)
  BY <1>6 DEF Quit, NewClient
<1>. QED  BY <1>5, <1>7, <1>8, <1>9 DEF ClientStep

(* What a client comes to show when it has waited for its query is the     *)
(* answer to that query, or the request to try again, or the buffer of a   *)
(* connection that ended; or its window stays as it was, and the leader is *)
(* forgotten.  No answer to a ping and no rest of an earlier answer gets   *)
(* there, whatever the processes and the other clients do.                 *)
THEOREM ClientsShowTheirAnswers == SessionsSpec => ShowsItsAnswer
<1>1. SessionsInit => ClientInv
  BY ClientInit
<1>2. ClientInv /\ [SessionsNext]_allVars => ClientInv'
  BY ClientNext
<1>3. ASSUME ClientInv, [SessionsNext]_allVars, NEW k \in Clients,
             gui[k].at = "waiting", gui'[k].at = "idle"
      PROVE  \/ gui'[k].shown \in {Unwritten, TryAgain, Answer(gui[k].query)}
             \/ gui'[k].leader = NoSession /\ gui'[k].shown = gui[k].shown
  BY <1>3, OnlyReplies, ReplyKeeps
<1>4. ClientInv /\ [SessionsNext]_allVars =>
        [\A k \in Clients : gui[k].at = "waiting" /\ gui'[k].at = "idle" =>
           \/ gui'[k].shown \in {Unwritten, TryAgain, Answer(gui[k].query)}
           \/ gui'[k].leader = NoSession /\ gui'[k].shown = gui[k].shown]_allVars
  BY <1>3
<1>. QED  BY <1>1, <1>2, <1>4, PTL DEF SessionsSpec, ShowsItsAnswer


-----------------------------------------------------------------------------
\* The shares.

(* Every fragment is in the share of exactly one slot: no two peers load   *)
(* the same fragment, and none is left out, whatever the number of peers.  *)
THEOREM SharesPartition ==
  ASSUME NEW count \in Nat \ {0}
  PROVE  /\ Fragments = UNION {Share(slot, count) : slot \in 0..(count - 1)}
         /\ \A s, t \in 0..(count - 1) : s # t => Share(s, count) \cap Share(t, count) = {}
<1>1. \A i \in Fragments : i \in Nat
  BY FragmentAssumption DEF Fragments
<1>2. \A i \in Fragments : i % count \in 0..(count - 1)
  BY <1>1
<1>3. \A i \in Fragments : i \in Share(i % count, count)
  BY DEF Share
<1>4. \A s, t \in 0..(count - 1) : s # t => Share(s, count) \cap Share(t, count) = {}
  BY DEF Share
<1> QED
  BY <1>2, <1>3, <1>4 DEF Share

(* As long as there are no more peers than fragments, each is sent at      *)
(* least one fragment; the peers beyond that are sent none, and            *)
(* load_database_from_fragments has no first fragment to open.             *)
THEOREM ShareOfSlot ==
  ASSUME NEW count \in Nat \ {0}, NEW slot \in 0..(count - 1)
  PROVE  Share(slot, count) # {} <=> slot < FragmentCount
<1>1. CASE slot < FragmentCount
  <2>1. slot \in Fragments
    BY <1>1, FragmentAssumption DEF Fragments
  <2>2. slot % count = slot
    OBVIOUS
  <2> QED
    BY <1>1, <2>1, <2>2 DEF Share
<1>2. CASE slot >= FragmentCount
  <2>1. SUFFICES ASSUME NEW i \in Share(slot, count)
                 PROVE  FALSE
    BY <1>2, FragmentAssumption
  <2>2. i \in Nat /\ i < slot /\ i % count = slot
    BY <1>2, FragmentAssumption DEF Share, Fragments
  <2>3. i < count
    BY <2>2
  <2>4. i % count = i
    BY <2>2, <2>3
  <2> QED
    BY <2>2, <2>4
<1> QED
  BY <1>1, <1>2, FragmentAssumption

-----------------------------------------------------------------------------
\* The records in the fragments.

LEMMA PerFragmentPositive ==
  ASSUME EvenlySplit
  PROVE  PerFragment \in Nat \ {0} /\ CustomerCount = FragmentCount * PerFragment
<1>1. PICK size \in Nat \ {0} : CustomerCount = FragmentCount * size
  BY DEF EvenlySplit
<1>2. FragmentCount \in Nat \ {0}
  BY DEF EvenlySplit
<1>3. (FragmentCount * size) \div FragmentCount = size
  BY <1>2
<1> QED
  BY <1>1, <1>3 DEF PerFragment

(* The index into p_fds and r_fds stays in range, and the fragment it      *)
(* selects is the one that holds the customer.                             *)
THEOREM DestinationHolds ==
  ASSUME EvenlySplit, NEW c \in Customers
  PROVE  /\ Destination(c) \in Fragments
         /\ \A j \in Fragments : c \in CustomersIn(j) <=> Destination(c) = j
<1> DEFINE size == PerFragment
<1>1. size \in Nat \ {0} /\ CustomerCount = FragmentCount * size /\ FragmentCount \in Nat \ {0}
  BY PerFragmentPositive DEF EvenlySplit
<1>2. c \in Nat /\ c < FragmentCount * size
  BY <1>1 DEF Customers, EvenlySplit
<1>3. Destination(c) \in Fragments
  BY <1>1, <1>2 DEF Destination, Fragments
<1>4. ASSUME NEW j \in Fragments
      PROVE  c \in CustomersIn(j) <=> Destination(c) = j
  <2>1. j \in Nat
    BY <1>1 DEF Fragments
  <2>2. ASSUME c \in CustomersIn(j) PROVE Destination(c) = j
    <3>1. PICK i \in 0..(size - 1) : c = i + j * size
      BY <2>2 DEF CustomersIn
    <3> QED
      BY <1>1, <2>1, <3>1 DEF Destination
  <2>3. ASSUME Destination(c) = j PROVE c \in CustomersIn(j)
    <3> DEFINE i == c - j * size
    <3>1. c \div size = j
      BY <2>3 DEF Destination
    <3>2. j * size <= c /\ c < j * size + size
      BY <1>1, <1>2, <2>1, <3>1
    <3>3. i \in 0..(size - 1) /\ c = i + j * size
      BY <1>1, <1>2, <2>1, <3>2
    <3> QED
      BY <3>3 DEF CustomersIn
  <2> QED
    BY <2>2, <2>3
<1> QED
  BY <1>3, <1>4

(* What a peer holds: the customers of its fragments, and the records of   *)
(* just those customers.                                                   *)
LEMMA HeldByPeer ==
  ASSUME EvenlySplit, NEW S \in SUBSET Fragments, NEW records, Drawn(records)
  PROVE  /\ \A c \in Customers : c \in CustomersAt(S) <=> Destination(c) \in S
         /\ \A r \in records :
              r \in PlacedAt(records, S) <=> Destination(r.customer) \in S
         /\ PlacedAt(records, S) \subseteq records
         /\ CustomersAt(S) \subseteq Customers
<1>1. ASSUME NEW c \in Customers
      PROVE  c \in CustomersAt(S) <=> Destination(c) \in S
  BY DestinationHolds DEF CustomersAt
<1>2. PlacedAt(records, S) \subseteq records
  BY DEF PlacedAt, PlacedIn
<1>3. \A r \in records : r \in PlacedAt(records, S) <=> Destination(r.customer) \in S
  BY DEF PlacedAt, PlacedIn
<1>4. CustomersAt(S) \subseteq Customers
  <2> DEFINE size == PerFragment
  <2>1. size \in Nat \ {0} /\ CustomerCount = FragmentCount * size /\ FragmentCount \in Nat \ {0}
    BY PerFragmentPositive DEF EvenlySplit
  <2>2. SUFFICES ASSUME NEW j \in Fragments, NEW i \in 0..(size - 1)
                 PROVE  i + j * size \in Customers
    BY DEF CustomersAt, CustomersIn
  <2>3. j \in Nat /\ j + 1 <= FragmentCount
    BY <2>1 DEF Fragments
  <2>4. (j + 1) * size <= FragmentCount * size
    BY <2>1, <2>3
  <2>5. (j + 1) * size = j * size + size /\ j * size \in Nat
    BY <2>1, <2>3
  <2> QED
    BY <2>1, <2>2, <2>4, <2>5 DEF Customers
<1> QED
  BY <1>1, <1>2, <1>3, <1>4

(* The joins of the example queries, customers with their purchases and    *)
(* purchases with their customer's reviews, are the union of what the      *)
(* peers return, each pair from exactly one peer, for every dealing of the *)
(* fragments to slots that load_database makes.                            *)
THEOREM JoinsAreLocal ==
  ASSUME EvenlySplit, NEW count \in Nat \ {0},
         NEW purchases, Drawn(purchases), NEW reviews, Drawn(reviews)
  PROVE  LET At(slot) == Share(slot, count)
             Customer(slot) ==
               OfCustomer(CustomersAt(At(slot)), PlacedAt(purchases, At(slot)))
             Reviewed(slot) ==
               OfOneCustomer(PlacedAt(purchases, At(slot)), PlacedAt(reviews, At(slot)))
             Slots == 0..(count - 1)
         IN  /\ OfCustomer(Customers, purchases) = UNION {Customer(slot) : slot \in Slots}
             /\ OfOneCustomer(purchases, reviews) = UNION {Reviewed(slot) : slot \in Slots}
             /\ \A s, t \in Slots : s # t =>
                  Customer(s) \cap Customer(t) = {} /\ Reviewed(s) \cap Reviewed(t) = {}
<1> DEFINE At(slot) == Share(slot, count)
           Customer(slot) == OfCustomer(CustomersAt(At(slot)), PlacedAt(purchases, At(slot)))
           Reviewed(slot) ==
             OfOneCustomer(PlacedAt(purchases, At(slot)), PlacedAt(reviews, At(slot)))
           Slots == 0..(count - 1)
<1>1. \A slot \in Slots : At(slot) \in SUBSET Fragments
  BY DEF Share
<1>2. \A c \in Customers : Destination(c) \in Fragments
  BY DestinationHolds
<1>3. \A f \in Fragments : \E slot \in Slots : f \in At(slot)
  BY SharesPartition
<1>4. \A s, t \in Slots : s # t => At(s) \cap At(t) = {}
  BY SharesPartition
<1>5. \A slot \in Slots :
        /\ \A c \in Customers : c \in CustomersAt(At(slot)) <=> Destination(c) \in At(slot)
        /\ CustomersAt(At(slot)) \subseteq Customers
        /\ \A r \in purchases :
             r \in PlacedAt(purchases, At(slot)) <=> Destination(r.customer) \in At(slot)
        /\ PlacedAt(purchases, At(slot)) \subseteq purchases
        /\ \A r \in reviews :
             r \in PlacedAt(reviews, At(slot)) <=> Destination(r.customer) \in At(slot)
        /\ PlacedAt(reviews, At(slot)) \subseteq reviews
  BY <1>1, HeldByPeer
<1> HIDE DEF At
<1>6. ASSUME NEW slot \in Slots, NEW pair
      PROVE  pair \in Customer(slot) <=>
               pair \in OfCustomer(Customers, purchases) /\ Destination(pair[1]) \in At(slot)
  BY <1>5 DEF OfCustomer
<1>7. ASSUME NEW slot \in Slots, NEW pair
      PROVE  pair \in Reviewed(slot) <=>
               /\ pair \in OfOneCustomer(purchases, reviews)
               /\ Destination(pair[1].customer) \in At(slot)
  BY <1>5 DEF OfOneCustomer
<1> HIDE DEF Customer, Reviewed, Slots
<1>8. \A pair \in OfCustomer(Customers, purchases) : pair[1] \in Customers
  BY DEF OfCustomer
<1>9. \A pair \in OfOneCustomer(purchases, reviews) : pair[1].customer \in Customers
  BY DEF OfOneCustomer, Drawn
<1>10. OfCustomer(Customers, purchases) = UNION {Customer(slot) : slot \in Slots}
  BY <1>2, <1>3, <1>6, <1>8
<1>11. OfOneCustomer(purchases, reviews) = UNION {Reviewed(slot) : slot \in Slots}
  BY <1>2, <1>3, <1>7, <1>9
<1>12. \A s, t \in Slots : s # t =>
         Customer(s) \cap Customer(t) = {} /\ Reviewed(s) \cap Reviewed(t) = {}
  BY <1>4, <1>6, <1>7
<1> QED
  BY <1>10, <1>11, <1>12 DEF Customer, Reviewed, Slots, At
=============================================================================
