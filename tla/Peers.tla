------------------------------- MODULE Peers -------------------------------
(***************************************************************************)
(* The peers of the distributed database (src/net/main.c): how processes   *)
(* find each other, decide who leads, and how the leader deals the         *)
(* fragments of the database to the peers it can reach.                    *)
(*                                                                         *)
(* A process has a main thread, which runs the timers and the listeners'   *)
(* callbacks one at a time and blocks inside them on reads, and a          *)
(* peer_main thread for every connection it accepted (the connection's     *)
(* `server').  A step runs up to the next read that may block or the next  *)
(* access to db_loading that another thread may change.  Clients and their *)
(* queries are those of Sessions; without them db_querying stays FALSE.    *)
(*                                                                         *)
(* Processes may die at any point and start again.  Ids are start times in *)
(* seconds, of clocks that agree; several processes may start in the same  *)
(* second.                                                                 *)
(***************************************************************************)
EXTENDS Connections, Fragments, FiniteSets

CONSTANTS
  MaxTime,    \* bound: the last second at which a process starts
  MaxCrashes, \* bound: how many times a process dies
  Mortal,     \* who dies: "anyone" or only "followers"
  OneByOne    \* "yes": the next process is started when the others are done

ASSUME PeersAssumption ==
  /\ MaxTime \in Nat /\ MaxCrashes \in Nat /\ OneByOne \in {"yes", "no"}
  /\ Mortal \in {"anyone", "followers"}
  /\ IsFiniteSet(Nodes)
  /\ Cardinality(Nodes) <= FragmentCount \* a peer beyond that is sent no fragment

VARIABLES
  phase,   \* per node: its process is down, in main() before the loop, or up
  id,      \* self->id
  leaders, \* the processes whose self->is_leader is set
  loading, \* the processes whose db_loading is set
  link,    \* p->connection, per node and peer
  known,   \* p->id, per node and peer
  main,    \* the main thread
  db,      \* the fragments in the global db
  clock,   \* the second of the last start
  crashes  \* how many processes have died

procVars == <<phase, id, leaders>>
vars == <<conns, phase, id, leaders, loading, link, known, main, db, clock, crashes>>

Ids == 0..MaxTime
Peers(n) == Nodes \ {n}

\* The next of the peers still to visit: the order of the list is some fixed
\* order.
NextOf(S) == CHOOSE m \in S : TRUE

\* Where the main thread is: between callbacks ("loop"), waiting for the
\* answer to a timer's ping, for an ID, or in one of load_database's two
\* rounds of pings.  `rest' are the peers still to visit there.
Loop == [at |-> "loop", conn |-> NoConn, rest |-> {}, count |-> 0, slot |-> 0]

TypeOK ==
  /\ \A c \in ConnIds :
       /\ conns[c].from \in Nodes \cup {NoConn} /\ conns[c].to \in Nodes \cup {NoConn}
       /\ conns[c].open \subseteq {"from", "to"}
       /\ conns[c].server \in ServerStates
       /\ conns[c].open = {} => conns[c] = Closed
  /\ phase \in [Nodes -> {"down", "booting", "up"}]
  /\ id \in [Nodes -> Ids]
  /\ leaders \subseteq {n \in Nodes : phase[n] = "up"}
  /\ loading \subseteq {n \in Nodes : phase[n] # "down"}
  /\ link \in [Nodes -> [Nodes -> ConnIds \cup {NoConn}]]
  /\ known \in [Nodes -> [Nodes -> Ids]]
  /\ \A n \in Nodes :
       /\ main[n].at \in {"boot", "loop", "id", "check", "count", "share"}
       /\ main[n].conn \in ConnIds \cup {NoConn}
       /\ main[n].count \in 0..Cardinality(Nodes)
       /\ main[n].slot \in 0..Cardinality(Nodes)
  /\ db \in [Nodes -> SUBSET Fragments]
  /\ clock \in 0..MaxTime /\ crashes \in 0..MaxCrashes

Init ==
  /\ conns = [c \in ConnIds |-> Closed]
  /\ phase = [n \in Nodes |-> "down"] /\ id = [n \in Nodes |-> 0]
  /\ leaders = {} /\ loading = {}
  /\ link = [n \in Nodes |-> [m \in Nodes |-> NoConn]]
  /\ known = [n \in Nodes |-> [m \in Nodes |-> 0]]
  /\ main = [n \in Nodes |-> Loop]
  /\ db = [n \in Nodes |-> {}]
  /\ clock = 0 /\ crashes = 0

-----------------------------------------------------------------------------
\* The world: processes start and die.

\* What an operator who starts processes one by one waits for.
Ready ==
  LET Up == {n \in Nodes : phase[n] # "down"} IN
  /\ \A n \in Up : phase[n] = "up" /\ n \notin loading
  /\ \A n, m \in Up : n # m => link[n][m] # NoConn /\ main[n].at # "id"
  /\ Up # {} => leaders # {}

\* main(), up to the first connect_with_peer, in some second not before that
\* of the last start.
Start(n, now) ==
  /\ phase[n] = "down" /\ now >= clock
  /\ OneByOne = "yes" => now = clock + 1 /\ Ready
  /\ phase' = [phase EXCEPT ![n] = "booting"]
  /\ id' = [id EXCEPT ![n] = now]
  /\ clock' = now
  /\ main' = [main EXCEPT ![n] = [Loop EXCEPT !.at = "boot", !.rest = Peers(n)]]
  /\ UNCHANGED <<conns, leaders, loading, link, known, db, crashes>>

\* The process n ends: nothing of it is left but what it wrote.
Down(n) ==
  /\ conns' = Dropped(n)
  /\ phase' = [phase EXCEPT ![n] = "down"] /\ id' = [id EXCEPT ![n] = 0]
  /\ leaders' = leaders \ {n} /\ loading' = loading \ {n}
  /\ link' = [link EXCEPT ![n] = [m \in Nodes |-> NoConn]]
  /\ known' = [known EXCEPT ![n] = [m \in Nodes |-> 0]]
  /\ main' = [main EXCEPT ![n] = Loop]
  /\ db' = [db EXCEPT ![n] = {}]
  /\ UNCHANGED clock

Crash(n) ==
  /\ phase[n] # "down" /\ crashes < MaxCrashes /\ crashes' = crashes + 1
  /\ Mortal = "followers" => n \notin leaders
  /\ Down(n)

-----------------------------------------------------------------------------
\* load_database

\* The peers of s that p->connection is not NULL for; the others are skipped.
Linked(n, S) == {m \in S : link[n][m] # NoConn}

\* db_loading is set and the first round, which counts the peers, begins.
BeginLoad(n) ==
  /\ loading' = loading \cup {n}
  /\ main' = [main EXCEPT ![n] = [Loop EXCEPT !.at = "count", !.count = 1,
                                              !.rest = Peers(n)]]

\* A ping is sent to the next peer of the round.
AskNext(n) ==
  LET rest == Linked(n, main[n].rest)
      c == link[n][NextOf(rest)] IN
  /\ main[n].at \in {"count", "share"} /\ main[n].conn = NoConn /\ rest # {}
  /\ conns' = Sent(conns, c, Ping)
  /\ main' = [main EXCEPT ![n].conn = c, ![n].rest = rest \ {NextOf(rest)}]
  /\ UNCHANGED <<procVars, loading, link, known, db, clock, crashes>>

\* The read of ping() returns k messages, or none once the connection is dead;
\* ping() succeeds when the buffer starts with PING.
Dead(c) == conns[c].resp = <<>> /\ "to" \notin conns[c].open
PingAnswered(c, k) == k \in Reads(conns[c].resp) /\ Head(conns[c].resp) = Ping
PingFails(c, k) ==
  IF k = 0 THEN Dead(c) ELSE k \in Reads(conns[c].resp) /\ ~PingAnswered(c, k)
Received(c, k) == [conns EXCEPT ![c].resp = Rest(@, k)]

\* First round: a peer that answers is counted.
Count(n, k) ==
  LET c == main[n].conn IN
  /\ main[n].at = "count" /\ c # NoConn /\ PingAnswered(c, k)
  /\ conns' = Received(c, k)
  /\ main' = [main EXCEPT ![n].conn = NoConn, ![n].count = @ + 1]
  /\ UNCHANGED <<procVars, loading, link, known, db, clock, crashes>>

\* Second round: a peer that answers is sent its share and the next slot is
\* the next peer's.
Deal(n, k) ==
  LET c == main[n].conn
      share == Share(main[n].slot, main[n].count) IN
  /\ main[n].at = "share" /\ c # NoConn /\ PingAnswered(c, k)
  /\ conns' = Sent(Received(c, k), c, Msg("LOAD", share))
  /\ main' = [main EXCEPT ![n].conn = NoConn, ![n].slot = @ + 1]
  /\ UNCHANGED <<procVars, loading, link, known, db, clock, crashes>>

\* A slip in load_database: i++ is done for a peer that does not answer too.
PassedOverCounted(n) == [main EXCEPT ![n].conn = NoConn, ![n].slot = @ + 1]

PassedOver(n) == [main EXCEPT ![n].conn = NoConn]

\* A peer that does not answer is passed over; it stays on the list.
PassOver(n, k) ==
  /\ main[n].at \in {"count", "share"} /\ main[n].conn # NoConn
  /\ PingFails(main[n].conn, k)
  /\ conns' = Received(main[n].conn, k)
  /\ main' = PassedOver(n)
  /\ UNCHANGED <<procVars, loading, link, known, db, clock, crashes>>

RoundOver(n) == main[n].conn = NoConn /\ Linked(n, main[n].rest) = {}

\* A slip in load_database: the peers' slots start at 0, the leader's.
FirstPeerSlotZero == 0

\* int i = 1
FirstPeerSlot == 1

\* The peers are counted and the fragments dealt out to slots.
StartDealing(n) ==
  /\ main[n].at = "count" /\ RoundOver(n)
  /\ main' = [main EXCEPT ![n].at = "share", ![n].slot = FirstPeerSlot,
                          ![n].rest = Peers(n)]
  /\ UNCHANGED <<conns, procVars, loading, link, known, db, clock, crashes>>

\* The leader loads slot 0, sleeps a second and is done.
LoadLocal(n) ==
  /\ main[n].at = "share" /\ RoundOver(n)
  /\ db' = [db EXCEPT ![n] = Share(0, main[n].count)]
  /\ loading' = loading \ {n}
  /\ main' = [main EXCEPT ![n] = Loop]
  /\ UNCHANGED <<conns, procVars, link, known, clock, crashes>>

-----------------------------------------------------------------------------
\* connect_with_peer

\* Where the main thread goes on once a callback is over.
Resting(n) == IF phase[n] = "booting" THEN "boot" ELSE "loop"

\* The callback for peer m is over; main() goes on with the next peer.
Resume(n, m) ==
  /\ main' = [main EXCEPT ![n].at = Resting(n), ![n].conn = NoConn,
                          ![n].rest = @ \ {m}]
  /\ UNCHANGED loading

\* if (self->is_leader) load_database ();
LoadIfLeader(n, m) == IF n \in leaders THEN BeginLoad(n) ELSE Resume(n, m)

\* The connect call of n to m and what follows up to the read of the ID, with
\* cs the connections without the one given up.  It succeeds when the kernel
\* of m listens, whatever m's main thread is doing.
Connect(n, m, cs, reload) ==
  \/ /\ phase[m] = "up"
     /\ \E c \in ConnIds :
          /\ cs[c].open = {} /\ \A d \in 1..(c - 1) : cs[d].open # {}
          /\ conns' = [cs EXCEPT ![c] = Opened(n, m)]
          /\ link' = [link EXCEPT ![n][m] = c]
          /\ main' = [main EXCEPT ![n].at = "id", ![n].conn = c]
     /\ UNCHANGED loading
  \/ /\ phase[m] # "up"
     /\ conns' = cs
     /\ link' = [link EXCEPT ![n][m] = NoConn]
     /\ IF reload THEN LoadIfLeader(n, m) ELSE Resume(n, m)

\* main() connects with each peer of the servers file before it listens.
BootConnect(n) ==
  /\ main[n].at = "boot" /\ main[n].rest # {}
  /\ Connect(n, NextOf(main[n].rest), conns, FALSE)
  /\ UNCHANGED <<procVars, known, db, clock, crashes>>

\* The rest of main(): timers, listeners, g_main_loop_run.
Listen(n) ==
  /\ main[n].at = "boot" /\ main[n].rest = {}
  /\ phase' = [phase EXCEPT ![n] = "up"]
  /\ main' = [main EXCEPT ![n] = Loop]
  /\ UNCHANGED <<conns, id, leaders, loading, link, known, db, clock, crashes>>

\* A slip in main(): the timers run before the listeners are up.
IdleEarly(n) == main[n].at = "loop" \/ (main[n].at = "boot" /\ main[n].rest = {})

\* The main loop is dispatching.
Idle(n) == phase[n] = "up" /\ main[n].at = "loop"

\* The 200 ms timer of peer m, not connected.
TimerConnect(n, m) ==
  /\ Idle(n) /\ n \notin loading /\ link[n][m] = NoConn
  /\ Connect(n, m, conns, FALSE)
  /\ UNCHANGED <<procVars, known, db, clock, crashes>>

\* A slip in connect_with_peer: it does not wait for the answer of the ping.
NotAwaiting(n, c) == main[n]

Awaiting(n, c) == [Loop EXCEPT !.at = "check", !.conn = c]

\* The 200 ms timer of peer m, connected: ping first.
TimerPing(n, m) ==
  /\ Idle(n) /\ n \notin loading /\ link[n][m] # NoConn
  /\ conns' = Sent(conns, link[n][m], Ping)
  /\ main' = [main EXCEPT ![n] = Awaiting(n, link[n][m])]
  /\ UNCHANGED <<procVars, loading, link, known, db, clock, crashes>>

\* The ping is answered: there is a valid connection, do nothing.
Valid(n, k) ==
  /\ main[n].at = "check" /\ PingAnswered(main[n].conn, k)
  /\ conns' = Received(main[n].conn, k)
  /\ main' = [main EXCEPT ![n] = Loop]
  /\ UNCHANGED <<procVars, loading, link, known, db, clock, crashes>>

\* The connection is given up, not closed: a live one stays open.
GivenUp(c, k) == IF k = 0 THEN [conns EXCEPT ![c] = Closed] ELSE Received(c, k)

\* It is not: connect again, or as the leader deal the fragments anew.
Invalid(n, k) ==
  LET c == main[n].conn IN
  /\ main[n].at = "check" /\ PingFails(c, k)
  /\ Connect(n, conns[c].to, GivenUp(c, k), TRUE)
  /\ UNCHANGED <<procVars, known, db, clock, crashes>>

\* A slip in connect_with_peer: an ID once known is kept.
RecordedOnce(n, m, i) ==
  IF known[n][m] = 0 THEN [known EXCEPT ![n][m] = i] ELSE known

\* p->id = buffer
Recorded(n, m, i) == [known EXCEPT ![n][m] = i]

\* The ID has arrived or never will: a closed connection leaves p->id as it
\* was or, after an error, makes it whatever the uninitialised buffer holds.
\* read_from_connection_long asks for the eight bytes of an ID: it takes one
\* message, whatever follows.
GetId(n, m) ==
  LET c == main[n].conn IN
  /\ main[n].at = "id" /\ m = conns[c].to
  /\ \/ /\ conns[c].resp # <<>>
        /\ \E i \in Head(conns[c].resp).body : known' = Recorded(n, m, i)
        /\ conns' = Received(c, 1)
     \/ /\ Dead(c)
        /\ \E i \in Ids : known' = [known EXCEPT ![n][m] = i]
        /\ UNCHANGED conns
  /\ LoadIfLeader(n, m)
  /\ UNCHANGED <<procVars, link, db, clock, crashes>>

\* A slip in seniority_succession_algorithm: the ids compared the wrong way
\* round.
IsYoungest(n) == \A m \in Peers(n) : link[n][m] # NoConn => known[n][m] <= id[n]

\* No connected peer is known to be older.
IsOldest(n) == \A m \in Peers(n) : link[n][m] # NoConn => known[n][m] >= id[n]

\* seniority_succession_algorithm, every 400 ms.
Seniority(n) ==
  /\ Idle(n) /\ n \notin loading /\ n \notin leaders /\ IsOldest(n)
  /\ conns' = [c \in ConnIds |->
                 IF \E m \in Peers(n) : link[n][m] = c
                 THEN Sent(conns, c, Coordinator)[c] ELSE conns[c]]
  /\ leaders' = leaders \cup {n}
  /\ BeginLoad(n)
  /\ UNCHANGED <<phase, id, link, known, db, clock, crashes>>

-----------------------------------------------------------------------------
\* The accepting end: peer_connection and the thread peer_main.

\* The listener's callback, in the main thread: the ID is sent and the thread
\* started.  ID_REQ has arrived: it was written as the connection was made.
\* What is read with it is not looked at.
Accept(n, c) ==
  /\ Idle(n) /\ conns[c].server = "backlog" /\ conns[c].to = n
  /\ \E k \in Reads(conns[c].req) :
       conns' = [Answered(conns, c, Msg("ID", {id[n]})) EXCEPT
                   ![c].req = Rest(@, k), ![c].server = "reading"]
  /\ UNCHANGED <<procVars, loading, link, known, main, db, clock, crashes>>

\* A read returns; only the first message in the buffer will be looked at.
ServerRead(c, k) ==
  /\ conns[c].server = "reading" /\ k \in Reads(conns[c].req)
  /\ conns' = [conns EXCEPT ![c].req = Rest(@, k), ![c].server = "spinning",
                            ![c].input = Head(conns[c].req)]
  /\ UNCHANGED <<procVars, loading, link, known, main, db, clock, crashes>>

\* The opener is gone.  An error is -1, which as a gsize is positive: the
\* buffer is taken for a message again.  It is returned once.
ServerReadError(c) ==
  /\ conns[c].server = "reading" /\ conns[c].req = <<>>
  /\ "from" \notin conns[c].open /\ conns[c].failed = "no"
  /\ conns' = [conns EXCEPT ![c].server = "spinning", ![c].failed = "yes"]
  /\ UNCHANGED <<procVars, loading, link, known, main, db, clock, crashes>>

\* End of file: ping() fails too and the thread exits.
ServerExit(c) ==
  /\ conns[c].server = "reading" /\ conns[c].req = <<>>
  /\ "from" \notin conns[c].open
  /\ conns' = [conns EXCEPT ![c] = Closed]
  /\ UNCHANGED <<procVars, loading, link, known, main, db, clock, crashes>>

\* while (db_loading == TRUE); then the message is handled, up to where a
\* LOAD sets db_loading.  Nothing is done about a COORDINATOR.
ServerHandle(c) ==
  LET type == conns[c].input.type IN
  /\ conns[c].server = "spinning" /\ conns[c].to \notin loading
  /\ \/ /\ type = "PING"
        /\ conns' = [Answered(conns, c, Ping) EXCEPT ![c].server = "reading"]
     \/ /\ type = "LOAD"
        /\ conns' = [conns EXCEPT ![c].server = "handling"]
     \/ /\ type \notin {"PING", "LOAD", "QUERY"}
        /\ conns' = [conns EXCEPT ![c].server = "reading"]
  /\ UNCHANGED <<procVars, loading, link, known, main, db, clock, crashes>>

\* db_loading = TRUE, and load_database_from_fragments begins.
ServerLoad(c) ==
  /\ conns[c].server = "handling"
  /\ conns' = [conns EXCEPT ![c].server = "loading"]
  /\ loading' = loading \cup {conns[c].to}
  /\ UNCHANGED <<procVars, link, known, main, db, clock, crashes>>

DoneLoading(n) == loading \ {n}

\* load_database_from_fragments is over.
ServerLoaded(c) ==
  /\ conns[c].server = "loading"
  /\ db' = [db EXCEPT ![conns[c].to] = conns[c].input.body]
  /\ loading' = DoneLoading(conns[c].to)
  /\ conns' = [conns EXCEPT ![c].server = "reading"]
  /\ UNCHANGED <<procVars, link, known, main, clock, crashes>>

-----------------------------------------------------------------------------
\* What the timers start.
Timer(n) ==
  Seniority(n) \/ \E m \in Peers(n) : TimerConnect(n, m) \/ TimerPing(n, m)

\* What main() and the callbacks do otherwise.
Callback(n) ==
  \/ BootConnect(n) \/ Listen(n)
  \/ AskNext(n) \/ StartDealing(n) \/ LoadLocal(n)
  \/ \E k \in 0..MaxRead :
       Valid(n, k) \/ Invalid(n, k) \/ Count(n, k) \/ Deal(n, k) \/ PassOver(n, k)
  \/ \E m \in Peers(n) : GetId(n, m)
  \/ \E c \in ConnIds : Accept(n, c)

MainStep(n) == Timer(n) \/ Callback(n)

ServerStep(c) ==
  \/ \E k \in 1..MaxRead : ServerRead(c, k)
  \/ ServerReadError(c) \/ ServerExit(c)
  \/ ServerHandle(c) \/ ServerLoad(c) \/ ServerLoaded(c)

Next ==
  \/ \E n \in Nodes :
       (\E now \in 1..MaxTime : Start(n, now)) \/ Crash(n) \/ MainStep(n)
  \/ \E c \in ConnIds : ServerStep(c)

Spec == Init /\ [][Next]_vars

(* Every thread keeps running, and the main loop gives each of its sources *)
(* a turn: timers and listeners have one priority, so one that is due is   *)
(* dispatched before any other is dispatched twice.  A process that is not *)
(* running is started some time; none has to die.                          *)
Fairness ==
  /\ SF_vars(\E n \in Nodes, now \in 1..MaxTime : Start(n, now))
  /\ \A n \in Nodes :
       /\ WF_vars(MainStep(n) /\ main[n].at # "loop")
       /\ SF_vars(Seniority(n))
       /\ \A m \in Peers(n) : SF_vars(TimerConnect(n, m) \/ TimerPing(n, m))
       /\ SF_vars(\E c \in ConnIds : Accept(n, c))
  /\ \A c \in ConnIds : WF_vars(ServerStep(c))

FairSpec == Spec /\ Fairness

-----------------------------------------------------------------------------
(* load_database's assertion `Non-leader trying to load the database of    *)
(* the system' never fires: only a leader's main thread is ever inside it. *)
OnlyLeadersLoad ==
  \A n \in Nodes : main[n].at \in {"count", "share"} => n \in leaders

(* The second round never deals a slot that the first did not make: with   *)
(* peers dying and being replaced between the two pings a peer gets, the   *)
(* index into fragments_per_peer stays below peer_count.                   *)
SlotsInRange ==
  \A n \in Nodes : main[n].at = "share" => main[n].slot <= main[n].count

(* The id a process has on record for a peer is that of the very process   *)
(* at the other end of the connection, however often either restarted; it  *)
(* may be stale or garbage only while that end is closed.                  *)
IdsAccurate ==
  \A n \in Nodes, m \in Nodes :
    LET c == link[n][m] IN
    c # NoConn /\ Live(c) /\ ~(main[n].at = "id" /\ main[n].conn = c) =>
      known[n][m] = id[m]

\* Where in a stream pings are, and whether c's server has read one.
Pings(q) == {j \in 1..Len(q) : q[j] = Ping}
PingHandled(c) == conns[c].server \in {"spinning", "handling"} /\ conns[c].input = Ping

(* Requests and answers stay in step: at most one ping is under way on a   *)
(* live connection, none unless the opener waits for its answer, so an     *)
(* answer is never taken for that of an earlier ping.                      *)
PingsUnderWay(c) ==
  Cardinality(Pings(conns[c].req)) + Cardinality(Pings(conns[c].resp))
  + (IF PingHandled(c) THEN 1 ELSE 0)
PingsInStep ==
  \A n \in Nodes, m \in Nodes :
    LET c == link[n][m] IN
    c # NoConn /\ Live(c) =>
      PingsUnderWay(c) <= IF main[n].conn = c /\ main[n].at # "id" THEN 1 ELSE 0

(* A process takes the lead only when every process it has a live          *)
(* connection to started no earlier than itself - their own start times,   *)
(* not its record of them.                                                 *)
SeniorityRespected ==
  [][\A n \in leaders' \ leaders, m \in Nodes :
        link[n][m] # NoConn /\ Live(link[n][m]) => id[m] >= id[n]]_vars

\* What m's database will hold once c's server has done what it was told.
LoadsUnderWay(c) ==
  {msg \in Range(conns[c].req) : msg.type = "LOAD"}
  \cup {msg \in {conns[c].input} :
          msg.type = "LOAD" /\ conns[c].server \in {"spinning", "handling", "loading"}}
Dealt(n, m) ==
  LET now == LoadsUnderWay(link[n][m]) IN
  IF now = {} THEN db[m] ELSE UNION {msg.body : msg \in now}

(* When the only leader is back in its loop and its connections are live,  *)
(* every fragment is loaded, or on its way, at exactly one of the peers.   *)
FragmentsCovered ==
  \A n \in Nodes :
    LET members == {m \in Nodes : link[n][m] # NoConn} IN
    leaders = {n} /\ Idle(n) /\ n \notin loading /\ (\A m \in members : Live(link[n][m])) =>
      \A f \in Fragments :
        Cardinality({m \in members : f \in Dealt(n, m)})
        + (IF f \in db[n] THEN 1 ELSE 0) = 1

(* Started one by one, the peers end up serving: all are up and connected, *)
(* the oldest is the only leader, and each fragment of the database is     *)
(* loaded at exactly one of them, for good.                                *)
Serving ==
  \E n \in Nodes :
    /\ leaders = {n}
    /\ \A m \in Peers(n) : id[n] < id[m] /\ link[n][m] # NoConn /\ Live(link[n][m])
    /\ \A f \in Fragments : Cardinality({m \in Nodes : f \in db[m]}) = 1
EventuallyServes == <>[]Serving

(* `I am the oldest process in the network, I should be the leader': some  *)
(* process leads in the end.                                               *)
SomeoneLeads == <>(leaders # {})
=============================================================================
