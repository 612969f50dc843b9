# A verification of DnD

DnD is a small distributed database in C. Processes called peers each load some
fragments of a database into memory blocks; one of them leads, deals the
fragments out, and answers the queries of clients with its own records and those
of the other peers. This directory models the program in TLA+, checks it with
TLC and proves part of it with TLAPS. All line numbers are those of the
repository.

## The system

| Component | Code | State | Operations |
|---|---|---|---|
| Eviction queue | `rdbms/memory/priority_queue.c` | doubly linked list, head and tail | insert, remove, pop |
| Buffer manager | `rdbms/memory/buffer_manager.c` | hash table from (file, block) to a cached array and an in-use flag, queue, `count` | insert, set_inactive, allocate, available_space |
| Block layer | `rdbms/disk/block.c` | table of open files, one dirty bit per block given out | file create, open, close; block allocate, get, set_dirty, unpin |
| Heap files | `rdbms/db_files/heapfile.c` | blocks of records, a one-byte count in each | create, open, insert, scan, filter, merge, close |
| Databases | `rdbms/db_files/db_file.c` | a list of heap files, copies of those on disk | open, open_existing, query, close |
| Query evaluation | `rdbms/compiler`, `rdbms/table`, `rdbms/joins` | statement, sets of results | parse, check, filter, join, combine, aggregate, order |
| Peers | `net/main.c` | list of peers with connection and id, `self`, `db_loading`, `db_querying` | connect, ping, succeed, load, serve peers |
| Client sessions | `net/main.c` | one thread and connection a client | handshake, ping, query, deal anew |
| GTK client | `gtk-client/main.c` | `leader_connection` | find the leader, send a query, show its answer |
| Connections | `utils/networking_utils.c` | a TCP stream each way | read, write, ping |
| Generator | `rdbms/create_files.c` | none that lasts | put customers, purchases and reviews into fragments |
| Command line | `rdbms/main.c` | none that lasts | run one query |

How they interact: a peer's main thread runs timers and listeners' callbacks and
blocks in them on the network; each accepted connection has a thread (`peer_main`
or `client_main`). All of them share the globals `db`, `db_loading`, `peers` and
`self` without a lock, and wait for `db_loading` by spinning. `load_database` deals
fragments with LOAD messages; a peer that gets one closes its database and opens
the fragments with `database_open` and `database_open_existing`, which copy and
merge heap files through the block layer; the block layer keeps blocks in the
buffer manager, whose eviction order is the queue. A query comes on a client's
connection to the leader; its thread sends it to every peer on the connections that
the main thread pings on, runs it itself, and sends the client the results one after
the other. That this is the answer to a join rests on where the generator put the
records.

What is hard: the interleaving of those threads and of the processes, deaths and
restarts, reads that return several messages or none, the two passes of pings in
`load_database`, a query and the main thread's pings on one connection, and, in the
storage, that a pool which evicts, counts and queues by three separate records stays
consistent. `PROJECT.json` lists each hazard at its
line.

## The modules

From the bottom up:

- `PriorityQueue` - the queue as a sequence. `LinkedQueue` (`MCLinkedQueue`) - the
  same with nodes, pointers and the four cases of unlinking; it follows the sequence
  in every step (`OperationsOnQueue`).
- `BufferManager` - the pool: `status`, `array`, `pq`, `count`. `program` becomes
  "faulted" when the code follows a pointer that is NULL or freed.
- `BlockStore` - `block.c` over the pool, one action per function. `BlockGetCached`
  and `BlockGetRead` are the two branches of `block_get`. The caller's discipline
  (a block is checked out once, a file is closed when none of its blocks is out) is
  in the guards; `Database` shows that the code above keeps it.
- `BlockDevice` - what the block layer promises: files of blocks, checked out,
  edited, checked in. `BlockStore` implements it, cache and descriptor table
  included.
- `HeapFile` - `insert`, step by step between its calls of the block layer, and `scan`.
- `Database` - opening fragments: the first copied, the next ones merged in, block by
  block and record by record, with a death possible at every step.
- `Fragments` - how `load_database` splits the fragments.
- `Connections` - messages on TCP streams. A read returns one or several messages
  (`MaxRead`), of which the reader looks at the first only, as the `strncmp`s of the
  code do; an end that dies closes.
- `Peers` (`MCPeers`) - `net/main.c`: start, connect, ids, pings, succession,
  `load_database`, `peer_main`. A step runs up to the next read that may block or
  access to `db_loading`.
- `Sessions` - clients and queries over `Peers`, whose actions it uses as they are: the
  client program's two buttons, `client_connection` and `client_main` at the leader, the
  QUERY branch of `peer_main`. `client_main` is taken between its reads: it sets
  `db_querying`, sends the query, runs it, pings a peer, reads a result, and when a ping
  fails deals the database anew, in its own copy of `load_database`, and asks for another
  try. `Overlap` says whether a query may begin inside a callback of the main thread.
- `Generator` - `destination_fragment` and who has which record.
- `JoinPins` - the blocks that scans, filters and the two joins keep in use, one
  operation after another over `BufferManager`.
- `Records`, `Joins`, `ResultSets` - values, filters, the two joins, `result_set_and`
  and `result_set_finalize`, as operators on sequences of records. Where the code
  follows NULL or freed memory there is an operator that says when (`HashJoinFaults`,
  `AndFaults`, `GroupFaults`, `RowFaults`).
- `Parser` - the statement parser, an action for each clause and a step for each turn of
  its loop, over a list of tokens.
- `Query` - `database_query`: parse, check names, one expression a step, finalize.
  `SQL` - what a statement means over the records alone, the statements that are
  answered so (`Supported`), and the properties. `MCQuery` - token lists and databases.
- `SequenceProofs`, `LinkedQueueProofs`, `BlockStoreProofs`, `DatabaseProofs`,
  `QueryProofs`, `PeersProofs`, `CoverageProofs`, `SessionsProofs` - the proofs: `QueryProofs`
  for `Parser`, as `SQL` uses it, and `JoinPins`; `SessionsProofs` for `Fragments`, `Generator`
  and `Sessions`; `SequenceProofs` has the lemmas about sequences that several of the others
  cite.

State and actions follow the code: a variable is a global or a field that lasts, an
action a function, or the part of it between two points where another actor can
step in. A definition named like `UnlinkOnlyKeepsTail`, beside one with the shorter
name and introduced as "a slip", is not part of any specification: putting it in the
other's place breaks the property listed with it in `PROJECT.json`.

## What the runs check

| Run | Question | Instance |
|---|---|---|
| `linked_queue` | Does the pointer surgery of `pq_insert` and `pq_remove` do what the operations on sequences say (`OperationsOnQueue`), and keep the list well linked? | 4 nodes whose addresses are reused, 2 entries, so that an entry is queued twice and every node is only, head, tail and inner in turn |
| `block_store` | Do names, counts, the queue and the cache agree (`NamesCurrent`, `PoolExact`, `CacheCoherent`), does nothing fault, and is what callers see a plain device (`ImplementsDevice`)? | 2 files of up to 2 blocks, 2 descriptors and slots, both reused, 2 blocks in use and a pool of 2, so that it is full |
| `pool_eviction` | *Violation*: does an evicted block leave the queue? | a pool of 1, 2 handles |
| `database` | After any loads and deaths, is a loaded table the concatenation of its fragments (`LoadedIsConcatenation`); does it grow record by record, are fragments untouched, and does loading use blocks as the block layer expects (`KeepsDiscipline`)? | 2 fragments of every content of up to 2 blocks of 2 records, 2 loads |
| `join_pins` | Does every scan, filter and join leave the pool as it found it (`AllReleased`, `PoolExact`), and does the nested loop join never need more than it found free (`NestedFits`)? | 2 tables of up to 6 blocks, a pool of 7 |
| `query` | Does the parser read what the query says, which queries end a peer, and is every supported statement answered as SQL means it, after each expression (`StepRight`) and in the end (`AnswerRight`)? | 939 token lists, 8 databases of 3 tables of 0 to 3 blocks |
| `peers` | Do leaders deal within the shares they made; are ids on record those of live peers; do pings and answers stay in step; is seniority respected? | 2 peers started in any second, one death and restart, reads that return 2 messages |
| `peers_serve` | Do they end up serving (`EventuallyServes`), for good, with each fragment at exactly one of them on the way (`FragmentsCovered`)? Without deadlock | 2 peers started one by one, the follower dies once |
| `peers_mutual_wait` | *Violation*: does somebody lead in the end? | 2 peers, no deaths, fair |
| `sessions` | Is an answer every fragment's rows once (`AnswerComplete`), is what a client comes to show the answer to what it asked last (`ShowsItsAnswer`), is every client answered (`QueriesAnswered`), does no database change under a query (`StableWhileQueried`), and is the database dealt out whole, by the thread when the follower dies and by the timers when it is back (`FragmentsCovered`)? | 2 serving peers with the leader's timers, a client that finds the leader and sends 2 queries, one with a long result; the follower dies once and comes back, or the long query is sent |
| `sessions_reload` | When peers die before, during or after a query, also between the two rounds of pings in which the client's thread deals anew: does it stay within the slots it counted (`DealsInRange`), is the database dealt out whole again (`FragmentsCovered`), and has an answer the rows of all four peers (`AnswerComplete`)? | 4 peers, of which the 3 followers die, in all twice; 1 query, no timers |
| `sessions_overlap` | *Violation*: is the answer complete when a query may begin while the main thread waits for a peer? | 2 peers, 1 query, no deaths |

The bounds: `MaxBlocks` and `MaxBase` blocks of a file, `MaxLoads` loads, `MaxConns`
connections ever opened, `MaxRead` messages one read returns, `MaxTime` seconds on the
clock, `MaxCrashes` deaths. In `Sessions`: `MaxSessions` connections of clients open at
once, `MaxQueries` queries a client sends, `MaxTroubles` deaths and long results together,
and `Pinging`, the processes whose timers run. The leader's do in `sessions` and `sessions_overlap`,
for the pings to meet the queries and to connect with restarted peers; while the leader lives a
follower's timers only connect and ping, on connections of its own. In `sessions_reload` none run: what it
asks about is the thread's own reload; the timers' is in `peers`, `peers_serve` and, beside the
thread's, in `sessions`. `Leader` and `Connected` say who leads and
which clients have found it in the first state: the processes are up, connected and loaded
as `Peers` leaves them. Each has connected with those that started before it and, where its timers
run and at the leader, with the others (`HasConnected`). Two files and a pool of two are the least in which a block
of one can be confused with, or push out, a block of the other; queue surgery has four
cases and all arise with three nodes, the fourth lets an address come back while the
others are linked. Two blocks a fragment make a merge that fills a block, extends the
file and goes on. Two peers suffice for every race between two threads of one process
and two processes. Four are there in `sessions_reload`: a thread deals anew when one of its peers
is gone, so with three there would be one at most to deal to; with four there are two, of which
one can die between the two rounds or be an answer behind, and slots that the other may run past.
It also splits the fragments with a remainder.
Tables of six blocks in a pool of seven are the least for which `heap_file_bnl` has room
for the inner table in some states and not in others, and the pool evicts nothing. The numbers in `MCQuery` are so few that `IntMax` is 15, and values next to
its ends make differences and sums wrap.

Deadlock is checked except where the system may stop: a faulted program
(`pool_eviction`, `sessions`, `sessions_reload`: a peer that runs past its slots ends), a
process nobody starts again after the last death that is counted, or a client that has
sent its last query (`peers`, `sessions`, `sessions_reload`), the end of the last load
(`database`), the mutual wait that is the finding (`peers_mutual_wait`).

### Fairness

`FairSpec` of `Peers` assumes three things. Every thread that can step does in the
end: peers' threads are ordinary threads, and a spinning one is preempted (weak
fairness on the steps of `peer_main` and on what the main thread does inside a
callback). The main loop gives every source a turn: timers and listening sockets are
GLib sources of one priority, so that one which is due is dispatched before another
is dispatched twice; since each of them is disabled while another callback runs this
is strong fairness. And a process that is not running is started some time. Nothing
is assumed about deaths.

`EventuallyServes` is stated for peers that start one by one, followers that die, and
one message to a read. Each of the three is needed: started together, two peers wait
for each other's id (`peers_mutual_wait`); a read that returns COORDINATOR together
with the PING after it loses the PING, for which the leader then waits with
`db_loading` set; and a leader's death can leave a LOAD on its way that the follower
handles after its successor's, so that it takes an old share back. The last one also
breaks `FragmentsCovered` where leaders die, which is why its runs keep them alive.

`FairSessionsSpec` assumes the same of the peers' steps, and besides: each thread
`client_main`, each `peer_main` that runs a query and each client program goes on when it
can; connections that wait at the leader are accepted by its main loop, and a query that
under `Overlap = "no"` begins between two callbacks does so in one of the pauses that come
again and again (strong fairness, as for the timers). Nobody has to click, to die or to be
started again. `QueriesAnswered` is then: a client that waits for an answer gets one, or a
request to try again, or sees its connection end.

`sessions_reload` needs `Overlap = "no"`: the code has no lock that would keep a query out
of a callback, and `sessions_overlap` shows what happens then. It says nothing against
the runs that exclude it: a callback takes a round trip to a peer, and between two timers
there are 200 ms.

### When a query is answered right

`Supported` names everything a statement or a database must not be like, one part for
each departure of the code. In short: names only of FROM, and all of FROM's in WHERE; a
number on the right of an inequality; the larger table first in a joined inequality;
no value twice in the smaller table of an equality; a table that is filtered before it
is joined must not be the larger side; no sets combined after a cross product; distinct
records; no extreme values; plain columns beside aggregates only as the GROUP BY
column; ORDER BY a selected column, with its direction; LIMIT above 0. Some two thousand
pairs of a statement and a database in `MCQuery` are supported, and for nearly every part
there are others that fail it alone and are answered wrongly or end the peer.

### When an answer is complete

`AnswerComplete` is about queries that begin with all the leader's connections in order and
during which nobody dies. Even so it rests on what the runs leave out. A result of more than a
read's 255 bytes leaves its rest on the connection, and one that the main thread reads in place
of an answer to a ping costs the peer its share at the next reload; a thread that gave its query
up leaves the peers' results behind it, with the same effect. With reads that return several
messages a LOAD can be lost behind a late QUERY. The runs send the long result last, or give
up a query and look at what the next reload does; reads of two messages are left to `peers`.
`StableWhileQueried` is stated for followers that die: a leader's death can leave a LOAD on its way
to a peer that is running its successor's query.

## Findings

Shown by a run:

- `pq_pop` does nothing when the queue has a head (`priority_queue.c:90`), so an evicted
  block stays queued (`pool_eviction`).
- `connect_with_peer` looks at `db_querying` only before it pings, so the main thread may
  wait for a peer's answer when a query begins: the client's thread then takes the answer
  to the ping for the peer's result (`sessions_overlap`).
- Two peers that connect to each other at once wait for ever (`peers_mutual_wait`).

Met while modelling; the models do what the code does, and the properties are stated
around them:

- `count` is the number of blocks in use, not of blocks held (`buffer_manager.c:113`), so
  the pool outgrows its size without evicting. This and `pq_pop` are why eviction only
  happens when more blocks are in use than the pool holds.
- `result_set_and` leaves its loop over the second set's tables at the first common one,
  and tables after it are lost (`result_set.c:83`); `StepRight` leaves such statements out.
- Two peers started within a second have the same id and both lead (`main.c:378`).
- A LOAD of a leader that died may be handled after that of its successor (`main.c:233`).
- A result of more than 255 bytes is cut, and what is left of it is read as the answer to
  the next ping (`main.c:143`); a peer that dies during a query gives a read of 0 bytes,
  which is appended as if it were a result (`main.c:145`).
- After "Try again!" the thread returns without closing the connection (`main.c:125`,
  `:152`), so the client's next ping waits for ever.
- A client's thread that deals the database anew, in `load_database`, may read a late result
  in place of an answer to a ping, count too few peers, and write past
  `fragments_per_peer` (`main.c:427`). The peer at which it does need not be the one that was
  behind: one that is has its answer to the first round read in the second and takes a slot, and
  the next peer, alive and in step, has none left. `DealsInRange` says that all this needs a
  peer that still owed the thread an answer as the reload began, which deaths alone do not make.
- A word that ends in its dot is a variable to the tokenizer (`tokenizer.c:205`, `:239`), and the
  parser copies the column it does not have: `SELECT a. FROM a` ends the peer, at
  `parser.c:465`, with a query that tokenize found nothing wrong with. The same in each other
  clause with variables. `OnlyCutQueriesFault` names it beside the queries that are cut short.
- GLib refuses a read on a stream while another is pending. When the main thread is inside its
  read of a ping's answer as a query begins, the client's thread gets -1 and gives up a peer that
  lives (`main.c:143`, `Contended`); when it is between its write and its read, the thread takes the answer.
- A nested loop join of a table with itself unpins its blocks twice (`bnl.c:87`), and a hash
  join for `!=` pins the inner table without asking for room. `SelfJoins = "hashed"` keeps
  the first out of `join_pins`.
- When the leader dies while a client waits, `read_from_connection_str` fails, and the window goes
  on showing the answer to the query before (`gtk-client/main.c:140`); `ShowsItsAnswer` allows
  for it.
- The review table is created with the purchase's fields (`create_files.c:176`), so its
  records of 312 bytes are read with a size of 58.

An error of memory ends the process in the models.

## What is proved

`tlapm` checks these for every value of the constants that meets the assumptions.

`BlockStoreProofs`, from `StoreAssumption`, as long as the callers together can
use no more blocks than the pool has places (`PinsFit`, in each theorem's statement):

- `TypeCorrect`, `PoolIsExact`, `CacheIsCoherent`, `NamesAreCurrent`, `NeverFaults`: the
  invariants of `block_store`.
- `StoreImplementsDevice`: the cache, the queue and the descriptor table implement
  `BlockDevice`, by `store <- disk, out <- CopiesOut`.

None of the invariants is inductive. `CacheCoherent` speaks of what callers hold by name,
so a step preserves it only if names are current; an unpin keeps `PoolExact` only if
blocks in use are distinct, counted and not queued; and a cached block agrees with the
disk only if the disk has it. The inductive invariant `IInv` is their conjunction with
`HandlesOpen`, `HoldersDistinct`, `ActiveHeld`, `QueueExact`, `CountExact`,
`ResidentOnDisk` and `CleanCached`, all stated by the place the kernel knows (`Place`)
instead of by name. There is a lemma for each action (`FileCreateStep` to
`BlockUnpinStep`), they make `NextPreserves`, and `InvariantsFollow` derives the
properties. Under `PinsFit` nothing is ever evicted (`NotFull`), so the broken `pq_pop`
is out of the way; past it, `PoolExact` is false (`pool_eviction`).
`SequenceProofs` has the lemmas about inserting into and removing from a sequence.

`LinkedQueueProofs`, from `PointersDistinct` and `MemoryFinite` (memory has finitely many
nodes; without it a list could go on for ever): `TypeCorrect`, `StaysWellLinked` and
`OperationsAreRight`. What the walks of `Forward` and `Backward` find is a recursive
function of the pointers; the inductive invariant speaks of the list itself instead: there
is a sequence `q` of distinct nodes, just those that are allocated, whose neighbours `next`
and `prev` connect and whose ends are `head` and `tail` (`Lists(q)`). `InsertFacts` and
`RemoveFacts` say that each operation leaves such a sequence, `q` with a node more or less,
through all four cases of unlinking; `NodelistIs` and `ListFacts`, that whoever follows the
pointers finds `q`, by induction over the steps of the walk.

`DatabaseProofs`, from `RecordAssumption` and `DatabaseAssumption`, for any fragments of any
contents, loaded in any order and cut short at any step:

- `TypeCorrect`; `LoadedRight` - a loaded table is the concatenation of its fragments;
  `OnlyGrows`, `FragmentsStay` and `DisciplineKept` - the action properties of `database`.

`LoadedIsConcatenation` says nothing until the last record is in; its inductive form is
`ContentRight`: what is in the copy, with the record `heap_file_insert` holds, is the whole of
the fragments taken, then the blocks of the current one that were read, then the records of
the block being read. It stands on `LoadInPlace` (the block in use is that of the fragment
whose turn it is), `InsertInPlace` (the block the insert holds is the copy's last, full
exactly where it goes on to extend the file) and `RoomLeft`: blocks beyond the first
fragment's are full before another is allocated, so the copy never has more than all
fragments together. This is why `DatabaseAssumption` asks of the bound `MaxBlocks` that the
fragments' blocks fit it: a smaller bound would stop a load that the code goes on with.
`FlattenSeq` is a fold; that the records of a sequence of blocks grow by those of the next
(`FlattenAppend` and its companions in `SequenceProofs`) is proved by induction over its length.

`QueryProofs` about `JoinsSpec`, from `JoinAssumption` and the pool's, for any number and size of tables and
any pool of more than two blocks (`JoinsFit`, in each statement: it also keeps the join of a
table with itself out, see Findings), in the behaviours in which a hash join for `!=` only
meets inner tables that fit the pool (`UnequalFits`; it pins them without asking):

- `TypeCorrect`, `EverythingReleased`, `PoolIsExact`, `NeverFaults`, `NestedJoinFits`: the
  invariants of `join_pins`.

The inductive invariant says for each place of each operation which blocks are in use, by
number: `HeldNested`, `HeldEqual`, `HeldUnequal`, `HeldRelease`, `HeldProbed`, `HeldIdle`; and
by `KeptFits` that the nested loop join keeps the inner table only with room to spare.

`QueryProofs` about `Spec` of `SQL`, from `ParserAssumption` alone - a query is any sequence of
tokens, of any length, each with the data its type has:

- `ParserKeepsTheQuery` (`SaidIsParsed`): a statement that is parsed says every token of the
  query, in its order, and nothing else, through every list of a clause, and up to the two
  things the statement does not record: an ASC written out, and a LIMIT of 0.
- `OnlyCutQueriesEndThePeer` (`OnlyCutQueriesFault`): a query that ends the peer while it is parsed
  is one tokenize has an error in, or is cut short after GROUP, ORDER, BY or LIMIT, or has a
  variable without a column.

A token is what the tokenizer makes: a variable may have a table alone, when the word ends in its
dot.

`SaidIsParsed` speaks of the end of parsing. The inductive invariant `QueryInv` says it at every
turn of every clause's loop: the query is the words of what was parsed so far (`SaidSoFar`)
followed by the tokens left, and the clauses still to come are empty (`Ahead`). The words of a clause are a fold over its list, so that one more element adds its own
words is proved by the induction of `SequenceProofs` (`FlattenAppend`).

`SessionsProofs` about `Fragments` and `Generator`: `SharesPartition` - the shares of any number of peers are disjoint and
cover the fragments; `ShareOfSlot` - a share is empty exactly for peers beyond the
number of fragments. The latter is why `PeersAssumption` bounds the peers.
Also there, from `EvenlySplit` (which 30000 customers and 4 fragments satisfy):
`DestinationHolds` - a customer's purchases and reviews are placed in the one fragment that
has the customer; `JoinsAreLocal` - however fragments are dealt, the peers' joins on the
customer, put together, are the join. With `SharesPartition` and `AnswerComplete` this is
why running a query peer by peer is right for such joins, and for no others.

`SessionsProofs` about `Sessions`, for every value of the constants: queries that overlap or
run long, leaders that die, reads of any number of messages.

- `ClientsShowTheirAnswers` (`ShowsItsAnswer`): what a client comes to show when it has waited is
  the answer to that query, the request to try again or an empty buffer; or it has forgotten the
  leader and shows what it did before.

That a client reads the answer to its own query follows from how few messages there can be
between it and its thread. The inductive invariant `ClientInv` says of each session that it has a
thread just while the process holds its end (`Kept`), and of each client that the connections it
polls are distinct and its own, with at most LEADER_ACK to read on them (`PolledHeld`), and that
on its leader's connection at most one request is under way, one that agrees with what the client
waits for, or its answer, or what is left of an earlier one before a ping (`LeaderHeld`, `InStep`).

`PeersProofs`, from `ConnectionAssumption`, `FragmentAssumption` and `PeersAssumption`, for
any number of processes up to the number of fragments, any number of connections, deaths,
restarts and messages to a read:

- `TypeCorrect`; `LeadersLoad` - the assertion of `load_database` never fires (a theorem only, in no run);
  `SlotsAreInRange` - the main thread deals only slots it made; `IdsAreAccurate` - an id on
  record is that of the process at the other end; `SeniorityIsRespected` - an action
  property: nobody takes the lead over a connected process that started earlier.
- `PingsStayInStep` - no answer is taken for that of an earlier ping.

The inductive invariant `IInv` has six parts. `FieldsTyped` is the types, messages included.
`EndsHeld`: only a running process holds an end of a connection, only an open end is served.
`LinksHeld`: `p->connection` is an end this process holds, to that peer - the link to what
`IdsAccurate` says by process, without which a death could leave one to somebody else.
`IdsComeFirst`: until the id is read, a connection carries ID_REQ or the id and nothing
else; after, what is read are answers to pings only. This is what makes the first message
of a read the id, however many a read returns. `MainsInPlace`: the main thread waits on a
connection of its own, and is in `load_database` only at a leader. `SlotsSuffice`: a peer
that can still answer a ping in the second round was counted in the first, so there are
slots left for all of them; it counts sets of peers (`Able`, `Left`), and is the part that
uses that a connection made by a restarted peer cannot take the place of a dead one
within `load_database`. Each action has a lemma; `ConnectStep` stands for the three that
connect; `NextPreserves` joins them, and `SeniorityIsRespected` follows from `IInv` because
what `Seniority` compares are ids on record. `PingsInStep` needs `PInv` beside `IInv`: a ping is
on its way to the server, or read by it, or answered - in one of the three only (`OnePing`),
and in none where the opener does not wait (`Quiet`).

`CoverageProofs`, for the behaviours in which no leader dies (`LeadersLive`, in the statement;
followers die and come back as they like): `FragmentsAreCovered` - whenever the only leader is
back in its loop and its connections live, `load_database` has left every fragment at exactly
one of the peers. The restriction is the code's: a LOAD of a leader that died may be handled
after its successor's (see Fairness). Three invariants are added to `IInv` and `PInv`:

- `LoadsFromLeaders`: a connection that carries a LOAD is the one its leader has on record for
  that peer, so nobody else's LOAD can take a share back. This is what a leader's death breaks.
- `AllOrderly`: on a live connection a LOAD is the first request and the server has none in
  hand, for it follows an answered ping; so there is one LOAD at most to each peer (`OneLoadEach`)
  and what a peer was dealt is that LOAD's share or, once it is handled, its database.
- `CInv`: the count of the first round is one more than the peers heard of (`Heard`), the
  second's slot too, and the peers heard of in it have just the shares of the slots before
  that one, each fragment once (`DealtOut`). The two rounds hear of the same peers while no
  connection is lost; one that is makes a timer deal anew, and `CInv` asks nothing meanwhile.

What a step does to a connection is said once for each kind of step (`ServerEffect`,
`AnswerEffect`, `GetIdEffect`, `AcceptEffect`, `ConnectingEffect`) and used for both invariants.

Only model-checked:

- Of `Sessions`: `AnswerComplete`, `StableWhileQueried`, `DealsInRange`, `SessionsTypeOK`, and
  `FragmentsCovered` in the company of clients. They hold of fewer behaviours than
  `ShowsItsAnswer`: see "When an answer is complete".
- Of the queries: `SQL.TypeOK`, `StepRight` and `AnswerRight`. `Joins`, `ResultSets` and `SQL` are
  written with folds and recursive functions over sequences of records, and what each of them
  computes is an induction over data of its own, as `FlattenAppend` is one.
- What goes beyond `PinsFit` and `JoinsFit`, and liveness (`EventuallyServes`, `QueriesAnswered`),
  which is out of the provers' reach.

## What is not modelled

- The tokenizer, formatting and the encoding of records and schemas: text and bytes. A
  query tokenize rejects is an empty list of tokens.
- Evaluating strings and doubles; the parser has them. The memory of records and result sets.
- The text of a number, which `hash_join.c:17` and `result_set.c:195` print into 10 bytes: of a number
  of 10 characters or more the end goes past what was asked for. The 12 bytes at most fit what
  glibc's `malloc` hands out, and `HashJoin` is that of numbers that fit.
- The main thread's own read refused as pending, when a query that began inside its callback
  (`Overlap = "yes"`) is in its read first. Runs of two clients, whose threads share connections
  and the pool without a lock.
- `heap_file_create` and `heap_file_open`, which put the schema in three header blocks.
- Concurrent queries on one pool: `Sessions` has the threads, `JoinPins` the pool, but no
  module has both. Nothing in the code keeps the threads apart there, and what two of them
  do to the pool's lists and to a descriptor's offset at once is undefined.
- Names, descriptions and random numbers of the generator, widgets of the client,
  `load_db` and `rdbms/main.c`, which run once and keep nothing; `result_file.c` and
  `pq_sorted_insert`, which nothing calls.
- TCP itself, the kernel's files and GLib's containers, which are modelled by what the
  code relies on.

## Plan

1. An abstract specification of the database - a set of records, split over the live
   peers, queried and reloaded - that `Sessions` implements while its leader lives.
2. `AnswerComplete` from `SharesPartition` and the invariants of `PeersProofs` and
   `CoverageProofs`, while the leader lives.
3. Lemmas about `ResultSets` and `Joins`, by induction over the lengths of the sets.
4. Creating and opening heap files: the schema in the header blocks and its limits.
