---------------------------- MODULE Connections ----------------------------
(***************************************************************************)
(* The TCP connections between peers and the calls of                      *)
(* src/utils/networking_utils.c on them.  A connection has the process     *)
(* that opened it, the process that accepted it, and a stream each way: a  *)
(* write appends one message; a read returns what has arrived, which may   *)
(* be several messages at once, and the callers look at the first only     *)
(* (strncmp on the buffer).  A message is never split: all those of peers  *)
(* are far shorter than the 255 bytes a read asks for, and a result that   *)
(* is longer is written as several messages (Sessions).                    *)
(*                                                                         *)
(* A process that dies closes its ends.  What it wrote stays readable;     *)
(* after that a read returns 0 or an error.  What is written to a closed   *)
(* end is never read and is not kept.  An entry is free once both ends are *)
(* closed.                                                                 *)
(***************************************************************************)
EXTENDS Naturals, SequencesExt

CONSTANTS
  Nodes,    \* the peers' addresses
  MaxConns, \* bound: connections open at once
  MaxRead   \* bound: messages one read returns

ASSUME ConnectionAssumption == MaxConns \in Nat /\ MaxRead \in Nat \ {0}

VARIABLE conns

ConnIds == 1..MaxConns
NoConn == 0

\* Message bodies are sets: the fragments of a LOAD, the number of an ID.
Msg(type, body) == [type |-> type, body |-> body]
Ping == Msg("PING", {})
IdReq == Msg("ID_REQ", {})
Coordinator == Msg("COORDINATOR", {})
NoMsg == Msg("NONE", {})

\* The thread that serves the accepting end: not yet started, or in peer_main.
ServerStates == {"backlog", "reading", "spinning", "handling", "loading", "querying",
                 "exited"}

Closed == [from |-> NoConn, to |-> NoConn, req |-> <<>>, resp |-> <<>>,
           open |-> {}, server |-> "exited", input |-> NoMsg, failed |-> "no"]

\* g_socket_client_connect_to_host has succeeded and ID_REQ was written.
Opened(n, m) == [from |-> n, to |-> m, req |-> <<IdReq>>, resp |-> <<>>,
                 open |-> {"from", "to"}, server |-> "backlog", input |-> NoMsg,
                 failed |-> "no"]

Live(c) == conns[c].open = {"from", "to"}

\* write_to_connection_str by the opener, and by the accepting process.
Sent(cs, c, msg) ==
  IF "to" \in cs[c].open THEN [cs EXCEPT ![c].req = Append(@, msg)] ELSE cs
Answered(cs, c, msg) ==
  IF "from" \in cs[c].open THEN [cs EXCEPT ![c].resp = Append(@, msg)] ELSE cs

\* How many messages a read may return.
Reads(q) == {k \in 1..MaxRead : k <= Len(q)}
Rest(q, k) == SubSeq(q, k + 1, Len(q))

\* The ends process n holds are closed, by its death.
Dropped(n) ==
  [c \in ConnIds |->
    LET open == conns[c].open \ ((IF conns[c].from = n THEN {"from"} ELSE {})
                            \cup (IF conns[c].to = n THEN {"to"} ELSE {}))
    IN  IF open = {} THEN Closed
        ELSE IF open = conns[c].open THEN conns[c]
        ELSE IF "to" \in open THEN [conns[c] EXCEPT !.open = open, !.resp = <<>>]
        ELSE [conns[c] EXCEPT !.open = open, !.req = <<>>, !.server = "exited",
                              !.input = NoMsg]]
=============================================================================
