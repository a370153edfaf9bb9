---------------------------- MODULE WireTransport ----------------------------
(***************************************************************************)
(* The WebSocket transport: WsConnection (crates/sdk/client/connection.rs),*)
(* its browser counterpart (wasm_transport.rs, wasm_chunk.rs) and the      *)
(* server's connection loop up to dispatch (unified_server/serve.rs with   *)
(* the reply writers of io.rs).                                            *)
(*                                                                         *)
(* A client has one socket at a time; reconnecting gives it a new server   *)
(* task while the old one may still run.  Requests are numbered per client.*)
(* A request is "small" (one frame, one reply record), "big" (several      *)
(* chunk frames both ways) or "stream" (one frame, reply records coalesced *)
(* in one message).  The server's reassembly budget counts pieces.         *)
(***************************************************************************)
EXTENDS Naturals, Sequences, FiniteSets, FiniteSetsExt

CONSTANTS Native,       \* clients on WsConnection
          Browser,      \* clients on WasmWebSocketTransport
          Kinds,        \* request kinds exercised, a subset of the three
          MaxReq,       \* bound: requests per client
          Epochs,       \* bound: sockets per client
          Pieces,       \* chunk frames of a big message
          Budget        \* MAX_GLOBAL_REASSEMBLY_BYTES, in pieces

TransportAssumption ==
    /\ Pieces \in Nat \ {0, 1} /\ Budget \in Nat \ {0}
    /\ Kinds \subseteq {"small", "big", "stream"} /\ Native \cap Browser = {}

Peers == Native \cup Browser
Tasks == Peers \X (1..Epochs)

VARIABLES link,         \* link[c]: the client's current socket
          op,           \* op[c]: the transport call in progress
          issued,       \* issued[c]: kinds of the requests begun, in order
          part,         \* part[c]: chunk frames recv_inner holds, a local
          recvBuf,      \* recvBuf[c]: recv_buf, records of a coalesced message
          shut,         \* shut[c]: close() was called, or reconnect failed
          late,         \* late[c]: a call on this socket was given up
          last,         \* last[c]: the record last returned and the call's request
          up,           \* up[t]: frames on their way to the server
          down,         \* down[t]: messages on their way to the client
          srv,          \* srv[t]: "idle", "open" or "closed"
          acc,          \* acc[t]: chunk_acc, as pieces <<request, seq>>
          expected,     \* expected[t]: chunk_expected
          permits,      \* permits[t]: reassembly permits held
          work,         \* work[t]: the message being dispatched, as pieces
          dispatched    \* dispatched[t]: messages handed to handle_variant

vars == <<link, op, issued, part, recvBuf, shut, late, last,
          up, down, srv, acc, expected, permits, work, dispatched>>
serverVars == <<srv, acc, expected, permits, work, dispatched>>
clientVars == <<link, op, issued, part, recvBuf, shut, late, last>>

NoOp == [req |-> 0, phase |-> "idle", next |-> 0, want |-> 0]
NoRecord == [rec |-> <<0, 0>>, req |-> 0, late |-> FALSE, shut |-> FALSE]
NoWork == <<>>

Task(c) == <<c, link[c]>>
Kind(c, r) == issued[c][r]

\* A message is cut in pieces only above CHUNK_SIZE; the browser never cuts.
Frames(c, r) == IF Kind(c, r) = "big" /\ c \in Native THEN Pieces ELSE 1
Records(c, r) == IF Kind(c, r) = "stream" THEN <<<<r, 1>>, <<r, 2>>>> ELSE <<<<r, 1>>>>

Frame(t, r, seq, total) == [t |-> t, req |-> r, seq |-> seq, total |-> total]
Message(t, recs, seq) == [t |-> t, recs |-> recs, seq |-> seq]

InUse == MapThenSumSet(LAMBDA t : permits[t], Tasks)

Init ==
    /\ link = [c \in Peers |-> 1] /\ op = [c \in Peers |-> NoOp]
    /\ issued = [c \in Peers |-> <<>>] /\ part = [c \in Peers |-> 0]
    /\ recvBuf = [c \in Peers |-> <<>>]
    /\ shut = [c \in Peers |-> FALSE] /\ late = [c \in Peers |-> FALSE]
    /\ last = [c \in Peers |-> NoRecord]
    /\ up = [t \in Tasks |-> <<>>] /\ down = [t \in Tasks |-> <<>>]
    /\ srv = [t \in Tasks |-> IF t[2] = 1 THEN "open" ELSE "idle"]
    /\ acc = [t \in Tasks |-> <<>>] /\ expected = [t \in Tasks |-> 0]
    /\ permits = [t \in Tasks |-> 0] /\ work = [t \in Tasks |-> NoWork]
    /\ dispatched = [t \in Tasks |-> {}]

-----------------------------------------------------------------------------
(* The client.                                                             *)

Begin(c, k) ==
    /\ op[c] = NoOp /\ ~shut[c] /\ Len(issued[c]) < MaxReq
    /\ issued' = [issued EXCEPT ![c] = Append(@, k)]
    /\ op' = [op EXCEPT ![c] = [req |-> Len(issued[c]) + 1, phase |-> "send", next |-> 0,
                                want |-> IF k = "stream" THEN 2 ELSE 1]]
    /\ UNCHANGED <<link, part, recvBuf, shut, late, last, up, down, serverVars>>

\* One frame of the request; a deadline may fall between two of them.
send_chunked(c) ==
    LET o == op[c]
        n == Frames(c, o.req)
        t == IF n > 1 THEN "chunk" ELSE "plain"
    IN  /\ o.phase = "send" /\ c \in Native
        /\ up' = [up EXCEPT ![Task(c)] = Append(@, Frame(t, o.req, o.next, n))]
        /\ op' = [op EXCEPT ![c] = IF o.next + 1 = n THEN [o EXCEPT !.phase = "wait"]
                                                    ELSE [o EXCEPT !.next = @ + 1]]
        /\ UNCHANGED <<link, issued, part, recvBuf, shut, late, last, down, serverVars>>

\* The browser hands the whole message to the socket, however large.
WasmSend(c) ==
    LET o == op[c] IN
    /\ o.phase = "send" /\ c \in Browser
    /\ up' = [up EXCEPT ![Task(c)] =
                Append(@, Frame(IF Kind(c, o.req) = "big" THEN "oversize" ELSE "plain", o.req, 0, 1))]
    /\ op' = [op EXCEPT ![c].phase = "wait"]
    /\ UNCHANGED <<link, issued, part, recvBuf, shut, late, last, down, serverVars>>

\* The caller gets a record; the call ends when it has all it asked for.
Deliver(c, rec) ==
    /\ last' = [last EXCEPT ![c] = [rec |-> rec, req |-> op[c].req, late |-> late[c], shut |-> shut[c]]]
    /\ op' = [op EXCEPT ![c] = IF @.want = 1 THEN NoOp ELSE [@ EXCEPT !.want = @ - 1]]

Fail(c) ==
    /\ op' = [op EXCEPT ![c] = NoOp] /\ late' = [late EXCEPT ![c] = TRUE]
    /\ part' = [part EXCEPT ![c] = 0]

\* roundtrip of the native transport reads the socket directly; every other
\* call looks at recv_buf first.
UsesBuffer(c) == c \in Browser \/ Kind(c, op[c].req) = "stream" \/ shut[c]

take_record_from_buf(c) ==
    /\ op[c].phase = "wait" /\ UsesBuffer(c) /\ recvBuf[c] # <<>>
    /\ Deliver(c, Head(recvBuf[c]))
    /\ recvBuf' = [recvBuf EXCEPT ![c] = Tail(@)]
    /\ UNCHANGED <<link, issued, part, shut, late, up, down, serverVars>>

\* A whole message reached the caller: its first record is returned and recv
\* keeps the others.
Complete(c, recs) ==
    /\ Deliver(c, Head(recs))
    /\ recvBuf' = [recvBuf EXCEPT ![c] = IF UsesBuffer(c) THEN Tail(recs) ELSE @]
    /\ part' = [part EXCEPT ![c] = 0]
    /\ UNCHANGED late

push(n, m) ==
    CASE m.t = "plain" -> "complete"
      [] m.t = "chunk" /\ m.seq = n -> IF n + 1 = Pieces THEN "complete" ELSE "pending"
      [] OTHER -> "error"

\* One message of the socket.
recv_inner(c) ==
    LET m == Head(down[Task(c)])
        step == push(part[c], m)
    IN  /\ op[c].phase = "wait" /\ ~shut[c] /\ down[Task(c)] # <<>>
        /\ UsesBuffer(c) => recvBuf[c] = <<>>
        /\ down' = [down EXCEPT ![Task(c)] = Tail(@)]
        /\ \/ step = "complete" /\ Complete(c, m.recs)
           \/ step = "pending" /\ part' = [part EXCEPT ![c] = @ + 1] /\ UNCHANGED <<op, last, recvBuf, late>>
           \/ step = "error" /\ Fail(c) /\ UNCHANGED <<last, recvBuf>>
        /\ UNCHANGED <<link, issued, shut, up, serverVars>>

\* The deadline of send, recv or roundtrip: the future is dropped wherever it
\* is, and the socket stays in use.  The browser transport has none.
Deadline(c) ==
    /\ c \in Native /\ op[c] # NoOp /\ Fail(c)
    /\ UNCHANGED <<link, issued, recvBuf, shut, last, up, down, serverVars>>

Close(c) ==
    /\ op[c] = NoOp /\ ~shut[c]
    /\ shut' = [shut EXCEPT ![c] = TRUE]
    /\ up' = [up EXCEPT ![Task(c)] = Append(@, Frame("close", 0, 0, 1))]
    /\ UNCHANGED <<link, op, issued, part, recvBuf, late, last, down, serverVars>>

\* recv on a transport that was closed.
RecvClosed(c) ==
    /\ op[c] = NoOp /\ shut[c] /\ recvBuf[c] # <<>> /\ issued[c] # <<>>
    /\ op' = [op EXCEPT ![c] = [req |-> Len(issued[c]), phase |-> "wait", next |-> 0, want |-> 1]]
    /\ UNCHANGED <<link, issued, part, recvBuf, shut, late, last, up, down, serverVars>>

Hello(c) ==
    /\ link[c] < Epochs
    /\ link' = [link EXCEPT ![c] = @ + 1]
    /\ srv' = [srv EXCEPT ![<<c, link[c] + 1>>] = "open"]
    /\ up' = [up EXCEPT ![Task(c)] = Append(@, Frame("close", 0, 0, 1))]

\* Mutant of reconnect: the records of the old socket are kept.
ReconnectKeepsBuffer(c) ==
    /\ c \in Native /\ op[c] = NoOp
    /\ Hello(c)
    /\ shut' = [shut EXCEPT ![c] = FALSE] /\ late' = [late EXCEPT ![c] = FALSE]
    /\ UNCHANGED <<op, issued, part, recvBuf, last, down, acc, expected, permits, work, dispatched>>

reconnect(c) ==
    /\ c \in Native /\ op[c] = NoOp
    /\ Hello(c)
    /\ recvBuf' = [recvBuf EXCEPT ![c] = <<>>]
    /\ shut' = [shut EXCEPT ![c] = FALSE] /\ late' = [late EXCEPT ![c] = FALSE]
    /\ UNCHANGED <<op, issued, part, last, down, acc, expected, permits, work, dispatched>>

\* Every attempt fails: the old socket was told to close and nothing else
\* changes.
ReconnectFails(c) ==
    /\ c \in Native /\ op[c] = NoOp /\ ~shut[c]
    /\ shut' = [shut EXCEPT ![c] = TRUE]
    /\ up' = [up EXCEPT ![Task(c)] = Append(@, Frame("close", 0, 0, 1))]
    /\ UNCHANGED <<link, op, issued, part, recvBuf, late, last, down, serverVars>>

\* A WebSocket ping, from the client or a proxy on the way.
Ping(c) ==
    /\ ~shut[c] /\ up[Task(c)] = <<>> /\ srv[Task(c)] = "open"
    /\ up' = [up EXCEPT ![Task(c)] = <<Frame("ping", 0, 0, 1)>>]
    /\ UNCHANGED <<clientVars, down, serverVars>>

-----------------------------------------------------------------------------
(* The server's connection loop.                                           *)

Reading(t, kinds) ==
    /\ srv[t] = "open" /\ work[t] = NoWork /\ up[t] # <<>> /\ Head(up[t]).t \in kinds
    /\ up' = [up EXCEPT ![t] = Tail(@)]

\* Leaving the loop drops the accumulator and with it the permits.
Leave(t) ==
    /\ srv' = [srv EXCEPT ![t] = "closed"]
    /\ acc' = [acc EXCEPT ![t] = <<>>] /\ expected' = [expected EXCEPT ![t] = 0]
    /\ permits' = [permits EXCEPT ![t] = 0]
    /\ down' = [down EXCEPT ![t] = Append(@, Message("close", <<>>, 0))]
    /\ UNCHANGED <<work, dispatched>>

IngestPing(t) ==
    /\ Reading(t, {"ping"})
    /\ acc' = [acc EXCEPT ![t] = <<>>] /\ expected' = [expected EXCEPT ![t] = 0]
    /\ permits' = [permits EXCEPT ![t] = 0]
    /\ UNCHANGED <<clientVars, down, srv, work, dispatched>>

IngestClose(t) ==
    /\ Reading(t, {"close", "oversize"})
    /\ Leave(t) /\ UNCHANGED clientVars

\* A plain frame is a request of its own, unless an upload is under way.
IngestPlain(t) ==
    LET f == Head(up[t]) IN
    /\ Reading(t, {"plain"})
    /\ IF acc[t] # <<>>
         THEN Leave(t)
         ELSE /\ work' = [work EXCEPT ![t] = <<<<f.req, 0>>>>]
              /\ dispatched' = [dispatched EXCEPT ![t] = @ \cup {<<<<f.req, 0>>>>}]
              /\ UNCHANGED <<down, srv, acc, expected, permits>>
    /\ UNCHANGED clientVars

\* The next piece is stored, and the last one makes the message a request.
Store(t, piece, total) ==
    LET whole == (IF piece[2] = 0 THEN <<>> ELSE acc[t]) \o <<piece>>
        n == (IF piece[2] = 0 THEN 0 ELSE permits[t]) + 1
    IN  /\ permits' = [permits EXCEPT ![t] = n]
        /\ IF expected[t] + 1 < total
             THEN /\ acc' = [acc EXCEPT ![t] = whole]
                  /\ expected' = [expected EXCEPT ![t] = @ + 1]
                  /\ UNCHANGED <<work, dispatched>>
             ELSE /\ acc' = [acc EXCEPT ![t] = <<>>] /\ expected' = [expected EXCEPT ![t] = 0]
                  /\ work' = [work EXCEPT ![t] = whole]
                  /\ dispatched' = [dispatched EXCEPT ![t] = @ \cup {whole}]
        /\ UNCHANGED <<down, srv>>

IngestChunk(t) ==
    LET f == Head(up[t]) IN
    /\ Reading(t, {"chunk"})
    /\ IF f.seq # expected[t] \/ InUse + 1 > Budget
         THEN Leave(t)
         ELSE Store(t, <<f.req, f.seq>>, f.total)
    /\ UNCHANGED clientVars

\* handle_variant and the writers: one message, chunk frames, or coalesced
\* records.  The permits go when the request is done.
Reply(t) ==
    LET c == t[1]
        r == work[t][1][1]
        msgs == IF Kind(c, r) = "big"
                  THEN [i \in 1..Pieces |-> Message("chunk", Records(c, r), i - 1)]
                  ELSE <<Message("plain", Records(c, r), 0)>>
    IN  /\ srv[t] = "open" /\ work[t] # NoWork
        /\ work' = [work EXCEPT ![t] = NoWork] /\ permits' = [permits EXCEPT ![t] = 0]
        /\ down' = [down EXCEPT ![t] = IF t = Task(c) THEN @ \o msgs ELSE @]
        /\ UNCHANGED <<clientVars, up, srv, acc, expected, dispatched>>

IdleTimeout(t) ==
    /\ srv[t] = "open" /\ work[t] = NoWork /\ up[t] = <<>>
    /\ Leave(t) /\ UNCHANGED <<clientVars, up>>

-----------------------------------------------------------------------------
ServerStep(t) ==
    \/ IngestPing(t) \/ IngestClose(t) \/ IngestPlain(t) \/ IngestChunk(t)
    \/ Reply(t) \/ IdleTimeout(t)

Next ==
    \/ \E c \in Peers :
          \/ \E k \in Kinds : Begin(c, k)
          \/ send_chunked(c) \/ WasmSend(c) \/ take_record_from_buf(c) \/ recv_inner(c)
          \/ Deadline(c) \/ Close(c) \/ RecvClosed(c) \/ reconnect(c) \/ ReconnectFails(c) \/ Ping(c)
    \/ \E t \in Tasks : ServerStep(t)

\* The runtime keeps polling a connection's task, and its timer fires when no
\* message came for the idle time.  Nothing is assumed of clients.
Fairness ==
    \A t \in Tasks : WF_vars(ServerStep(t))

Spec == Init /\ [][Next]_vars /\ Fairness

-----------------------------------------------------------------------------
Pieces0(c, r) == [i \in 1..Frames(c, r) |-> <<r, i - 1>>]

TypeOK ==
    /\ link \in [Peers -> 1..Epochs] /\ issued \in [Peers -> Seq(Kinds)]
    /\ part \in [Peers -> 0..(Pieces - 1)]
    /\ shut \in [Peers -> BOOLEAN] /\ late \in [Peers -> BOOLEAN]
    /\ srv \in [Tasks -> {"idle", "open", "closed"}]
    /\ expected \in [Tasks -> 0..(Pieces - 1)] /\ permits \in [Tasks -> 0..Budget]

\* What serve.rs hands to handle_variant is one request of the client, whole
\* and in order: pieces of an upload that was cut off by a deadline, a ping or
\* a reconnect never end up in a request.
DispatchedWhole ==
    \A t \in Tasks : \A w \in dispatched[t] : \E r \in 1..Len(issued[t[1]]) : w = Pieces0(t[1], r)

\* The permits of reassembly_limiter are exactly the pieces kept in memory, so
\* the budget bounds them and an interrupted upload gives all of its back.
PermitsMatchPieces ==
    /\ InUse <= Budget
    /\ \A t \in Tasks : permits[t] = Len(acc[t]) + (IF Len(work[t]) > 1 THEN Len(work[t]) ELSE 0)

\* A record returned by recv or roundtrip answers the call's own request,
\* unless an earlier call on the same socket was given up: a late answer or a
\* rest of recv_buf can reach the next call, but never across reconnect.
AnswersOwnRequest ==
    \A c \in Peers : last[c].rec[1] = last[c].req \/ last[c].late

=============================================================================
