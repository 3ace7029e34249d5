--------------------------------- MODULE Tcp ---------------------------------
(***************************************************************************)
(* TCP connections (drivers/net/tcp.c) of clients to one listening port,   *)
(* with both ends run by this code.  An end <<c, "c">> is the socket that  *)
(* client c connects, <<c, "s">> the one the listener makes for it.  An    *)
(* action is one call of tcp_receive, one pass of tcp_tick over a socket,  *)
(* or the part of a system call up to its next schedule().                 *)
(*                                                                         *)
(* The network keeps every segment: one may arrive at once, late, again,   *)
(* in any order, or never.  An answer that cannot be sent is one that      *)
(* never arrives; other failures to send are alternatives of their own.    *)
(* The bytes of a stream are their places in it, 1, 2, ...; the byte of a  *)
(* keepalive probe is 0.  Clocks are left out: a timer that is running may *)
(* run out.  cwnd, which stays above the segment size, the windows, which  *)
(* no sender looks at, and send_una, which only poll reads, are left out.  *)
(***************************************************************************)
EXTENDS Integers, SequencesExt

CONSTANTS Clients,
          ClientIsn,   \* the tcp_isn of each client when it connects
          ServerIsn,   \* the tcp_isn of the server
          Mod,         \* sequence numbers are uint32_t: the size of their space
          Window,      \* TCP_WINDOW_SIZE
          MSS,
          Backlog,
          Loads        \* bound: what the applications may do, see load

Ends == Clients \X {"c", "s"}
Peer(e) == IF e[2] = "c" THEN <<e[1], "s">> ELSE <<e[1], "c">>

ASSUME SpaceAssumption ==
    /\ Mod \in Nat /\ Window \in 1 .. Mod \div 2
    /\ ServerIsn \in 0 .. Mod - 1 /\ ClientIsn \in [Clients -> 0 .. Mod - 1]
ASSUME BoundsAssumption ==
    /\ MSS \in Nat \ {0} /\ Backlog \in Nat \ {0}
    /\ Loads \subseteq [clients : SUBSET Clients,     \* those that connect
                        bytes   : [Ends -> Nat],      \* how many bytes an end sends
                        probing : SUBSET Ends,        \* the ends with SO_KEEPALIVE
                        opens   : Nat,                \* how many sockets the listener makes
                        fins    : Nat,                \* how many FINs an end sends
                        closing : BOOLEAN]            \* whether the listener is closed

VARIABLES
    sock,            \* the sockets
    net,             \* all segments that were ever sent
    listening,       \* the port has a listener
    pending_count,   \* its field
    completed,       \* its list of connections to accept
    tcp_isn,         \* of the server
    opens,           \* how many sockets the listener has made
    load,            \* what the applications do in this behaviour
    skewed           \* ghost: clients whose two ends count from different places

hostVars == <<listening, pending_count, completed, tcp_isn, opens, load>>
vars == <<sock, net, hostVars, skewed>>

-----------------------------------------------------------------------------
(* uint32_t arithmetic, and (int32_t)(a - b). *)
Plus(a, n) == (a + n) % Mod
Diff(a, b) == LET d == (a - b) % Mod IN IF d < Mod \div 2 THEN d ELSE d - Mod

Lesser(a, b) == IF a < b THEN a ELSE b

(* No socket: before tcp_socket_create, and for a server end when it was   *)
(* dropped.  A socket closed by its owner stays CLOSED here, so that its   *)
(* port is not used again: old segments do not outlive a connection.       *)
NoSock == [state |-> "NONE", send_next |-> 0, recv_next |-> 0, retx |-> <<>>, ooo |-> <<>>,
           rx |-> <<>>, sent |-> 0, todo |-> 0, unqueued |-> {}, fins |-> 0]

(* A socket whose state becomes CLOSED.  Its queues are freed and nothing  *)
(* more is read from it; only a tcp_send under way goes on.                *)
Closed(s) ==
    IF s.todo = 0 THEN [NoSock EXCEPT !.state = "CLOSED", !.sent = s.sent]
                  ELSE [s EXCEPT !.state = "CLOSED", !.retx = <<>>, !.ooo = <<>>, !.rx = <<>>]

TypeOK ==
    /\ \A e \in Ends :
         /\ sock[e].state \in {"NONE", "CLOSED", "SYN_SENT", "SYN_RCVD", "ESTABLISHED",
                               "FIN_WAIT1", "FIN_WAIT2", "CLOSE_WAIT", "TIME_WAIT"}
         /\ sock[e].send_next \in 0 .. Mod - 1 /\ sock[e].recv_next \in 0 .. Mod - 1
         /\ sock[e].sent + sock[e].todo <= load.bytes[e]
    /\ \A m \in net : m.to \in Ends /\ m.seq \in 0 .. Mod - 1 /\ m.ack \in 0 .. Mod - 1
    /\ listening \in BOOLEAN
    /\ completed \in Seq(Ends)
    /\ skewed \subseteq Clients

Init ==
    /\ sock = [e \in Ends |-> NoSock]
    /\ net = {}
    /\ listening = TRUE
    /\ pending_count = 0
    /\ completed = <<>>
    /\ tcp_isn = ServerIsn
    /\ opens = 0
    /\ load \in Loads
    /\ skewed = {}

(* tcp_send_segment by end e, whose socket is s. *)
Segment(e, s, flags, data) ==
    [to |-> Peer(e), flags |-> flags, seq |-> s.send_next, ack |-> s.recv_next, data |-> data]

Set(e, s) == sock' = [sock EXCEPT ![e] = s]
Sends(S) == net' = net \cup {m \in S : sock[m.to].state # "CLOSED"}

(* End e closes.  What still arrives there changes nothing: it is dropped. *)
Closes(e) ==
    /\ Set(e, Closed(sock[e]))
    /\ net' = {m \in net : m.to # e}

(* An answer: the new socket and the ACK that is sent from it. *)
Answer(e, s) == Set(e, s) /\ Sends({Segment(e, s, {"ACK"}, <<>>)})

-----------------------------------------------------------------------------
(***************************************************************************)
(* The queues of a socket                                                  *)
(***************************************************************************)

End(g) == Plus(g.seq, Len(g.data))

(* Mutant: a segment counts as acknowledged when its first byte is. *)
Acked_FirstByte(retx, ack) ==
    LET left == {i \in DOMAIN retx : Diff(ack, retx[i].seq) <= 0}
    IN  IF left = {} THEN <<>> ELSE SubSeq(retx, Min(left), Len(retx))

(* tcp_retx_queue_ack: segments leave from the front, up to the first that *)
(* is not wholly acknowledged.                                             *)
Acked(retx, ack) ==
    LET left == {i \in DOMAIN retx : Diff(ack, End(retx[i])) < 0}
    IN  IF left = {} THEN <<>> ELSE SubSeq(retx, Min(left), Len(retx))

(* tcp_ooo_add keeps the list in the order of the sequence numbers. *)
OooAdd(s, m) ==
    LET before == Cardinality({i \in DOMAIN s.ooo : Diff(s.ooo[i].seq, m.seq) < 0})
        known == /\ before < Len(s.ooo)
                 /\ s.ooo[before + 1].seq = m.seq
                 /\ Len(s.ooo[before + 1].data) >= Len(m.data)
    IN  IF (m.seq - s.recv_next) % Mod >= Window \/ known THEN s
        ELSE [s EXCEPT !.ooo = InsertAt(@, before + 1, [seq |-> m.seq, data |-> m.data])]

(* tcp_rx_append, when the buffer takes room more bytes. *)
RxAppend(s, data, room) ==
    LET n == Lesser(Len(data), room)
    IN  [s EXCEPT !.rx = @ \o SubSeq(data, 1, n), !.recv_next = Plus(@, n)]

(* The bytes of segment g that are not yet received. *)
News(s, g) == SubSeq(g.data, ((s.recv_next - g.seq) % Mod) + 1, Len(g.data))

(* tcp_ooo_drain; a is the socket, the room left and the list left. *)
OooDrain(s, room) ==
    LET Step(a, g) ==
          IF a.stop \/ Diff(g.seq, a.s.recv_next) > 0
            THEN [a EXCEPT !.stop = TRUE, !.left = Append(@, g)]
            ELSE LET fits == Len(News(a.s, g)) <= a.room
                 IN  [s    |-> RxAppend(a.s, News(a.s, g), a.room),
                      room |-> a.room - Lesser(Len(News(a.s, g)), a.room),
                      stop |-> ~fits,
                      left |-> IF fits THEN a.left ELSE Append(a.left, g)]
        a == FoldLeft(Step, [s |-> s, room |-> room, stop |-> FALSE, left |-> <<>>], s.ooo)
    IN  [a.s EXCEPT !.ooo = a.left]

-----------------------------------------------------------------------------
(***************************************************************************)
(* Opening a connection                                                    *)
(***************************************************************************)

(* tcp_connect_start.  If the SYN cannot be sent the socket is closed. *)
ConnectStart(c) ==
    LET e == <<c, "c">>
        s == [NoSock EXCEPT !.state = "SYN_SENT", !.send_next = ClientIsn[c]]
    IN  /\ c \in load.clients
        /\ sock[e].state = "NONE"
        /\ \/ /\ Set(e, [s EXCEPT !.send_next = Plus(@, 1)])
              /\ Sends({Segment(e, s, {"SYN"}, <<>>)})
           \/ Set(e, Closed(s)) /\ UNCHANGED net
        /\ UNCHANGED <<hostVars, skewed>>

(* tcp_connect sends the SYN again from where it began.  If that fails,    *)
(* send_next stays there.                                                  *)
ConnectAgain(c) ==
    LET e == <<c, "c">>
        s == [sock[e] EXCEPT !.send_next = ClientIsn[c]]
    IN  /\ sock[e].state = "SYN_SENT"
        /\ \/ /\ Set(e, [s EXCEPT !.send_next = Plus(@, 1)])
              /\ Sends({Segment(e, s, {"SYN"}, <<>>)})
           \/ Set(e, s) /\ UNCHANGED net
        /\ UNCHANGED <<hostVars, skewed>>

(* tcp_tick sends it again from send_next, which is behind the SYN. *)
TickSyn(c) ==
    LET e == <<c, "c">> IN
    /\ sock[e].state = "SYN_SENT"
    /\ Sends({Segment(e, sock[e], {"SYN"}, <<>>)})
    /\ UNCHANGED <<sock, hostVars, skewed>>

(* The connection attempt times out, or a signal ends it. *)
ConnectEnds(c) ==
    /\ sock[<<c, "c">>].state = "SYN_SENT"
    /\ Closes(<<c, "c">>)
    /\ UNCHANGED <<hostVars, skewed>>

(* tcp_receive finds no socket: a SYN makes one if there is a listener     *)
(* with space.  It is closed at once if the SYN+ACK cannot be sent.        *)
ReceiveSyn(m) ==
    LET e == m.to
        s == [NoSock EXCEPT !.state = "SYN_RCVD", !.send_next = tcp_isn,
                            !.recv_next = Plus(m.seq, 1)]
    IN  /\ sock[e].state = "NONE"
        /\ e[2] = "s"
        /\ m.flags \cap {"SYN", "ACK"} = {"SYN"}
        /\ listening /\ pending_count < Backlog
        /\ opens < load.opens
        /\ tcp_isn' = Plus(tcp_isn, 1)
        /\ opens' = opens + 1
        /\ \/ /\ Set(e, [s EXCEPT !.send_next = Plus(@, 1)])
              /\ Sends({Segment(e, s, {"SYN", "ACK"}, <<>>)})
              /\ pending_count' = pending_count + 1
              /\ skewed' = IF m.seq = ClientIsn[e[1]] THEN skewed ELSE skewed \cup {e[1]}
           \/ UNCHANGED <<sock, net, pending_count, skewed>>
        /\ UNCHANGED <<listening, completed, load>>

(* The client is connected by any SYN+ACK. *)
ReceiveSynSent(m) ==
    LET e == m.to IN
    /\ sock[e].state = "SYN_SENT"
    /\ {"SYN", "ACK"} \subseteq m.flags
    /\ Answer(e, [sock[e] EXCEPT !.state = "ESTABLISHED", !.recv_next = Plus(m.seq, 1)])
    /\ skewed' = IF /\ sock[e].send_next = Plus(ClientIsn[e[1]], 1)
                    /\ sock[Peer(e)].send_next = Plus(m.seq, 1)
                   THEN skewed ELSE skewed \cup {e[1]}
    /\ UNCHANGED hostVars

(* The listener's socket, which answers a second SYN from behind its own,  *)
(* and is connected by an ACK of its own.  (It has a listener with space   *)
(* in tcp_listener_complete: BacklogExact.)                                *)
ReceiveSynRcvd(m) ==
    LET e == m.to
        s == [sock[e] EXCEPT !.recv_next = Plus(m.seq, 1)]
    IN  /\ sock[e].state = "SYN_RCVD"
        /\ \/ /\ "SYN" \in m.flags
              /\ Set(e, s)
              /\ Sends({Segment(e, s, {"SYN", "ACK"}, <<>>)})
              /\ skewed' = IF m.seq = ClientIsn[e[1]] THEN skewed ELSE skewed \cup {e[1]}
              /\ UNCHANGED completed
           \/ /\ m.flags \cap {"SYN", "ACK"} = {"ACK"}
              /\ m.ack = sock[e].send_next
              /\ Set(e, [sock[e] EXCEPT !.state = "ESTABLISHED"])
              /\ completed' = Append(completed, e)
              /\ UNCHANGED <<net, skewed>>
        /\ UNCHANGED <<listening, pending_count, tcp_isn, opens, load>>

(* Mutant: the listener goes on counting the socket. *)
DropServerSocket_Counted(e) ==
    /\ sock' = [sock EXCEPT ![e] = NoSock]
    /\ UNCHANGED pending_count

(* tcp_drop_server_socket *)
DropServerSocket(e) ==
    /\ Set(e, NoSock)
    /\ pending_count' = IF listening THEN pending_count - 1 ELSE pending_count

(* tcp_tick gives up a socket that nobody completed. *)
TickSynRcvd(e) ==
    /\ sock[e].state = "SYN_RCVD"
    /\ DropServerSocket(e)
    /\ UNCHANGED <<net, listening, completed, tcp_isn, opens, load, skewed>>

(* tcp_accept *)
Accept ==
    /\ listening /\ completed # <<>>
    /\ completed' = Tail(completed)
    /\ pending_count' = pending_count - 1
    /\ UNCHANGED <<sock, net, listening, tcp_isn, opens, load, skewed>>

(* tcp_unlisten closes the sockets that nobody has accepted, and those     *)
(* that are not yet connected; tcp_listen begins with none.                *)
Unlisten ==
    /\ listening /\ load.closing
    /\ listening' = FALSE
    /\ sock' = [e \in Ends |-> IF e \in Range(completed) \/ sock[e].state = "SYN_RCVD"
                                 THEN NoSock ELSE sock[e]]
    /\ completed' = <<>>
    /\ pending_count' = 0
    /\ UNCHANGED <<net, tcp_isn, opens, load, skewed>>

Listen ==
    /\ ~listening
    /\ listening' = TRUE
    /\ UNCHANGED <<sock, net, pending_count, completed, tcp_isn, opens, load, skewed>>

-----------------------------------------------------------------------------
(***************************************************************************)
(* The connection                                                          *)
(***************************************************************************)

(* The task that owns end e can call into its socket. *)
Usable(e) == sock[e].todo = 0 /\ e \notin Range(completed)

(* tcp_send tests the state only once, *)
SendCall(e) ==
    /\ Usable(e)
    /\ sock[e].state = "ESTABLISHED"
    /\ \E n \in 1 .. load.bytes[e] - sock[e].sent : Set(e, [sock[e] EXCEPT !.todo = n])
    /\ UNCHANGED <<net, hostVars, skewed>>

(* and sends a segment after the other, each put in the queue behind       *)
(* tcp_send_segment unless kmalloc fails.                                  *)
SendSegment(e) ==
    LET s == sock[e]
        n == Lesser(s.todo, MSS)
        data == [i \in 1 .. n |-> s.sent + i]
        t == [s EXCEPT !.send_next = Plus(@, n), !.sent = @ + n, !.todo = @ - n]
    IN  /\ s.todo > 0
        /\ \/ /\ Sends({Segment(e, s, {"ACK"}, data)})
              /\ \/ Set(e, [t EXCEPT !.retx = Append(@, [seq |-> s.send_next, data |-> data])])
                 \/ Set(e, [t EXCEPT !.unqueued = @ \cup Range(data)])
           \/ Set(e, [s EXCEPT !.todo = 0]) /\ UNCHANGED net
        /\ UNCHANGED <<hostVars, skewed>>

(* tcp_recv tells the other end of a larger window. *)
Recv(e) ==
    /\ Usable(e)
    /\ sock[e].state = "ESTABLISHED" /\ sock[e].rx # <<>>
    /\ Answer(e, sock[e])
    /\ UNCHANGED <<hostVars, skewed>>

(* Mutant: the bytes that were received before are taken again. *)
Taken_Untrimmed(s, m, room) ==
    LET t == RxAppend(s, m.data, room)
    IN  IF Len(m.data) <= room THEN OooDrain(t, room - Len(m.data)) ELSE t

(* A segment in order, without what was received before.  If the buffer    *)
(* takes all of it, what arrived out of order follows.                     *)
Taken(s, m, room) ==
    LET t == RxAppend(s, News(s, m), room)
    IN  IF Len(News(s, m)) <= room THEN OooDrain(t, room - Len(News(s, m))) ELSE t

(* Mutant: a FIN ends the stream wherever it is. *)
Finished_Anywhere(s, m) ==
    IF "FIN" \in m.flags THEN [s EXCEPT !.state = "CLOSE_WAIT", !.recv_next = Plus(@, 1)] ELSE s

(* A FIN ends the stream if it comes right behind the last byte. *)
Finished(s, m) ==
    IF "FIN" \in m.flags /\ End(m) = s.recv_next
      THEN [s EXCEPT !.state = "CLOSE_WAIT", !.recv_next = Plus(@, 1)] ELSE s

(* tcp_receive in ESTABLISHED. *)
ReceiveEstablished(m) ==
    LET e == m.to
        s == IF "ACK" \in m.flags THEN [sock[e] EXCEPT !.retx = Acked(@, m.ack)] ELSE sock[e]
        ahead == Diff(m.seq, s.recv_next)
    IN  /\ sock[e].state = "ESTABLISHED"
        /\ \/ /\ m.data # <<>> /\ ahead > 0
              /\ \E t \in {s, OooAdd(s, m)} : Answer(e, t)
           \/ /\ m.data # <<>> /\ -ahead >= Len(m.data)
              /\ Answer(e, s)
           \/ /\ m.data # <<>> /\ ahead <= 0 /\ -ahead < Len(m.data)
              /\ \E room \in 0 .. load.bytes[Peer(e)] : Answer(e, Finished(Taken(s, m, room), m))
           \/ /\ m.data = <<>> /\ ("FIN" \in m.flags \/ ahead # 0)
              /\ Answer(e, Finished(s, m))
           \/ /\ m.data = <<>> /\ "FIN" \notin m.flags /\ ahead = 0
              /\ Set(e, s) /\ UNCHANGED net
        /\ UNCHANGED <<hostVars, skewed>>

(* tcp_tick sends the first segment of the queue again. *)
TickRetransmit(e) ==
    LET s == sock[e] IN
    /\ s.state = "ESTABLISHED" /\ s.retx # <<>>
    /\ Sends({Segment(e, [s EXCEPT !.send_next = Head(s.retx).seq], {"ACK"}, Head(s.retx).data)})
    /\ UNCHANGED <<sock, hostVars, skewed>>

(* It probes the other end with one byte in the place of the last one      *)
(* sent.  If that cannot be sent, send_next stays there; if the last byte  *)
(* has not arrived, the probe may be taken for it.                         *)
TickProbe(e) ==
    LET s == sock[e]
        back == [s EXCEPT !.send_next = Plus(@, -1)]
    IN  /\ s.state = "ESTABLISHED" /\ e \in load.probing
        /\ s.send_next # 0
        /\ \/ /\ Sends({Segment(e, back, {"ACK"}, <<0>>)})
              /\ skewed' = IF sock[Peer(e)].recv_next = s.send_next THEN skewed
                                                                   ELSE skewed \cup {e[1]}
              /\ UNCHANGED sock
           \/ /\ Set(e, back)
              /\ skewed' = skewed \cup {e[1]}
              /\ UNCHANGED net
        /\ UNCHANGED hostVars

(* TCP_USER_TIMEOUT: nothing was acknowledged for too long. *)
TickGiveUp(e) ==
    /\ sock[e].state = "ESTABLISHED" /\ (sock[e].retx # <<>> \/ e \in load.probing)
    /\ Closes(e)
    /\ UNCHANGED <<hostVars, skewed>>

-----------------------------------------------------------------------------
(***************************************************************************)
(* Closing a connection                                                    *)
(***************************************************************************)

(* tcp_disconnect, called by close and shutdown, sends a FIN in            *)
(* ESTABLISHED, and otherwise just closes the socket.                      *)
Disconnect(e) ==
    LET s == [sock[e] EXCEPT !.state = "FIN_WAIT1", !.fins = 1] IN
    /\ Usable(e)
    /\ \/ /\ sock[e].state = "ESTABLISHED" /\ load.fins > 0
          /\ \/ /\ Set(e, [s EXCEPT !.send_next = Plus(@, 1)])
                /\ Sends({Segment(e, s, {"FIN", "ACK"}, <<>>)})
             \/ Set(e, s) /\ UNCHANGED net
       \/ /\ sock[e].state \in {"SYN_SENT", "CLOSE_WAIT"}
          /\ Closes(e)
    /\ UNCHANGED <<hostVars, skewed>>

(* Its wait ends: the other end has closed too, time is up, or a signal    *)
(* came.  (tcp_tick closes such a socket too, by its own timers.)          *)
DisconnectEnds(e) ==
    /\ sock[e].state \in {"FIN_WAIT1", "FIN_WAIT2", "TIME_WAIT"}
    /\ Closes(e)
    /\ UNCHANGED <<hostVars, skewed>>

(* tcp_tick sends the FIN again, from behind the one before. *)
TickFin(e) ==
    LET s == sock[e] IN
    /\ s.state = "FIN_WAIT1" /\ s.fins < load.fins
    /\ Set(e, [s EXCEPT !.send_next = Plus(@, 1), !.fins = @ + 1])
    /\ Sends({Segment(e, s, {"FIN", "ACK"}, <<>>)})
    /\ UNCHANGED <<hostVars, skewed>>

(* tcp_receive in FIN_WAIT1 and FIN_WAIT2.  Bytes that arrive are lost. *)
ReceiveFinWait(m) ==
    LET e == m.to
        s == [sock[e] EXCEPT !.state = "TIME_WAIT", !.recv_next = Plus(m.seq, 1)]
    IN  /\ \/ /\ sock[e].state = "FIN_WAIT1" /\ {"FIN", "ACK"} \subseteq m.flags
              /\ Answer(e, s)
           \/ /\ sock[e].state = "FIN_WAIT1" /\ m.flags \cap {"FIN", "ACK"} = {"ACK"}
              /\ Set(e, [sock[e] EXCEPT !.state = "FIN_WAIT2"]) /\ UNCHANGED net
           \/ /\ sock[e].state = "FIN_WAIT2" /\ "FIN" \in m.flags
              /\ Answer(e, s)
        /\ UNCHANGED <<hostVars, skewed>>

(* A RST, which this code never sends, arrives from elsewhere. *)
Reset(e) ==
    /\ \/ /\ sock[e].state \in {"SYN_SENT", "ESTABLISHED", "FIN_WAIT1", "FIN_WAIT2"}
          /\ Closes(e)
          /\ UNCHANGED pending_count
       \/ /\ sock[e].state = "SYN_RCVD"
          /\ DropServerSocket(e)
          /\ UNCHANGED net
    /\ UNCHANGED <<listening, completed, tcp_isn, opens, load, skewed>>

-----------------------------------------------------------------------------
(* Bound: a connection is followed until its ends count from different     *)
(* places.  That happens when it is opened by a SYN of tcp_tick or by a    *)
(* second SYN+ACK, when the SYN or a probe cannot be sent a second time,   *)
(* and when a probe is sent before the byte it stands on has arrived.      *)
InStep(e) == e[1] \notin skewed

Receive(m) == \/ ReceiveSyn(m) \/ ReceiveSynSent(m) \/ ReceiveSynRcvd(m)
              \/ ReceiveEstablished(m) \/ ReceiveFinWait(m)

Tick(e) == TickSynRcvd(e) \/ TickRetransmit(e) \/ TickProbe(e) \/ TickGiveUp(e) \/ TickFin(e)

Call(e) == \/ SendCall(e) \/ SendSegment(e) \/ Recv(e)
           \/ Disconnect(e) \/ DisconnectEnds(e) \/ Reset(e)

Next ==
    \/ \E c \in Clients : ConnectStart(c) \/ ConnectAgain(c) \/ TickSyn(c) \/ ConnectEnds(c)
    \/ \E m \in net : InStep(m.to) /\ Receive(m)
    \/ \E e \in Ends : InStep(e) /\ (Tick(e) \/ Call(e))
    \/ Accept \/ Unlisten \/ Listen

Spec == Init /\ [][Next]_vars

-----------------------------------------------------------------------------
(* The bytes an application reads are the bytes the other one wrote: once, *)
(* in order, none left out, whatever the network loses, repeats or delays, *)
(* wherever the sequence numbers wrap and however much the buffer takes,   *)
(* as long as the ends count from the same places.                         *)
StreamExact ==
    \A e \in Ends : InStep(e) =>
        /\ sock[e].rx = [i \in 1 .. Len(sock[e].rx) |-> i]
        /\ Len(sock[e].rx) <= sock[Peer(e)].sent

(* End of file is honest: an end that saw the FIN has every byte that was  *)
(* sent before it.                                                         *)
EofHonest ==
    \A e \in Ends : InStep(e) /\ sock[e].state = "CLOSE_WAIT" =>
        Len(sock[e].rx) = sock[Peer(e)].sent

(* Nothing is forgotten: while a connection lives, every byte that has not *)
(* arrived is in the queue of those that tcp_tick sends again, up to the   *)
(* ones for which kmalloc failed.                                          *)
Retained ==
    \A e \in Ends :
        /\ InStep(e)
        /\ sock[e].state = "ESTABLISHED" /\ sock[Peer(e)].state = "ESTABLISHED"
        => \A i \in Len(sock[Peer(e)].rx) + 1 .. sock[e].sent :
              i \in sock[e].unqueued \/ \E k \in DOMAIN sock[e].retx : Contains(sock[e].retx[k].data, i)

(* pending_count is the number of sockets that wait to be completed or     *)
(* accepted, through time-outs, resets and a listener that is closed and   *)
(* opened again, and the backlog bounds it.                                *)
BacklogExact ==
    /\ pending_count = Cardinality({e \in Ends : sock[e].state = "SYN_RCVD"}) + Len(completed)
    /\ pending_count <= Backlog
=============================================================================
